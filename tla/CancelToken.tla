---------------------------- MODULE CancelToken ----------------------------
(***************************************************************************)
(* Cancellation scopes and the tokens handed out against them              *)
(* (CancelToken.h, CancelToken.cpp): a table of slots recycled through a   *)
(* tagged free list, a generation and a cancelled flag in one word, and a  *)
(* parent link that Cancelled walks to the root.                           *)
(*                                                                         *)
(* Owners construct, cancel and destroy scopes; Readers hold tokens that   *)
(* may be stale, and ask Cancelled or call CancelVia.  A scope gets a      *)
(* number when it is constructed.  The numbers are there for the           *)
(* properties only: the code knows a scope by its slot and generation.     *)
(***************************************************************************)
EXTENDS Integers, Sequences, FiniteSets

CONSTANTS
  Owners, Readers,
  NumSlots,      \* kCancelSlots
  GenMod,        \* generations before a token's generation wraps, 2^16
  MaxDepth,      \* kMaxScopeDepth
  MaxScopes      \* bound: scopes constructed in all

Slots == 1..NumSlots
kNone == <<0, 0>>
Tokens == {kNone} \cup (Slots \X (0..GenMod - 1))

VARIABLES
  gen, flag,   \* the two halves of CancelSlot::state
  parent,      \* CancelSlot::parent
  nextFree,    \* CancelSlot::nextFree; 0 ends the list
  freeHead,    \* <<tag, slot>>
  own,         \* an owner's locals: step, head, next, slot, par, id
  rd,          \* a reader's locals, and what its answer is judged by
  scope,       \* scopes constructed so far: token, enclosing scope, owner
  live,        \* the scopes whose generation is still the slot's
  asked        \* the scopes someone has cancelled

vars == <<gen, flag, parent, nextFree, freeHead, own, rd, scope, live, asked>>

NoOwn == [step |-> "idle", head |-> <<0, 0>>, next |-> 0, slot |-> 0, par |-> kNone, id |-> 0]
NoRead == [step |-> "idle", raw |-> kNone, depth |-> 0, gen |-> 0, id |-> 0,
           due |-> FALSE, broken |-> FALSE, answer |-> FALSE]

TypeOK ==
  /\ gen \in [Slots -> Nat] /\ flag \in [Slots -> BOOLEAN]
  /\ parent \in [Slots -> Tokens]
  /\ nextFree \in [Slots -> 0..NumSlots]
  /\ freeHead \in Nat \X (0..NumSlots)
  /\ \A o \in Owners :
       own[o].step \in {"idle", "acquire", "acquirecas", "resolve", "publish",
                        "orphan", "release", "releasecas"}
  /\ \A r \in Readers :
       rd[r].step \in {"idle", "state", "parent", "cas", "answered"}
  /\ DOMAIN scope = 1..Len(scope)
  /\ live \subseteq DOMAIN scope /\ asked \subseteq DOMAIN scope

Init ==
  /\ gen = [s \in Slots |-> 0] /\ flag = [s \in Slots |-> FALSE]
  /\ parent = [s \in Slots |-> kNone]
  /\ nextFree = [s \in Slots |-> IF s = NumSlots THEN 0 ELSE s + 1]
  /\ freeHead = <<0, 1>>
  /\ own = [o \in Owners |-> NoOwn]
  /\ rd = [r \in Readers |-> NoRead]
  /\ scope = <<>> /\ live = {} /\ asked = {}

-----------------------------------------------------------------------------
GenOf(s) == gen[s] % GenMod

\* ResolveCancelSlot(raw) finds the slot still the one the token names.
Resolves(raw) == raw # kNone /\ GenOf(raw[1]) = raw[2]

Within(n) ==
  LET up[m \in 0..MaxScopes] ==
        IF m = 0 THEN {} ELSE {m} \cup up[scope[m].encl]
  IN up[n]

\* What a reader under way learns when scope n is destroyed.
Breaks(n) ==
  rd' = [r \in Readers |->
           [rd[r] EXCEPT !.broken = @ \/ (rd[r].id # 0 /\ n \in Within(rd[r].id))]]

-----------------------------------------------------------------------------
(* CancelScope() and CancelScope(parent) *)

Pending == Cardinality({o \in Owners : own[o].step \in {"acquire", "acquirecas",
                                                       "resolve", "publish"}})

\* The constructor, nested in scope n or, for n = 0, a root; AcquireSlot
\* loads the head of the free list.
Construct(o, n) ==
  /\ own[o].step = "idle" /\ Len(scope) + Pending < MaxScopes
  /\ own' = [own EXCEPT ![o] = [NoOwn EXCEPT !.step = "acquire", !.head = freeHead, !.id = n]]
  /\ UNCHANGED <<gen, flag, parent, nextFree, freeHead, rd, scope, live, asked>>

\* An empty list makes an invalid scope, whose tokens are kNone.
AcquireSlot(o) ==
  /\ own[o].step = "acquire"
  /\ own' = [own EXCEPT ![o] =
               IF @.head[2] = 0 THEN NoOwn
               ELSE [@ EXCEPT !.step = "acquirecas", !.next = nextFree[own[o].head[2]]]]
  /\ UNCHANGED <<gen, flag, parent, nextFree, freeHead, rd, scope, live, asked>>

AcquireCas(o) ==
  /\ own[o].step = "acquirecas"
  /\ \/ /\ freeHead = own[o].head
        /\ freeHead' = <<freeHead[1] + 1, own[o].next>>
        /\ own' = [own EXCEPT ![o].step = "resolve", ![o].slot = own[o].head[2]]
     \/ /\ freeHead # own[o].head
        /\ own' = [own EXCEPT ![o].step = "acquire", ![o].head = freeHead]
        /\ UNCHANGED freeHead
  /\ UNCHANGED <<gen, flag, parent, nextFree, rd, scope, live, asked>>

\* A parent that is gone makes a root scope.
ResolveParent(o) ==
  /\ own[o].step = "resolve"
  /\ LET raw == IF own[o].id = 0 THEN kNone ELSE scope[own[o].id].raw
     IN own' = [own EXCEPT ![o] =
                  IF Resolves(raw) THEN [@ EXCEPT !.step = "publish", !.par = raw]
                  ELSE [@ EXCEPT !.step = "publish", !.par = kNone, !.id = 0]]
  /\ UNCHANGED <<gen, flag, parent, nextFree, freeHead, rd, scope, live, asked>>

\* The parent link is stored before the token exists.
Publish(o) ==
  /\ own[o].step = "publish"
  /\ LET s == own[o].slot
     IN /\ parent' = [parent EXCEPT ![s] = own[o].par]
        /\ scope' = Append(scope, [raw |-> <<s, GenOf(s)>>, encl |-> own[o].id, owner |-> o])
  /\ live' = live \cup {Len(scope')}
  /\ own' = [own EXCEPT ![o] = NoOwn]
  /\ UNCHANGED <<gen, flag, nextFree, freeHead, rd, asked>>

-----------------------------------------------------------------------------
(* ~CancelScope *)

\* One step for the generation and the flag.
Destroy(o, n) ==
  /\ own[o].step = "idle" /\ n \in live /\ scope[n].owner = o
  /\ LET s == scope[n].raw[1]
     IN /\ gen' = [gen EXCEPT ![s] = @ + 1]
        /\ flag' = [flag EXCEPT ![s] = FALSE]
        /\ own' = [own EXCEPT ![o] = [NoOwn EXCEPT !.step = "orphan", !.slot = s]]
  /\ live' = live \ {n}
  /\ Breaks(n)
  /\ UNCHANGED <<parent, nextFree, freeHead, scope, asked>>

\* parent = kNone; ReleaseSlot loads the head.
ClearParent(o) ==
  /\ own[o].step = "orphan"
  /\ parent' = [parent EXCEPT ![own[o].slot] = kNone]
  /\ own' = [own EXCEPT ![o].step = "release", ![o].head = freeHead]
  /\ UNCHANGED <<gen, flag, nextFree, freeHead, rd, scope, live, asked>>

ReleaseSlot(o) ==
  /\ own[o].step = "release"
  /\ nextFree' = [nextFree EXCEPT ![own[o].slot] = own[o].head[2]]
  /\ own' = [own EXCEPT ![o].step = "releasecas"]
  /\ UNCHANGED <<gen, flag, parent, freeHead, rd, scope, live, asked>>

ReleaseCas(o) ==
  /\ own[o].step = "releasecas"
  /\ \/ /\ freeHead = own[o].head
        /\ freeHead' = <<freeHead[1] + 1, own[o].slot>>
        /\ own' = [own EXCEPT ![o] = NoOwn]
     \/ /\ freeHead # own[o].head
        /\ own' = [own EXCEPT ![o].step = "release", ![o].head = freeHead]
        /\ UNCHANGED freeHead
  /\ UNCHANGED <<gen, flag, parent, nextFree, rd, scope, live, asked>>

-----------------------------------------------------------------------------
(* Cancel, CancelVia, Cancelled *)

\* The owner's Cancel: fetch_or, no generation to check.
Cancel(o, n) ==
  /\ own[o].step = "idle" /\ n \in live \ asked /\ scope[n].owner = o
  /\ flag' = [flag EXCEPT ![scope[n].raw[1]] = TRUE]
  /\ asked' = asked \cup {n}
  /\ UNCHANGED <<gen, parent, nextFree, freeHead, own, rd, scope, live>>

\* A token holder loads the state; a stale token and a scope that is
\* cancelled already end the call.
CancelVia(r, n) ==
  /\ rd[r].step = "idle"
  /\ LET s == scope[n].raw[1]
     IN /\ Resolves(scope[n].raw) /\ ~flag[s]
        /\ rd' = [rd EXCEPT ![r] = [NoRead EXCEPT !.step = "cas", !.id = n,
                                                  !.raw = scope[n].raw, !.gen = gen[s]]]
  /\ UNCHANGED <<gen, flag, parent, nextFree, freeHead, own, scope, live, asked>>

\* Faulty variant: the flag is stored without comparing the generation again.
CancelViaStore(r) ==
  /\ rd[r].step = "cas"
  /\ flag' = [flag EXCEPT ![rd[r].raw[1]] = TRUE]
  /\ asked' = asked \cup {rd[r].id}
  /\ rd' = [rd EXCEPT ![r] = NoRead]
  /\ UNCHANGED <<gen, parent, nextFree, freeHead, own, scope, live>>

\* The compare-exchange of the whole word; when it fails the word is looked
\* at again.
CancelViaCas(r) ==
  /\ rd[r].step = "cas"
  /\ LET s == rd[r].raw[1]
     IN \/ /\ gen[s] = rd[r].gen /\ ~flag[s]
           /\ flag' = [flag EXCEPT ![s] = TRUE]
           /\ asked' = asked \cup {rd[r].id}
           /\ rd' = [rd EXCEPT ![r] = NoRead]
        \/ /\ gen[s] # rd[r].gen \/ flag[s]
           /\ rd' = [rd EXCEPT ![r] = IF Resolves(@.raw) /\ ~flag[s]
                                      THEN [@ EXCEPT !.gen = gen[s]] ELSE NoRead]
           /\ UNCHANGED <<flag, asked>>
  /\ UNCHANGED <<gen, parent, nextFree, freeHead, own, scope, live>>

\* The cancelled scopes a walk from n must find: enclosing ones, reached
\* through scopes that live, within MaxDepth.
Due(n) ==
  \E m \in Within(n) \cap asked :
    LET chain == {k \in Within(n) : k >= m}
    IN chain \subseteq live /\ Cardinality(chain) <= MaxDepth

Cancelled(r, n) ==
  /\ rd[r].step = "idle"
  /\ rd' = [rd EXCEPT ![r] = [NoRead EXCEPT !.step = "state", !.id = n,
                                            !.raw = scope[n].raw, !.due = Due(n)]]
  /\ UNCHANGED <<gen, flag, parent, nextFree, freeHead, own, scope, live, asked>>

Answer(r, a) == rd' = [rd EXCEPT ![r].step = "answered", ![r].answer = a]

\* One load of the state: stale, cancelled, or go on to the parent link.
LoadState(r) ==
  /\ rd[r].step = "state"
  /\ \/ ~Resolves(rd[r].raw) /\ Answer(r, FALSE)
     \/ Resolves(rd[r].raw) /\ flag[rd[r].raw[1]] /\ Answer(r, TRUE)
     \/ /\ Resolves(rd[r].raw) /\ ~flag[rd[r].raw[1]]
        /\ rd' = [rd EXCEPT ![r].step = "parent"]
  /\ UNCHANGED <<gen, flag, parent, nextFree, freeHead, own, scope, live, asked>>

LoadParent(r) ==
  /\ rd[r].step = "parent"
  /\ LET up == parent[rd[r].raw[1]]
     IN \/ (up = kNone \/ rd[r].depth + 1 = MaxDepth) /\ Answer(r, FALSE)
        \/ /\ up # kNone /\ rd[r].depth + 1 < MaxDepth
           /\ rd' = [rd EXCEPT ![r].step = "state", ![r].raw = up, ![r].depth = @ + 1]
  /\ UNCHANGED <<gen, flag, parent, nextFree, freeHead, own, scope, live, asked>>

Return(r) ==
  /\ rd[r].step = "answered"
  /\ rd' = [rd EXCEPT ![r] = NoRead]
  /\ UNCHANGED <<gen, flag, parent, nextFree, freeHead, own, scope, live, asked>>

-----------------------------------------------------------------------------
OwnerStep(o) ==
  \/ \E n \in {0} \cup DOMAIN scope : Construct(o, n)
  \/ AcquireSlot(o) \/ AcquireCas(o) \/ ResolveParent(o) \/ Publish(o)
  \/ \E n \in live : Destroy(o, n) \/ Cancel(o, n)
  \/ ClearParent(o) \/ ReleaseSlot(o) \/ ReleaseCas(o)

ReaderStep(r) ==
  \/ \E n \in DOMAIN scope : CancelVia(r, n) \/ Cancelled(r, n)
  \/ CancelViaCas(r) \/ LoadState(r) \/ LoadParent(r) \/ Return(r)

Next == (\E o \in Owners : OwnerStep(o)) \/ \E r \in Readers : ReaderStep(r)

Spec == Init /\ [][Next]_vars

-----------------------------------------------------------------------------
\* The slots on the free list, from the head; a list with a loop never ends.
FreeList ==
  LET from[k \in 0..NumSlots] ==
        IF k = 0 THEN <<freeHead[2]>> ELSE
          LET l == from[k - 1]
              s == l[Len(l)]
          IN IF s = 0 THEN l ELSE Append(l, nextFree[s])
  IN from[NumSlots]

HeldSlots ==
  {scope[n].raw[1] : n \in live}
    \cup {own[o].slot : o \in {p \in Owners : own[p].step # "idle" /\ own[p].slot # 0}}

\* A slot has one user: it is on the free list, which ends, or it belongs to
\* one live scope or to one constructor or destructor.  The tag of the head
\* keeps AcquireSlot from publishing a stale successor.
OneTenant ==
  LET free == {FreeList[i] : i \in DOMAIN FreeList} \ {0}
  IN /\ FreeList[Len(FreeList)] = 0
     /\ free \cup HeldSlots = Slots /\ free \cap HeldSlots = {}
     /\ \A m, n \in live : m # n => scope[m].raw[1] # scope[n].raw[1]

\* A late CancelVia cancels its own scope or nothing: a live scope is flagged
\* only if someone cancelled that scope, and a free slot is not flagged.
CancelsOnlyItsScope ==
  \A s \in Slots :
    flag[s] => \E n \in live \cap asked : scope[n].raw[1] = s

\* Cancelled() tells the truth about a chain of scopes of which none is
\* destroyed while it walks: it finds a scope cancelled before it began, up to
\* MaxDepth away, and reports no one else's cancellation.
CancelledIsRight ==
  \A r \in Readers :
    rd[r].step = "answered" /\ ~rd[r].broken =>
      /\ rd[r].due => rd[r].answer
      /\ rd[r].answer => Within(rd[r].id) \cap asked # {}
=============================================================================
