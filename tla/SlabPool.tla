------------------------------ MODULE SlabPool -------------------------------
(***************************************************************************)
(* The task allocator: one SlabPool per slot size, each a slab handed out  *)
(* from its front, extents added when it runs out, a shared list of free   *)
(* slots under a mutex and a list of its own for every thread.  The lists  *)
(* are linked through the free slots themselves, and a batch moves between *)
(* them by its first and last slot.                                        *)
(*                                                                         *)
(* A thread's list is its own and the shared part changes under the lock,  *)
(* so one action is one call of Alloc or Free.                             *)
(***************************************************************************)
EXTENDS Integers, FiniteSets, Sequences, SequencesExt

CONSTANTS
  Threads,
  NumClasses,   \* slot sizes, smallest first
  memSlots,     \* of a class: the slots of its slab
  kGrowSlots,   \* the slots of an extent
  BATCH,
  MaxExtents,   \* bound on the extents of a class
  Null

VARIABLES
  next,         \* the link in a free slot (a used one holds a task)
  sharedHead, bumpNext, extents, extentBump, \* of a class
  cache,        \* of a thread and a class: its list and the count of it
  used          \* the slots handed out

slabVars == <<next, sharedHead, bumpNext, extents, extentBump, cache, used>>

Classes == 1..NumClasses
SlotsOf(c) == {<<c, i>> : i \in 1..(memSlots[c] + MaxExtents * kGrowSlots)}
Slots == UNION {SlotsOf(c) : c \in Classes}

\* The list that starts at h in the links nx, cut off when it is longer than
\* there are slots.
Chain(nx, h) ==
  LET RECURSIVE From(_, _)
      From(s, n) == IF s = Null \/ n = 0 THEN << >> ELSE <<s>> \o From(nx[s], n - 1)
  IN From(h, Cardinality(Slots) + 1)

\* The slabs start lazy (nothing prefaulted).
Init ==
  /\ next = [s \in Slots |-> Null]
  /\ sharedHead = [c \in Classes |-> Null]
  /\ bumpNext = [c \in Classes |-> 0]
  /\ extents = [c \in Classes |-> 0]
  /\ extentBump = [c \in Classes |-> 0]
  /\ cache = [t \in Threads |-> [c \in Classes |-> [head |-> Null, count |-> 0]]]
  /\ used = {}

Lesser(a, b) == IF a < b THEN a ELSE b

\* The links of a list that starts with the slots of seq, last first, followed
\* by the list at h: slots pushed one by one.
Pushed(nx, seq, h) ==
  [s \in Slots |-> IF ~Contains(seq, s) THEN nx[s]
                   ELSE LET i == CHOOSE j \in DOMAIN seq : seq[j] = s
                        IN IF i = 1 THEN h ELSE seq[i - 1]]

\* refill, under the lock: up to BATCH slots off the shared list, topped up
\* from the front of the slab; when there are none, from an extent.  The result
\* is the batch's head and tail and the changed parts of the pool; grows says
\* whether the allocation of a new extent succeeds.
Refill(c, grows) ==
  LET shared == Chain(next, sharedHead[c])
      taken == Lesser(BATCH, Len(shared))
      head0 == IF taken = 0 THEN Null ELSE sharedHead[c]
      tail0 == IF taken = 0 THEN Null ELSE shared[taken]
      left == IF taken = 0 THEN Null ELSE next[shared[taken]]
      fresh == Lesser(BATCH - taken, memSlots[c] - bumpNext[c])
      topUp == [k \in 1..fresh |-> <<c, bumpNext[c] + k>>]
      grow == taken + fresh = 0 /\ (extents[c] = 0 \/ extentBump[c] = kGrowSlots)
      ext == IF taken + fresh > 0 \/ (grow /\ ~grows) THEN 0
             ELSE Lesser(BATCH, IF grow THEN kGrowSlots ELSE kGrowSlots - extentBump[c])
      base == IF grow THEN 0 ELSE extentBump[c]
      off == memSlots[c] + ((IF grow THEN extents[c] ELSE extents[c] - 1) * kGrowSlots) + base
      more == topUp \o [k \in 1..ext |-> <<c, off + k>>]
  IN [next |-> Pushed(next, more, head0),
      head |-> IF more = << >> THEN head0 ELSE Last(more),
      tail |-> IF head0 # Null \/ more = << >> THEN tail0 ELSE more[1],
      moved |-> taken + Len(more),
      sharedHead |-> IF taken = 0 THEN sharedHead[c] ELSE left,
      bumpNext |-> bumpNext[c] + fresh,
      extents |-> IF ext > 0 /\ grow THEN extents[c] + 1 ELSE extents[c],
      extentBump |-> IF ext > 0 THEN base + ext ELSE extentBump[c]]

MayRefill(c) == memSlots[c] > 0

\* Alloc on a list with a slot.
AllocLocal(t, c) ==
  LET slot == cache[t][c].head IN
  /\ slot # Null
  /\ used' = used \cup {slot}
  /\ cache' = [cache EXCEPT ![t][c] = [head |-> next[slot], count |-> @.count - 1]]
  /\ next' = [next EXCEPT ![slot] = Null]
  /\ UNCHANGED <<sharedHead, bumpNext, extents, extentBump>>

\* Alloc on an empty list: refill, splice, take.  Nothing happens when the
\* refill brings nothing, and AllocSized goes on to the next class.
AllocRefills(t, c, grows) ==
  LET r == Refill(c, grows)
      spliced == [r.next EXCEPT ![r.tail] = Null]
  IN /\ cache[t][c].head = Null /\ MayRefill(c) /\ r.moved > 0
     /\ used' = used \cup {r.head}
     /\ next' = [spliced EXCEPT ![r.head] = Null]
     /\ cache' = [cache EXCEPT ![t][c] = [head |-> spliced[r.head],
                                          count |-> @.count + r.moved - 1]]
     /\ sharedHead' = [sharedHead EXCEPT ![c] = r.sharedHead]
     /\ bumpNext' = [bumpNext EXCEPT ![c] = r.bumpNext]
     /\ extents' = [extents EXCEPT ![c] = r.extents]
     /\ extentBump' = [extentBump EXCEPT ![c] = r.extentBump]

Dry(t, c, grows) ==
  cache[t][c].head = Null /\ (~MayRefill(c) \/ Refill(c, grows).moved = 0)

\* AllocSized of the smallest class n that fits: the first class with a slot.
AllocSized(t, n, grows) ==
  \E c \in n..NumClasses :
    /\ \A b \in n..(c - 1) : Dry(t, b, grows)
    /\ extents[c] < MaxExtents \/ extentBump[c] < kGrowSlots \/ ~grows
    /\ AllocLocal(t, c) \/ AllocRefills(t, c, grows)

\* flush: the first count - BATCH slots of the list, as one batch, to the
\* front of the shared list.
Flush(t, c, nx, head, count) ==
  LET toMove == count - BATCH
      seq == Chain(nx, head)
      last == seq[toMove]
  IN /\ cache' = [cache EXCEPT ![t][c] = [head |-> nx[last], count |-> BATCH]]
     /\ next' = [nx EXCEPT ![last] = sharedHead[c]]
     /\ sharedHead' = [sharedHead EXCEPT ![c] = head]

\* FreeSized finds the class by the slot's address; Free links the slot to the
\* calling thread's list, whoever allocated it, and flushes a long list.
Free(t, s) ==
  LET c == s[1]
      nx == [next EXCEPT ![s] = cache[t][c].head]
      count == cache[t][c].count + 1
  IN /\ s \in used
     /\ used' = used \ {s}
     /\ IF count > 2 * BATCH THEN Flush(t, c, nx, s, count)
        ELSE /\ cache' = [cache EXCEPT ![t][c] = [head |-> s, count |-> count]]
             /\ next' = nx
             /\ UNCHANGED sharedHead
     /\ UNCHANGED <<bumpNext, extents, extentBump>>

Next ==
  \E t \in Threads :
    \/ \E n \in Classes, grows \in BOOLEAN : AllocSized(t, n, grows)
    \/ \E s \in used : Free(t, s)

Spec == Init /\ [][Next]_slabVars

-----------------------------------------------------------------------------
\* The state is of its type.
TypeOK ==
  /\ next \in [Slots -> Slots \cup {Null}]
  /\ \A c \in Classes : /\ sharedHead[c] \in SlotsOf(c) \cup {Null}
                        /\ bumpNext[c] \in 0..memSlots[c]
                        /\ extents[c] \in 0..MaxExtents
                        /\ extentBump[c] \in 0..kGrowSlots
  /\ \A t \in Threads, c \in Classes : /\ cache[t][c].head \in SlotsOf(c) \cup {Null}
                                       /\ cache[t][c].count \in 0..(2 * BATCH)
  /\ used \subseteq Slots

\* The slots of class c that have left their slab or extent.
Issued(c) ==
  {s \in SlotsOf(c) : \/ s[2] <= bumpNext[c]
                      \/ /\ extents[c] > 0 /\ s[2] > memSlots[c]
                         /\ s[2] <= memSlots[c] + (extents[c] - 1) * kGrowSlots + extentBump[c]}

\* Every slot that has left its slab is in use or on exactly one list, once,
\* and a thread's count is the length of its list: refill and flush splice
\* batches without losing, sharing or looping a slot.
SlotsAccounted ==
  \A c \in Classes :
    LET lists == <<Chain(next, sharedHead[c])>>
                   \o SetToSeq({<<t, Chain(next, cache[t][c].head)>> : t \in Threads})
        all == lists[1] \o FlattenSeq([i \in 1..(Len(lists) - 1) |-> lists[i + 1][2]])
    IN /\ Len(all) + Cardinality(used \cap SlotsOf(c)) = Cardinality(Issued(c))
       /\ Range(all) = Issued(c) \ used
       /\ \A t \in Threads : cache[t][c].count = Len(Chain(next, cache[t][c].head))
=============================================================================
