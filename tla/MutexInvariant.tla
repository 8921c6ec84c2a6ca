--------------------------- MODULE MutexInvariant ---------------------------
(***************************************************************************)
(* The inductive invariant of SchedulerMutex, what it says of the queue    *)
(* of waiters, and the steps that take the lock or wait for it: Lock,      *)
(* LockCancellable, Try_Lock and the fallback of the bare threads.         *)
(* MutexProofs has the steps that release and cancel, and the theorems.    *)
(***************************************************************************)
EXTENDS SchedulerMutex, FiniteSetTheorems, TLAPS

-----------------------------------------------------------------------------
(* The inductive invariant of SchedulerMutex *)

\* f has asked to be suspended and nobody has signalled it.
Asleep(f) == status[f] \in {"WANTS_SUSPEND", "SUSPENDED"}

\* What the status, the stack and the run queues say of a fiber together.
FiberFits(f) ==
  \/ status[f] = "RUNNING" /\ stack[f] = "on" /\ queued[f] = 0
  \/ /\ pc[f] = "queued" /\ stack[f] \in {"on", "saved"} /\ queued[f] = 0
     /\ status[f] \in {"WANTS_SUSPEND", "SUSPEND_SIGNALED"}
  \/ pc[f] = "queued" /\ status[f] = "SUSPENDED" /\ stack[f] = "off" /\ queued[f] = 0
  \/ pc[f] = "queued" /\ status[f] = "READY" /\ stack[f] = "off" /\ queued[f] = 1

\* Some Unlock has popped f and not resumed it.
Popped(f) == \E c \in Callers : next[c] = f

\* A fiber sleeps exactly while one waker has it: the queue, an Unlock that
\* popped it or CancelWaiters.
OneWaker(f) ==
  /\ Asleep(f) <=> f \in ToSet(waiters) \/ Popped(f) \/ Ejected(f)
  /\ ~(f \in ToSet(waiters) /\ Popped(f))
  /\ ~(f \in ToSet(waiters) /\ Ejected(f))
  /\ ~(Popped(f) /\ Ejected(f))

\* Every fiber is consistent with itself and with its wakers, and is queued once.
WaitersFit ==
  /\ \A f \in Fibers : FiberFits(f)
  /\ \A f \in Fibers : OneWaker(f)
  /\ IsInjective(waiters)

\* CancelWaiters has victims to resume only after a pass that found some, each
\* of them once and cancellable.
CancellerFits ==
  /\ canc.step \in {"none", "collect", "resume"}
  /\ canc.step = "resume" =>
       /\ canc.victims # <<>> /\ IsInjective(canc.victims)
       /\ ToSet(canc.victims) \subseteq Cancellable

\* Resumed with the lock, as the fiber's own status tells it.
HandedOver(f) ==
  /\ pc[f] = "queued" /\ ~Asleep(f)
  /\ ~(f \in Cancellable /\ result[f] = "Cancelled")

\* Owns, with Granted read off the fiber's status: whoever is between taking
\* the lock, or being handed it, and freeing it or handing it on.
Has(c) ==
  \/ pc[c] \in {"acquired", "cs", "release", "handoff", "leave"}
  \/ c \in Fibers /\ HandedOver(c)

\* A free lock has neither owner nor queue; a locked one has one owner.
OwnerFits ==
  \/ ~locked /\ waiters = <<>> /\ \A c \in Callers : ~Has(c)
  \/ locked /\ \E o \in Callers : \A c \in Callers : Has(c) <=> c = o

\* An Unlock has a waiter in its hands exactly until it resumes it.
HandsFit == \A c \in Callers : next[c] # NoTask <=> pc[c] = "handoff"

\* The bare threads between their registration and BareLeave.
Registered == {t \in Threads : pc[t] \in {"gate", "pred", "sleepy", "asleep", "leave"}}

\* bareMtx is held by the thread at its predicate, bareWaiters counts those
\* registered, and one on its way to sleep beside a free lock is not alone.
BareFits ==
  /\ \A t \in Threads : bareMtx = t <=> pc[t] \in {"pred", "sleepy"}
  /\ bareWaiters = Cardinality(Registered)
  /\ ~locked /\ (\E t \in Threads : pc[t] \in {"sleepy", "asleep"})
       => \E c \in Callers : pc[c] \in {"freed", "notify", "gate", "pred"}

\* The inductive invariant.
IInv ==
  /\ TypeOK /\ WaitersFit /\ CancellerFits /\ HandsFit
  /\ OwnerFits /\ HolderIsOwner /\ BareFits

-----------------------------------------------------------------------------
(* Queues *)

\* The rank of the index of a kept element among the indices of all of them
\* is a bijection, so that Only has each of them once.
LEMMA RankIsBijective ==
  ASSUME NEW n \in Nat, NEW at \in SUBSET (1..n)
  PROVE  LET r == [i \in at |-> Cardinality({j \in at : j <= i})]
         IN  /\ IsFiniteSet(at) /\ Cardinality(at) \in Nat
             /\ r \in [at -> 1..Cardinality(at)]
             /\ \A i, j \in at : r[i] = r[j] => i = j
             /\ \A k \in 1..Cardinality(at) : \E i \in at : r[i] = k
<1> DEFINE Below(i) == {j \in at : j <= i}
           r == [i \in at |-> Cardinality(Below(i))]
<1>1. IsFiniteSet(at) /\ Cardinality(at) \in Nat
  <2>1. IsFiniteSet(1..n)
    BY FS_Interval
  <2>2. IsFiniteSet(at)
    BY <2>1, FS_Subset
  <2> QED BY <2>2, FS_CardinalityType
<1>2. ASSUME NEW i \in at
      PROVE  /\ IsFiniteSet(Below(i)) /\ Cardinality(Below(i)) \in Nat
             /\ r[i] = Cardinality(Below(i)) /\ r[i] \in 1..Cardinality(at)
  <2>1. Below(i) \in SUBSET at /\ i \in Below(i)
    OBVIOUS
  <2>2. /\ IsFiniteSet(Below(i)) /\ Cardinality(Below(i)) \in Nat
        /\ Cardinality(Below(i)) <= Cardinality(at)
    BY <1>1, <2>1, FS_Subset, FS_CardinalityType
  <2>3. Cardinality(Below(i)) # 0
    BY <2>1, <2>2, FS_EmptySet
  <2> QED BY <1>1, <2>2, <2>3
<1>3. ASSUME NEW i \in at, NEW j \in at, i < j
      PROVE  r[i] # r[j]
  <2>1. i \in Int /\ j \in Int /\ \A k \in at : k \in Int
    OBVIOUS
  <2>2. \A k \in at : k <= i => k <= j
    BY <1>3, <2>1
  <2>3. j <= j /\ ~(j <= i)
    BY <1>3, <2>1
  <2>4. Below(i) \in SUBSET Below(j) /\ j \in Below(j) /\ j \notin Below(i)
    BY <2>2, <2>3
  <2> HIDE DEF Below
  <2>5. Cardinality(Below(j)) # Cardinality(Below(i))
    BY <1>2, <2>4, FS_Subset
  <2> QED BY <1>2, <2>5
<1>4. \A i, j \in at : r[i] = r[j] => i = j
  <2> HIDE DEF r
  <2> QED BY <1>3
<1>5. r \in [at -> 1..Cardinality(at)]
  BY <1>2
<1>6. r \in Injection(at, 1..Cardinality(at))
  <2> HIDE DEF r
  <2> QED BY <1>4, <1>5 DEF Injection, IsInjective
<1>7. IsFiniteSet(1..Cardinality(at)) /\ Cardinality(1..Cardinality(at)) = Cardinality(at)
  BY <1>1, FS_Interval
<1>8. r \in Surjection(at, 1..Cardinality(at))
  <2> HIDE DEF r
  <2> QED BY <1>6, <1>7, FS_Injection
<1>9. \A k \in 1..Cardinality(at) : \E i \in at : r[i] = k
  <2> HIDE DEF r
  <2> QED BY <1>8 DEF Surjection
<1> QED BY <1>1, <1>4, <1>5, <1>9

\* The elements of a sequence.
LEMMA ElementsOf ==
  ASSUME NEW S, NEW s \in Seq(S)
  PROVE  /\ DOMAIN s = 1..Len(s) /\ Len(s) \in Nat
         /\ ToSet(s) \subseteq S
         /\ \A x : x \in ToSet(s) <=> \E i \in 1..Len(s) : s[i] = x
BY DEF ToSet

\* Only(s, M) has the elements of s that are in M, each as often as s.
LEMMA OnlyKeeps ==
  ASSUME NEW S, NEW s \in Seq(S), NEW M
  PROVE  /\ Only(s, M) \in Seq(S)
         /\ ToSet(Only(s, M)) = ToSet(s) \cap M
         /\ IsInjective(s) => IsInjective(Only(s, M))
<1> DEFINE at == {i \in DOMAIN s : s[i] \in M}
           r == [i \in at |-> Cardinality({j \in at : j <= i})]
           n == Cardinality(at)
           Ix(k) == CHOOSE i \in at : Cardinality({j \in at : j <= i}) = k
           o == [k \in 1..n |-> s[Ix(k)]]
<1>1. DOMAIN s = 1..Len(s) /\ Len(s) \in Nat
  BY ElementsOf
<1>2. at \in SUBSET (1..Len(s))
  BY <1>1
<1>3. /\ n \in Nat
      /\ r \in [at -> 1..n]
      /\ \A i, j \in at : r[i] = r[j] => i = j
      /\ \A k \in 1..n : \E i \in at : r[i] = k
  <2> HIDE DEF at
  <2> QED BY <1>1, <1>2, RankIsBijective
<1>4. Only(s, M) = o
  BY Zenon DEF Only
<1>5. \A i \in at : r[i] = Cardinality({j \in at : j <= i})
  OBVIOUS
<1>6. ASSUME NEW k \in 1..n PROVE Ix(k) \in at /\ r[Ix(k)] = k
  <2> HIDE DEF at, r, n
  <2>1. \E i \in at : Cardinality({j \in at : j <= i}) = k
    BY <1>3, <1>5
  <2>2. Ix(k) \in at /\ Cardinality({j \in at : j <= Ix(k)}) = k
    BY <2>1, Zenon
  <2> QED BY <1>5, <2>2
<1>7. \A i \in at : i \in DOMAIN s /\ s[i] \in S /\ s[i] \in M
  BY <1>1
<1>8. o \in Seq(S)
  <2> HIDE DEF at, r, n, Ix
  <2> QED BY <1>3, <1>6, <1>7
<1> HIDE DEF at, r, n, Ix
<1>9. DOMAIN o = 1..n /\ \A k \in 1..n : o[k] = s[Ix(k)]
  OBVIOUS
<1>10. \A i \in at : r[i] \in 1..n /\ Ix(r[i]) = i
  BY <1>3, <1>6
<1> HIDE DEF o
<1>11. ToSet(o) = ToSet(s) \cap M
  <2>1. \A x \in ToSet(o) : x \in ToSet(s) /\ x \in M
    BY <1>6, <1>7, <1>9 DEF ToSet
  <2>2. ASSUME NEW x \in ToSet(s), x \in M PROVE x \in ToSet(o)
    <3>1. PICK i \in DOMAIN s : s[i] = x
      BY DEF ToSet
    <3>2. i \in at
      BY <2>2, <3>1 DEF at
    <3>3. r[i] \in DOMAIN o /\ o[r[i]] = x
      BY <1>9, <1>10, <3>1, <3>2
    <3> QED BY <3>3 DEF ToSet
  <2> QED BY <2>1, <2>2
<1>12. IsInjective(s) => IsInjective(o)
  BY <1>6, <1>7, <1>9 DEF IsInjective
<1> QED BY <1>4, <1>8, <1>11, <1>12

\* A waiter pushed at the end of a queue that does not hold it.
LEMMA AppendAdds ==
  ASSUME NEW S, NEW s \in Seq(S), NEW x \in S, x \notin ToSet(s), IsInjective(s)
  PROVE  /\ Append(s, x) \in Seq(S)
         /\ ToSet(Append(s, x)) = ToSet(s) \cup {x}
         /\ IsInjective(Append(s, x))
<1> DEFINE a == Append(s, x)
<1>1. DOMAIN s = 1..Len(s) /\ Len(s) \in Nat
  BY ElementsOf
<1>2. /\ a \in Seq(S) /\ Len(a) = Len(s) + 1 /\ DOMAIN a = 1..(Len(s) + 1)
      /\ \A i \in 1..Len(s) : a[i] = s[i]
      /\ a[Len(s) + 1] = x
  OBVIOUS
<1> HIDE DEF a
<1>3. \A i \in 1..(Len(s) + 1) : i \in 1..Len(s) \/ i = Len(s) + 1
  BY <1>1
<1>4. \A i \in 1..Len(s) : s[i] # x
  BY <1>1 DEF ToSet
<1>5. ToSet(a) = ToSet(s) \cup {x}
  BY <1>1, <1>2, <1>3 DEF ToSet
<1>6. IsInjective(a)
  BY <1>1, <1>2, <1>3, <1>4 DEF IsInjective
<1> QED BY <1>2, <1>5, <1>6 DEF a

\* The first waiter taken out of a queue.
LEMMA TailRemoves ==
  ASSUME NEW S, NEW s \in Seq(S), s # <<>>, IsInjective(s)
  PROVE  /\ Head(s) \in S /\ Head(s) \in ToSet(s)
         /\ Tail(s) \in Seq(S)
         /\ ToSet(Tail(s)) = ToSet(s) \ {Head(s)}
         /\ IsInjective(Tail(s))
         /\ Len(s) \in Nat \ {0}
         /\ Len(s) = 1 => ToSet(s) = {Head(s)}
         /\ Len(s) > 1 => Tail(s) # <<>>
<1> DEFINE t == Tail(s)
<1>1. DOMAIN s = 1..Len(s) /\ Len(s) \in Nat \ {0}
  OBVIOUS
<1>2. Head(s) = s[1] /\ s[1] \in S
  OBVIOUS
<1>3. /\ t \in Seq(S) /\ Len(t) = Len(s) - 1 /\ DOMAIN t = 1..(Len(s) - 1)
      /\ \A i \in 1..(Len(s) - 1) : t[i] = s[i + 1]
  OBVIOUS
<1> HIDE DEF t
<1>4. Head(s) \in ToSet(s)
  BY <1>1, <1>2 DEF ToSet
<1>5. \A i \in 1..(Len(s) - 1) : i + 1 \in 1..Len(s) /\ i + 1 # 1
  BY <1>1
<1>6. \A i \in 1..Len(s) : i # 1 => i - 1 \in 1..(Len(s) - 1) /\ (i - 1) + 1 = i
  BY <1>1
<1>7. ToSet(t) = ToSet(s) \ {Head(s)}
  <2>1. \A x \in ToSet(t) : x \in ToSet(s) /\ x # Head(s)
    BY <1>1, <1>2, <1>3, <1>5 DEF ToSet, IsInjective
  <2>2. ASSUME NEW x \in ToSet(s), x # Head(s) PROVE x \in ToSet(t)
    <3>1. PICK i \in 1..Len(s) : s[i] = x
      BY <1>1 DEF ToSet
    <3>2. i - 1 \in DOMAIN t /\ t[i - 1] = x
      BY <1>2, <1>3, <1>6, <2>2, <3>1
    <3> QED BY <3>2 DEF ToSet
  <2> QED BY <2>1, <2>2
<1>8. IsInjective(t)
  <2>1. ASSUME NEW i \in 1..(Len(s) - 1), NEW j \in 1..(Len(s) - 1), t[i] = t[j]
        PROVE  i = j
    <3>1. i + 1 = j + 1
      BY <1>1, <1>3, <1>5, <2>1 DEF IsInjective
    <3> QED BY <3>1
  <2> QED BY <1>3, <2>1 DEF IsInjective
<1>9. Len(s) = 1 => ToSet(s) = {Head(s)}
  <2> SUFFICES ASSUME Len(s) = 1 PROVE ToSet(s) = {Head(s)}
    OBVIOUS
  <2>1. DOMAIN s = {1}
    BY <1>1
  <2> QED BY <1>2, <2>1 DEF ToSet
<1>10. Len(s) > 1 => t # <<>>
  BY <1>1, <1>3
<1> QED BY <1>1, <1>2, <1>3, <1>4, <1>7, <1>8, <1>9, <1>10 DEF t

\* The first victims of a sequence of matching waiters.
LEMMA PrefixKeeps ==
  ASSUME NEW S, NEW s \in Seq(S), IsInjective(s), NEW n \in 0..Len(s)
  PROVE  /\ SubSeq(s, 1, n) \in Seq(S)
         /\ ToSet(SubSeq(s, 1, n)) \subseteq ToSet(s)
         /\ IsInjective(SubSeq(s, 1, n))
         /\ n > 0 => SubSeq(s, 1, n) # <<>>
         /\ n = 0 => ToSet(SubSeq(s, 1, n)) = {}
<1> DEFINE t == SubSeq(s, 1, n)
<1>1. DOMAIN s = 1..Len(s) /\ Len(s) \in Nat /\ n \in Nat /\ n <= Len(s)
  OBVIOUS
<1>2. /\ t \in Seq(S) /\ Len(t) = n /\ DOMAIN t = 1..n
      /\ \A i \in 1..n : t[i] = s[i]
  BY <1>1
<1> HIDE DEF t
<1>3. \A i \in 1..n : i \in 1..Len(s)
  BY <1>1
<1>4. ToSet(t) \subseteq ToSet(s)
  BY <1>1, <1>2, <1>3 DEF ToSet
<1>5. IsInjective(t)
  BY <1>1, <1>2, <1>3 DEF IsInjective
<1>6. n > 0 => t # <<>>
  BY <1>1, <1>2
<1>7. n = 0 => ToSet(t) = {}
  BY <1>1, <1>2 DEF ToSet
<1> QED BY <1>2, <1>4, <1>5, <1>6, <1>7 DEF t

-----------------------------------------------------------------------------
(* What a step leaves alone *)

\* A step that moves a running fiber and leaves the fibers, the queue, the
\* popped and the ejected waiters alone.
LEMMA WaitersKept ==
  ASSUME WaitersFit, UNCHANGED <<status, stack, queued, waiters, next, canc>>,
         \A f \in Fibers : pc'[f] = pc[f] \/ status[f] = "RUNNING"
  PROVE  WaitersFit'
<1>1. ASSUME NEW f \in Fibers PROVE FiberFits(f)'
  BY DEF WaitersFit, FiberFits
<1>2. ASSUME NEW f \in Fibers PROVE OneWaker(f)'
  BY DEF WaitersFit, OneWaker, Asleep, Popped, Ejected
<1> QED BY <1>1, <1>2 DEF WaitersFit

\* A step that leaves the owner alone.
LEMMA OwnerKept ==
  ASSUME OwnerFits, locked' = locked, ~locked /\ waiters = <<>> => waiters' = <<>>,
         \A c \in Callers : Has(c)' <=> Has(c)
  PROVE  OwnerFits'
<1>1. CASE ~locked
  BY <1>1 DEF OwnerFits
<1>2. CASE locked
  <2>1. PICK o \in Callers : \A c \in Callers : Has(c) <=> c = o
    BY <1>2 DEF OwnerFits
  <2>2. \A c \in Callers : Has(c)' <=> c = o
    BY <2>1
  <2> QED BY <1>2, <2>2 DEF OwnerFits
<1> QED BY <1>1, <1>2

\* A step that moves no registered thread, and frees the lock for nobody.
LEMMA BareKept ==
  ASSUME BareFits, UNCHANGED <<bareMtx, bareWaiters>>,
         \A t \in Threads :
           \/ pc'[t] = pc[t]
           \/ /\ pc[t] \notin {"gate", "pred", "sleepy", "asleep", "leave"}
              /\ pc'[t] \notin {"gate", "pred", "sleepy", "asleep", "leave"},
         ~locked' => /\ ~locked
                     /\ \A c \in Callers :
                          pc[c] \in {"freed", "notify", "gate", "pred"} => pc'[c] = pc[c]
  PROVE  BareFits'
<1>1. Registered' = Registered
  BY DEF Registered
<1>2. (bareWaiters = Cardinality(Registered))'
  BY <1>1 DEF BareFits
<1>3. \A t \in Threads : bareMtx' = t <=> pc'[t] \in {"pred", "sleepy"}
  BY DEF BareFits
<1>4. ASSUME ~locked', NEW t \in Threads, pc'[t] \in {"sleepy", "asleep"}
      PROVE  \E c \in Callers : pc'[c] \in {"freed", "notify", "gate", "pred"}
  <2>1. pc[t] \in {"sleepy", "asleep"}
    BY <1>4
  <2>2. PICK c \in Callers : pc[c] \in {"freed", "notify", "gate", "pred"}
    BY <1>4, <2>1 DEF BareFits
  <2> QED BY <1>4, <2>2
<1> QED BY <1>2, <1>3, <1>4 DEF BareFits

\* A fiber that is not queued runs.
LEMMA NotQueuedRuns ==
  ASSUME WaitersFit, NEW f \in Fibers, pc[f] # "queued"
  PROVE  status[f] = "RUNNING" /\ stack[f] = "on" /\ queued[f] = 0
BY DEF WaitersFit, FiberFits

\* A waiter that sleeps, and a running fiber, are somewhere else.
LEMMA AsleepIsQueued ==
  ASSUME WaitersFit, NEW f \in Fibers, Asleep(f)
  PROVE  pc[f] = "queued" /\ status[f] # "RUNNING"
BY DEF WaitersFit, FiberFits, Asleep

\* Nobody waits and the lock is free when the mutex is built.
LEMMA InitInv ==
  Init => IInv
<1> SUFFICES ASSUME Init PROVE IInv
  OBVIOUS
<1> USE DEF Init, WaitInit, FiberInit, Callers
<1>1. TypeOK
  <2>1. FiberTypeOK
    BY DEF FiberTypeOK, FiberStatus, StackStates
  <2>2. WaitTypeOK
    BY <2>1 DEF WaitTypeOK
  <2>3. pc \in [Callers -> FiberPoints \cup ThreadPoints]
    BY DEF FiberPoints
  <2> QED BY <2>2, <2>3 DEF TypeOK
<1>2. \A f \in Fibers : FiberFits(f)
  BY DEF FiberFits
<1>3. IsInjective(waiters) /\ ToSet(waiters) = {}
  BY DEF IsInjective, ToSet
<1>4. \A f \in Fibers : OneWaker(f)
  BY <1>3, WaitAssumption DEF OneWaker, Asleep, Popped, Ejected, NoCanc
<1>5. CancellerFits
  BY DEF CancellerFits, NoCanc
<1>6. HandsFit /\ HolderIsOwner
  BY WaitAssumption DEF HandsFit, HolderIsOwner
<1>7. OwnerFits
  BY DEF OwnerFits, Has, HandedOver
<1>8. BareFits
  <2>1. Registered = {}
    BY DEF Registered
  <2>2. bareWaiters = Cardinality(Registered)
    BY <2>1, FS_EmptySet
  <2> QED BY <2>2, WaitAssumption DEF BareFits
<1> QED BY <1>1, <1>2, <1>3, <1>4, <1>5, <1>6, <1>7, <1>8 DEF IInv, WaitersFit

-----------------------------------------------------------------------------
(* Lock on a fiber *)

\* The lock was free and nobody had it: the caller has it now.
LEMMA TakenIsOwned ==
  ASSUME OwnerFits, TypeOK, NEW c \in Callers, NEW p \in {"acquired", "cs", "leave"},
         TakeLock(c, p), result' = result
  PROVE  OwnerFits'
<1>1. \A d \in Callers : ~Has(d)
  BY DEF OwnerFits, TakeLock
<1>2. locked' /\ pc' = [pc EXCEPT ![c] = p] /\ status' = status
  BY DEF TakeLock, Goto
<1> USE <1>2
<1>3. pc \in [Callers -> FiberPoints \cup ThreadPoints]
  BY DEF TypeOK
<1>4. Has(c)'
  BY <1>3 DEF Has
<1>5. ASSUME NEW d \in Callers, d # c PROVE ~Has(d)'
  <2>1. pc'[d] = pc[d]
    BY <1>3, <1>5
  <2> QED BY <1>1, <2>1 DEF Has, HandedOver, Asleep
<1>6. \A d \in Callers : Has(d)' <=> d = c
  BY <1>4, <1>5
<1> QED BY <1>6 DEF OwnerFits

\* Lock, LockCancellable and Try_Lock that find the lock free.
LEMMA FiberTakes ==
  ASSUME TypeOK, WaitersFit, CancellerFits, HandsFit, OwnerFits, HolderIsOwner, BareFits,
         NEW f \in Fibers, pc[f] \in {"body", "checked"}, TakeLock(f, "acquired"),
         UNCHANGED <<stack, queued, lockHolder, bareVars, cancelled, next, result,
                     canc, swept>>
  PROVE  IInv'
<1>2. /\ pc \in [Callers -> FiberPoints \cup ThreadPoints] /\ f \in Callers /\ f \notin Threads
      /\ pc' = [pc EXCEPT ![f] = "acquired"] /\ "acquired" \in FiberPoints
      /\ locked' = TRUE /\ UNCHANGED <<status, waiters>>
  BY WaitAssumption DEF TypeOK, TakeLock, Goto, Callers, FiberPoints
<1> USE <1>2
<1>3. /\ pc' \in [Callers -> FiberPoints \cup ThreadPoints]
      /\ pc'[f] = "acquired" /\ \A c \in Callers : c # f => pc'[c] = pc[c]
  OBVIOUS
<1> USE <1>3
<1>4. TypeOK'
  BY DEF TypeOK, WaitTypeOK, FiberTypeOK, bareVars
<1>5. WaitersFit'
  BY NotQueuedRuns, WaitersKept DEF Callers
<1>6. CancellerFits'
  BY DEF CancellerFits
<1>7. HandsFit' /\ HolderIsOwner'
  BY DEF HandsFit, HolderIsOwner, Callers
<1>8. OwnerFits'
  BY TakenIsOwned
<1>9. BareFits'
  <2>1. \A t \in Threads : pc'[t] = pc[t]
    BY DEF Callers
  <2> QED BY <2>1, BareKept DEF bareVars
<1> QED BY <1>4, <1>5, <1>6, <1>7, <1>8, <1>9 DEF IInv

\* ... and that find it taken: the fiber goes to the end of the queue.
LEMMA FiberParks ==
  ASSUME TypeOK, WaitersFit, CancellerFits, HandsFit, OwnerFits, HolderIsOwner, BareFits,
         NEW f \in Fibers, pc[f] \in {"body", "checked"}, Park(f),
         UNCHANGED <<stack, queued, lockHolder, bareVars, cancelled, next, result,
                     canc, swept>>
  PROVE  IInv'
<1>2. /\ pc \in [Callers -> FiberPoints \cup ThreadPoints] /\ f \in Callers /\ f \notin Threads
      /\ pc' = [pc EXCEPT ![f] = "queued"] /\ "queued" \in FiberPoints
      /\ status \in [Fibers -> FiberStatus] /\ waiters \in Seq(Fibers)
      /\ status' = [status EXCEPT ![f] = "WANTS_SUSPEND"] /\ "WANTS_SUSPEND" \in FiberStatus
      /\ waiters' = Append(waiters, f) /\ locked /\ locked' = locked
  BY WaitAssumption
  DEF TypeOK, WaitTypeOK, FiberTypeOK, Park, Enqueue, Goto, Callers, FiberPoints, FiberStatus
<1> USE <1>2
<1>3. /\ pc' \in [Callers -> FiberPoints \cup ThreadPoints]
      /\ pc'[f] = "queued" /\ \A c \in Callers : c # f => pc'[c] = pc[c]
      /\ status' \in [Fibers -> FiberStatus]
      /\ status'[f] = "WANTS_SUSPEND" /\ \A g \in Fibers : g # f => status'[g] = status[g]
  OBVIOUS
<1> USE <1>3
<1>4. status[f] = "RUNNING" /\ stack[f] = "on" /\ queued[f] = 0
  BY NotQueuedRuns
<1>5. f \notin ToSet(waiters) /\ ~Popped(f) /\ ~Ejected(f)
  BY <1>4 DEF WaitersFit, OneWaker, Asleep
<1>6. /\ waiters' \in Seq(Fibers) /\ ToSet(waiters') = ToSet(waiters) \cup {f}
      /\ IsInjective(waiters')
  BY <1>5, AppendAdds DEF WaitersFit
<1> USE <1>6
<1>7. TypeOK'
  BY DEF TypeOK, WaitTypeOK, FiberTypeOK, bareVars
<1>8. WaitersFit'
  <2>1. ASSUME NEW g \in Fibers PROVE FiberFits(g)'
    <3>1. CASE g = f
      BY <1>4, <3>1 DEF FiberFits
    <3>2. CASE g # f
      BY <3>2 DEF FiberFits, WaitersFit, Callers
    <3> QED BY <3>1, <3>2
  <2>2. ASSUME NEW g \in Fibers PROVE OneWaker(g)'
    <3>1. (Popped(g)' <=> Popped(g)) /\ (Ejected(g)' <=> Ejected(g))
      BY DEF Popped, Ejected
    <3>2. CASE g = f
      BY <1>5, <3>1, <3>2 DEF OneWaker, Asleep
    <3>3. CASE g # f
      BY <3>1, <3>3 DEF OneWaker, Asleep, WaitersFit
    <3> QED BY <3>2, <3>3
  <2> QED BY <2>1, <2>2 DEF WaitersFit
<1>9. CancellerFits'
  BY DEF CancellerFits
<1>10. HandsFit' /\ HolderIsOwner'
  BY DEF HandsFit, HolderIsOwner, Callers
<1>11. OwnerFits'
  <2>1. ASSUME NEW c \in Callers PROVE Has(c)' <=> Has(c)
    <3>1. CASE c = f
      BY <3>1 DEF Has, HandedOver, Asleep
    <3>2. CASE c # f
      BY <3>2 DEF Has, HandedOver, Asleep
    <3> QED BY <3>1, <3>2
  <2> QED BY <2>1, OwnerKept
<1>12. BareFits'
  <2>1. \A t \in Threads : pc'[t] = pc[t]
    BY DEF Callers
  <2> QED BY <2>1, BareKept DEF bareVars
<1> QED BY <1>7, <1>8, <1>9, <1>10, <1>11, <1>12 DEF IInv

-----------------------------------------------------------------------------
(* A caller goes from one point of its code to another *)

\* What such a step keeps whatever the points are.
LEMMA CallerMoves ==
  ASSUME TypeOK, WaitersFit, CancellerFits, HandsFit, OwnerFits, HolderIsOwner, BareFits,
         NEW c \in Callers, NEW q \in FiberPoints \cup ThreadPoints, Goto(c, q),
         c \in Fibers => status[c] = "RUNNING",
         UNCHANGED <<status, stack, queued, waiters, cancelled, canc, swept, next>>,
         result' \in [Fibers -> {"Ok", "Cancelled"}]
  PROVE  /\ pc' \in [Callers -> FiberPoints \cup ThreadPoints] /\ pc'[c] = q
         /\ \A d \in Callers : d # c => pc'[d] = pc[d]
         /\ WaitTypeOK' /\ WaitersFit' /\ CancellerFits'
<1>2. pc \in [Callers -> FiberPoints \cup ThreadPoints] /\ pc' = [pc EXCEPT ![c] = q]
  BY DEF TypeOK, Goto
<1>3. /\ pc' \in [Callers -> FiberPoints \cup ThreadPoints] /\ pc'[c] = q
      /\ \A d \in Callers : d # c => pc'[d] = pc[d]
  BY <1>2
<1>4. WaitTypeOK'
  BY DEF TypeOK, WaitTypeOK, FiberTypeOK
<1>5. WaitersFit'
  BY <1>3, WaitersKept DEF Callers
<1>6. CancellerFits'
  BY DEF CancellerFits
<1> QED BY <1>3, <1>4, <1>5, <1>6

\* LockCancellable's look at the task touches nothing the others see.
LEMMA LockCancellableStep ==
  ASSUME TypeOK, WaitersFit, CancellerFits, HandsFit, OwnerFits, HolderIsOwner, BareFits,
         NEW f \in Fibers, LockCancellable(f)
  PROVE  IInv'
<1>2. /\ f \in Callers /\ f \notin Threads /\ "checked" \in FiberPoints
      /\ pc[f] = "body" /\ Goto(f, "checked")
      /\ result' = [result EXCEPT ![f] = "Ok"] /\ result \in [Fibers -> {"Ok", "Cancelled"}]
      /\ UNCHANGED <<status, stack, queued, waiters, cancelled, canc, swept, next>>
      /\ UNCHANGED <<locked, lockHolder, bareMtx, bareWaiters>>
  BY WaitAssumption
  DEF LockCancellable, At, Callers, FiberPoints, fiberVars, mutexVars, TypeOK, WaitTypeOK
<1> USE <1>2
<1>3. status[f] = "RUNNING"
  BY NotQueuedRuns
<1>4. /\ pc' \in [Callers -> FiberPoints \cup ThreadPoints] /\ pc'[f] = "checked"
      /\ \A d \in Callers : d # f => pc'[d] = pc[d]
      /\ WaitTypeOK' /\ WaitersFit' /\ CancellerFits'
  BY <1>3, CallerMoves
<1> USE <1>4
<1>5. TypeOK'
  BY DEF TypeOK
<1>6. HandsFit' /\ HolderIsOwner'
  BY DEF HandsFit, HolderIsOwner, Callers
<1>7. ASSUME NEW c \in Callers PROVE Has(c)' <=> Has(c)
  <2>1. CASE c = f
    BY <2>1 DEF Has, HandedOver
  <2>2. CASE c # f
    BY <2>2 DEF Has, HandedOver, Asleep
  <2> QED BY <2>1, <2>2
<1>8. OwnerFits'
  BY <1>7, OwnerKept
<1>9. BareFits'
  BY BareKept DEF Callers
<1> QED BY <1>5, <1>6, <1>8, <1>9 DEF IInv

\* A fiber back from its wait has the lock, or was told Cancelled.
LEMMA LockReturnsStep ==
  ASSUME TypeOK, WaitersFit, CancellerFits, HandsFit, OwnerFits, HolderIsOwner, BareFits,
         NEW f \in Fibers, LockReturns(f)
  PROVE  IInv'
<1> DEFINE q == IF f \in Cancellable /\ result[f] = "Cancelled" THEN "body" ELSE "acquired"
<1>2. /\ f \in Callers /\ f \notin Threads /\ q \in FiberPoints
      /\ pc[f] = "queued" /\ status[f] = "RUNNING" /\ Goto(f, q)
      /\ result' = result /\ result \in [Fibers -> {"Ok", "Cancelled"}]
      /\ UNCHANGED <<status, stack, queued, waiters, cancelled, canc, swept, next>>
      /\ UNCHANGED <<locked, lockHolder, bareMtx, bareWaiters>>
  BY WaitAssumption
  DEF LockReturns, Resumed, At, Callers, FiberPoints, fiberVars, mutexVars, queueVars,
      TypeOK, WaitTypeOK
<1> USE <1>2
<1>3. q \in {"body", "acquired"}
  OBVIOUS
<1>4. q = "acquired" <=> ~(f \in Cancellable /\ result[f] = "Cancelled")
  OBVIOUS
<1> HIDE DEF q
<1>5. /\ pc' \in [Callers -> FiberPoints \cup ThreadPoints] /\ pc'[f] = q
      /\ \A d \in Callers : d # f => pc'[d] = pc[d]
      /\ WaitTypeOK' /\ WaitersFit' /\ CancellerFits'
  BY CallerMoves
<1> USE <1>5
<1>6. TypeOK'
  BY DEF TypeOK
<1>7. HandsFit' /\ HolderIsOwner'
  BY <1>3 DEF HandsFit, HolderIsOwner, Callers
<1>8. ASSUME NEW c \in Callers PROVE Has(c)' <=> Has(c)
  <2>1. CASE c = f
    BY <1>3, <1>4, <2>1 DEF Has, HandedOver, Asleep
  <2>2. CASE c # f
    BY <2>2 DEF Has, HandedOver, Asleep
  <2> QED BY <2>1, <2>2
<1>9. OwnerFits'
  BY <1>8, OwnerKept
<1>10. BareFits'
  BY BareKept DEF Callers
<1> QED BY <1>6, <1>7, <1>9, <1>10 DEF IInv

\* Nobody else is in the critical section when the owner stores its task.
LEMMA StoreHolderStep ==
  ASSUME TypeOK, WaitersFit, CancellerFits, HandsFit, OwnerFits, HolderIsOwner, BareFits,
         NEW f \in Fibers, StoreHolder(f)
  PROVE  IInv'
<1>2. /\ f \in Callers /\ f \notin Threads /\ "cs" \in FiberPoints
      /\ pc[f] = "acquired" /\ Goto(f, "cs") /\ lockHolder' = f
      /\ result' = result /\ result \in [Fibers -> {"Ok", "Cancelled"}]
      /\ UNCHANGED <<status, stack, queued, waiters, cancelled, canc, swept, next>>
      /\ UNCHANGED <<locked, bareMtx, bareWaiters>>
  BY WaitAssumption
  DEF StoreHolder, At, Callers, FiberPoints, fiberVars, bareVars, queueVars, TypeOK, WaitTypeOK
<1> USE <1>2
<1>3. status[f] = "RUNNING"
  BY NotQueuedRuns
<1>4. /\ pc' \in [Callers -> FiberPoints \cup ThreadPoints] /\ pc'[f] = "cs"
      /\ \A d \in Callers : d # f => pc'[d] = pc[d]
      /\ WaitTypeOK' /\ WaitersFit' /\ CancellerFits'
  BY <1>3, CallerMoves
<1> USE <1>4
<1>5. TypeOK'
  BY DEF TypeOK
<1>6. \A c \in Callers : Has(c) => c = f
  BY DEF OwnerFits, Has
<1>7. \A g \in Fibers : g # f => pc[g] # "cs"
  BY <1>6 DEF Has, Callers
<1>8. HandsFit'
  BY DEF HandsFit
<1>9. HolderIsOwner'
  BY <1>7 DEF HolderIsOwner, Callers
<1>10. ASSUME NEW c \in Callers PROVE Has(c)' <=> Has(c)
  <2>1. CASE c = f
    BY <2>1 DEF Has
  <2>2. CASE c # f
    BY <2>2 DEF Has, HandedOver, Asleep
  <2> QED BY <2>1, <2>2
<1>11. OwnerFits'
  BY <1>10, OwnerKept
<1>12. BareFits'
  BY BareKept DEF Callers
<1> QED BY <1>5, <1>8, <1>9, <1>11, <1>12 DEF IInv

-----------------------------------------------------------------------------
(* Lock on a bare thread *)

\* The registered threads are counted one by one.
LEMMA RegisteredCounts ==
  ASSUME NEW t \in Threads
  PROVE  /\ IsFiniteSet(Registered) /\ Cardinality(Registered) \in Nat
         /\ t \notin Registered => Cardinality(Registered \cup {t}) = Cardinality(Registered) + 1
         /\ t \in Registered => Cardinality(Registered \ {t}) = Cardinality(Registered) - 1
         /\ Cardinality(Registered) = 0 <=> Registered = {}
<1>1. Registered \in SUBSET Threads
  BY DEF Registered
<1>2. IsFiniteSet(Registered)
  BY <1>1, MutexAssumption, FS_Subset
<1> USE <1>2
<1>3. Cardinality(Registered) \in Nat
  BY FS_CardinalityType
<1>4. t \notin Registered => Cardinality(Registered \cup {t}) = Cardinality(Registered) + 1
  BY FS_AddElement
<1>5. t \in Registered => Cardinality(Registered \ {t}) = Cardinality(Registered) - 1
  BY FS_RemoveElement
<1>6. Cardinality(Registered) = 0 <=> Registered = {}
  BY FS_EmptySet
<1> QED BY <1>3, <1>4, <1>5, <1>6

\* What a thread's step keeps: a thread is no waiter of the queue and no
\* holder of lockHolder.
LEMMA ThreadMoves ==
  ASSUME TypeOK, WaitersFit, CancellerFits, HandsFit, OwnerFits, HolderIsOwner, BareFits,
         NEW t \in Threads, NEW q \in ThreadPoints \cup {"cs"}, pc[t] # "handoff",
         Goto(t, q), UNCHANGED <<status, stack, queued, queueVars, next, lockHolder>>
  PROVE  /\ t \in Callers /\ pc' \in [Callers -> FiberPoints \cup ThreadPoints] /\ pc'[t] = q
         /\ \A d \in Callers : d # t => pc'[d] = pc[d]
         /\ WaitTypeOK' /\ WaitersFit' /\ CancellerFits' /\ HandsFit' /\ HolderIsOwner'
         /\ \A c \in Callers : c # t => (Has(c)' <=> Has(c))
         /\ Has(t)' <=> q \in {"cs", "leave"}
<1>2. /\ t \in Callers /\ t \notin Fibers /\ q \in FiberPoints \cup ThreadPoints
      /\ result' = result /\ result \in [Fibers -> {"Ok", "Cancelled"}]
      /\ UNCHANGED <<status, stack, queued, waiters, cancelled, canc, swept, next>>
  BY WaitAssumption DEF Callers, FiberPoints, queueVars, TypeOK, WaitTypeOK
<1> USE <1>2
<1>3. /\ pc' \in [Callers -> FiberPoints \cup ThreadPoints] /\ pc'[t] = q
      /\ \A d \in Callers : d # t => pc'[d] = pc[d]
      /\ WaitTypeOK' /\ WaitersFit' /\ CancellerFits'
  BY CallerMoves
<1> USE <1>3
<1>4. q # "handoff" /\ (q \in {"acquired", "cs", "release", "handoff", "leave"}
                          <=> q \in {"cs", "leave"})
  BY DEF ThreadPoints
<1>5. HandsFit' /\ HolderIsOwner'
  BY <1>4 DEF HandsFit, HolderIsOwner, Callers
<1>6. ASSUME NEW c \in Callers, c # t PROVE Has(c)' <=> Has(c)
  BY <1>6 DEF Has, HandedOver, Asleep
<1>7. Has(t)' <=> q \in {"cs", "leave"}
  BY <1>4 DEF Has
<1> QED BY <1>5, <1>6, <1>7

\* A bare thread's first Try_Lock takes the lock or sends it to register.
LEMMA BareLockStep ==
  ASSUME TypeOK, WaitersFit, CancellerFits, HandsFit, OwnerFits, HolderIsOwner, BareFits,
         NEW t \in Threads, BareLock(t)
  PROVE  IInv'
<1>2. pc[t] = "body" /\ UNCHANGED <<lockHolder, bareMtx, bareWaiters, next, result>>
  BY DEF BareLock, At, bareVars
<1> USE <1>2
<1>3. CASE TakeLock(t, "cs")
  <2>1. /\ Goto(t, "cs") /\ locked' = TRUE
        /\ UNCHANGED <<status, stack, queued, queueVars, next, lockHolder>>
    BY <1>3 DEF BareLock, TakeLock, queueVars
  <2>2. /\ t \in Callers /\ pc' \in [Callers -> FiberPoints \cup ThreadPoints] /\ pc'[t] = "cs"
        /\ \A d \in Callers : d # t => pc'[d] = pc[d]
        /\ WaitTypeOK' /\ WaitersFit' /\ CancellerFits' /\ HandsFit' /\ HolderIsOwner'
    BY <2>1, ThreadMoves
  <2>3. TypeOK'
    BY <2>1, <2>2 DEF TypeOK
  <2>4. OwnerFits'
    BY <1>3, <2>2, TakenIsOwned
  <2>5. BareFits'
    BY <2>1, <2>2, BareKept DEF Callers
  <2> QED BY <2>2, <2>3, <2>4, <2>5 DEF IInv
<1>4. CASE locked /\ Goto(t, "register") /\ UNCHANGED <<status, locked, waiters>>
  <2>1. /\ "register" \in ThreadPoints /\ locked'
        /\ UNCHANGED <<status, stack, queued, queueVars, next, lockHolder, locked>>
    BY <1>4 DEF BareLock, queueVars, ThreadPoints
  <2>2. /\ t \in Callers /\ pc' \in [Callers -> FiberPoints \cup ThreadPoints]
        /\ pc'[t] = "register" /\ \A d \in Callers : d # t => pc'[d] = pc[d]
        /\ WaitTypeOK' /\ WaitersFit' /\ CancellerFits' /\ HandsFit' /\ HolderIsOwner'
        /\ \A c \in Callers : c # t => (Has(c)' <=> Has(c))
        /\ ~Has(t)'
    BY <1>4, <2>1, ThreadMoves
  <2>3. TypeOK'
    BY <2>1, <2>2 DEF TypeOK
  <2>4. ~Has(t)
    BY WaitAssumption DEF Has
  <2>5. OwnerFits'
    BY <2>1, <2>2, <2>4, OwnerKept DEF queueVars
  <2>6. BareFits'
    BY <2>1, <2>2, BareKept DEF Callers
  <2> QED BY <2>2, <2>3, <2>5, <2>6 DEF IInv
<1> QED BY <1>3, <1>4 DEF BareLock

\* bareWaiters counts the thread before it passes the gate of bareMtx.
LEMMA BareRegisterStep ==
  ASSUME TypeOK, WaitersFit, CancellerFits, HandsFit, OwnerFits, HolderIsOwner, BareFits,
         NEW t \in Threads, BareRegister(t)
  PROVE  IInv'
<1>2. /\ pc[t] = "register" /\ "gate" \in ThreadPoints /\ Goto(t, "gate")
      /\ bareWaiters' = bareWaiters + 1
      /\ UNCHANGED <<status, stack, queued, queueVars, next, lockHolder, locked, bareMtx>>
  BY DEF BareRegister, At, ThreadPoints, fiberVars
<1> USE <1>2
<1>3. /\ t \in Callers /\ pc' \in [Callers -> FiberPoints \cup ThreadPoints] /\ pc'[t] = "gate"
      /\ \A d \in Callers : d # t => pc'[d] = pc[d]
      /\ WaitTypeOK' /\ WaitersFit' /\ CancellerFits' /\ HandsFit' /\ HolderIsOwner'
      /\ \A c \in Callers : c # t => (Has(c)' <=> Has(c))
      /\ ~Has(t)'
  BY ThreadMoves
<1> USE <1>3
<1>4. TypeOK'
  BY DEF TypeOK
<1>5. ~Has(t)
  BY WaitAssumption DEF Has
<1>6. OwnerFits'
  BY <1>5, OwnerKept DEF queueVars
<1>7. BareFits'
  <2>1. \A u \in Threads : u # t => pc'[u] = pc[u]
    BY DEF Callers
  <2>2. t \notin Registered /\ Registered' = Registered \cup {t}
    BY <2>1 DEF Registered
  <2>3. bareWaiters' = Cardinality(Registered)'
    BY <2>2, RegisteredCounts DEF BareFits
  <2>4. \A u \in Threads : bareMtx' = u <=> pc'[u] \in {"pred", "sleepy"}
    BY <2>1 DEF BareFits
  <2> QED BY <2>3, <2>4 DEF BareFits
<1> QED BY <1>4, <1>6, <1>7 DEF IInv

\* A bare thread that gets bareMtx is the one that holds it.
LEMMA BareGateStep ==
  ASSUME TypeOK, WaitersFit, CancellerFits, HandsFit, OwnerFits, HolderIsOwner, BareFits,
         NEW t \in Threads, BareGate(t)
  PROVE  IInv'
<1>2. /\ pc[t] = "gate" /\ "pred" \in ThreadPoints /\ Goto(t, "pred")
      /\ bareMtx = NoTask /\ bareMtx' = t
      /\ UNCHANGED <<status, stack, queued, queueVars, next, lockHolder, locked, bareWaiters>>
  BY DEF BareGate, At, ThreadPoints, fiberVars
<1> USE <1>2
<1>3. /\ t \in Callers /\ pc' \in [Callers -> FiberPoints \cup ThreadPoints] /\ pc'[t] = "pred"
      /\ \A d \in Callers : d # t => pc'[d] = pc[d]
      /\ WaitTypeOK' /\ WaitersFit' /\ CancellerFits' /\ HandsFit' /\ HolderIsOwner'
      /\ \A c \in Callers : c # t => (Has(c)' <=> Has(c))
      /\ ~Has(t)'
  BY ThreadMoves
<1> USE <1>3
<1>4. TypeOK'
  BY DEF TypeOK
<1>5. ~Has(t)
  BY WaitAssumption DEF Has
<1>6. OwnerFits'
  BY <1>5, OwnerKept DEF queueVars
<1>7. BareFits'
  <2>1. \A u \in Threads : u # t => pc'[u] = pc[u]
    BY DEF Callers
  <2>2. Registered' = Registered
    BY <2>1 DEF Registered
  <2>3. bareWaiters' = Cardinality(Registered)'
    BY <2>2 DEF BareFits
  <2>4. \A u \in Threads : pc[u] \notin {"pred", "sleepy"}
    BY WaitAssumption DEF BareFits
  <2>5. \A u \in Threads : bareMtx' = u <=> pc'[u] \in {"pred", "sleepy"}
    BY <2>1, <2>4
  <2> QED BY <2>3, <2>5 DEF BareFits
<1> QED BY <1>4, <1>6, <1>7 DEF IInv

\* The predicate of bareCv.wait takes a free lock, or finds it locked.
LEMMA BarePredStep ==
  ASSUME TypeOK, WaitersFit, CancellerFits, HandsFit, OwnerFits, HolderIsOwner, BareFits,
         NEW t \in Threads, BarePred(t)
  PROVE  IInv'
<1>2. pc[t] = "pred" /\ UNCHANGED <<lockHolder, bareWaiters, next, result>>
  BY DEF BarePred, At
<1> USE <1>2
<1>3. bareMtx = t /\ \A u \in Threads : u # t => pc[u] \notin {"pred", "sleepy"}
  BY DEF BareFits
<1>4. CASE TakeLock(t, "leave") /\ bareMtx' = NoTask
  <2>1. /\ Goto(t, "leave") /\ "leave" \in ThreadPoints /\ locked' = TRUE
        /\ UNCHANGED <<status, stack, queued, queueVars, next, lockHolder>>
    BY <1>4 DEF BarePred, TakeLock, queueVars, ThreadPoints
  <2>2. /\ t \in Callers /\ pc' \in [Callers -> FiberPoints \cup ThreadPoints]
        /\ pc'[t] = "leave" /\ \A d \in Callers : d # t => pc'[d] = pc[d]
        /\ WaitTypeOK' /\ WaitersFit' /\ CancellerFits' /\ HandsFit' /\ HolderIsOwner'
    BY <2>1, ThreadMoves
  <2>3. TypeOK'
    BY <1>4, <2>1, <2>2 DEF TypeOK
  <2>4. OwnerFits'
    BY <1>4, <2>2, TakenIsOwned
  <2>5. BareFits'
    <3>1. \A u \in Threads : u # t => pc'[u] = pc[u]
      BY <2>2 DEF Callers
    <3>2. Registered' = Registered
      BY <2>2, <3>1 DEF Registered
    <3>3. bareWaiters' = Cardinality(Registered)'
      BY <3>2 DEF BareFits
    <3>4. \A u \in Threads : bareMtx' = u <=> pc'[u] \in {"pred", "sleepy"}
      BY <1>3, <1>4, <2>2, <3>1, WaitAssumption
    <3> QED BY <2>1, <3>3, <3>4 DEF BareFits
  <2> QED BY <2>2, <2>3, <2>4, <2>5 DEF IInv
<1>5. CASE locked /\ Goto(t, "sleepy") /\ UNCHANGED <<status, locked, waiters, bareMtx>>
  <2>1. /\ "sleepy" \in ThreadPoints /\ locked'
        /\ UNCHANGED <<status, stack, queued, queueVars, next, lockHolder, locked>>
    BY <1>5 DEF BarePred, queueVars, ThreadPoints
  <2>2. /\ t \in Callers /\ pc' \in [Callers -> FiberPoints \cup ThreadPoints]
        /\ pc'[t] = "sleepy" /\ \A d \in Callers : d # t => pc'[d] = pc[d]
        /\ WaitTypeOK' /\ WaitersFit' /\ CancellerFits' /\ HandsFit' /\ HolderIsOwner'
        /\ \A c \in Callers : c # t => (Has(c)' <=> Has(c))
        /\ ~Has(t)'
    BY <1>5, <2>1, ThreadMoves
  <2>3. TypeOK'
    BY <1>5, <2>1, <2>2 DEF TypeOK
  <2>4. ~Has(t)
    BY WaitAssumption DEF Has
  <2>5. OwnerFits'
    BY <2>1, <2>2, <2>4, OwnerKept DEF queueVars
  <2>6. BareFits'
    <3>1. \A u \in Threads : u # t => pc'[u] = pc[u]
      BY <2>2 DEF Callers
    <3>2. Registered' = Registered
      BY <2>2, <3>1 DEF Registered
    <3>3. bareWaiters' = Cardinality(Registered)'
      BY <3>2 DEF BareFits
    <3>4. \A u \in Threads : bareMtx' = u <=> pc'[u] \in {"pred", "sleepy"}
      BY <1>3, <1>5, <2>2, <3>1
    <3> QED BY <2>1, <3>3, <3>4 DEF BareFits
  <2> QED BY <2>2, <2>3, <2>5, <2>6 DEF IInv
<1> QED BY <1>4, <1>5 DEF BarePred

\* Giving up bareMtx and sleeping is one step: no notify falls in between.
LEMMA BareSleepStep ==
  ASSUME TypeOK, WaitersFit, CancellerFits, HandsFit, OwnerFits, HolderIsOwner, BareFits,
         NEW t \in Threads, BareSleep(t)
  PROVE  IInv'
<1>2. /\ pc[t] = "sleepy" /\ "asleep" \in ThreadPoints /\ Goto(t, "asleep")
      /\ bareMtx' = NoTask
      /\ UNCHANGED <<status, stack, queued, queueVars, next, lockHolder, locked, bareWaiters>>
  BY DEF BareSleep, At, ThreadPoints, fiberVars
<1> USE <1>2
<1>3. /\ t \in Callers /\ pc' \in [Callers -> FiberPoints \cup ThreadPoints] /\ pc'[t] = "asleep"
      /\ \A d \in Callers : d # t => pc'[d] = pc[d]
      /\ WaitTypeOK' /\ WaitersFit' /\ CancellerFits' /\ HandsFit' /\ HolderIsOwner'
      /\ \A c \in Callers : c # t => (Has(c)' <=> Has(c))
      /\ ~Has(t)'
  BY ThreadMoves
<1> USE <1>3
<1>4. TypeOK'
  BY DEF TypeOK
<1>5. ~Has(t)
  BY WaitAssumption DEF Has
<1>6. OwnerFits'
  BY <1>5, OwnerKept DEF queueVars
<1>7. BareFits'
  <2>1. \A u \in Threads : u # t => pc'[u] = pc[u]
    BY DEF Callers
  <2>2. Registered' = Registered
    BY <2>1 DEF Registered
  <2>3. bareWaiters' = Cardinality(Registered)'
    BY <2>2 DEF BareFits
  <2>4. bareMtx = t /\ \A u \in Threads : u # t => pc[u] \notin {"pred", "sleepy"}
    BY DEF BareFits
  <2>5. \A u \in Threads : bareMtx' = u <=> pc'[u] \in {"pred", "sleepy"}
    BY <2>1, <2>4, WaitAssumption
  <2>6. ~locked' => \E c \in Callers : pc'[c] \in {"freed", "notify", "gate", "pred"}
    <3> SUFFICES ASSUME ~locked' PROVE \E c \in Callers : pc'[c] \in {"freed", "notify", "gate", "pred"}
      OBVIOUS
    <3>1. PICK c \in Callers : pc[c] \in {"freed", "notify", "gate", "pred"}
      BY DEF BareFits
    <3>2. pc'[c] = pc[c]
      BY <3>1
    <3> QED BY <3>1, <3>2
  <2> QED BY <2>3, <2>5, <2>6 DEF BareFits
<1> QED BY <1>4, <1>6, <1>7 DEF IInv

\* A bare thread with the lock leaves the count of the waiters.
LEMMA BareLeaveStep ==
  ASSUME TypeOK, WaitersFit, CancellerFits, HandsFit, OwnerFits, HolderIsOwner, BareFits,
         NEW t \in Threads, BareLeave(t)
  PROVE  IInv'
<1>2. /\ pc[t] = "leave" /\ Goto(t, "cs") /\ bareWaiters' = bareWaiters - 1
      /\ UNCHANGED <<status, stack, queued, queueVars, next, lockHolder, locked, bareMtx>>
  BY DEF BareLeave, At, fiberVars
<1> USE <1>2
<1>3. /\ t \in Callers /\ pc' \in [Callers -> FiberPoints \cup ThreadPoints] /\ pc'[t] = "cs"
      /\ \A d \in Callers : d # t => pc'[d] = pc[d]
      /\ WaitTypeOK' /\ WaitersFit' /\ CancellerFits' /\ HandsFit' /\ HolderIsOwner'
      /\ \A c \in Callers : c # t => (Has(c)' <=> Has(c))
      /\ Has(t)'
  BY ThreadMoves
<1> USE <1>3
<1>4. Has(t)
  BY DEF Has
<1>5. OwnerFits'
  BY <1>4, OwnerKept DEF queueVars
<1>6. locked'
  BY <1>4 DEF OwnerFits
<1>7. BareFits' /\ bareWaiters' \in Nat
  <2>1. \A u \in Threads : u # t => pc'[u] = pc[u]
    BY DEF Callers
  <2>2. t \in Registered /\ Registered' = Registered \ {t}
    BY <2>1 DEF Registered
  <2>3. bareWaiters' = Cardinality(Registered)'
    BY <2>2, RegisteredCounts DEF BareFits
  <2>4. bareWaiters \in Nat \ {0}
    <3>1. bareWaiters = Cardinality(Registered) /\ Registered # {}
      BY <2>2 DEF BareFits
    <3> QED BY <3>1, RegisteredCounts
  <2>5. \A u \in Threads : bareMtx' = u <=> pc'[u] \in {"pred", "sleepy"}
    BY <2>1 DEF BareFits
  <2> QED BY <1>6, <2>3, <2>4, <2>5 DEF BareFits
<1>8. TypeOK'
  BY <1>7 DEF TypeOK
<1> QED BY <1>5, <1>7, <1>8 DEF IInv

=============================================================================
