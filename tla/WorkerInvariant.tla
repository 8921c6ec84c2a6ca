-------------------------- MODULE WorkerInvariant ---------------------------
(***************************************************************************)
(* The inductive invariant of the worker pool, and what it rests on.       *)
(* Most of it is about scripts.  A task that is being queued is in the     *)
(* first access of its script, so a script carries one task at most; and   *)
(* after every access that puts work or a flag where a sleeper would have  *)
(* to see it comes the Wake of that sleeper.                               *)
(*                                                                         *)
(* The accesses to the bands, which touch no queue and no flag, and the    *)
(* calls that begin a script come here too.                                *)
(***************************************************************************)
EXTENDS Worker, TLAPS

Carriers == {"inbox", "lane", "resumed", "intake"}

\* The accesses a script is made of.
Ops ==
  [op : {"mark", "lanewake", "notify", "futex", "stop"}, w : Int]
    \cup [op : {"inbox", "lane", "resumed"}, w : Workers, t : Tasks]
    \cup [op : {"intake"}, t : Tasks]
    \cup [op : {"rouselane"}]
    \cup [op : {"kmax", "kmin", "setK"}, k : Nat]
    \cup [op : {"setFb"}, f : Nat]
    \cup [op : {"setF"}, f : Nat, n : Nat]
    \cup [op : {"wakefloor", "slide"}, lo : Int, hi : Int]
    \cup [op : {"shed"}, lo : Nat, hi : Workers, moved : BOOLEAN]
    \cup [op : {"recruit", "crowd", "spread"}, n : Nat]
    \cup [op : {"spreadFb"}, n : Nat, k : Nat]
    \cup [op : {"spreadF"}, n : Nat, k : Nat, fb : Nat]
    \cup [op : {"hand"}, to : Int]

\* The access wakes w, or is the shed that ends by waking it.
Promise(o, w) ==
  \/ o.op = "notify" /\ o.w = w
  \/ o.op = "shed" /\ o.moved /\ o.hi = w

\* Accesses that carry no task and do not look for a worker to rouse.
Plain(s) == \A i \in DOMAIN s : s[i].op \notin Carriers \cup {"rouselane"}

\* A script of actor a.  (A worker that flags itself is awake.)
GoodScript(a, s) ==
  /\ s \in Seq(Ops)
  /\ \A i \in DOMAIN s : i > 1 => s[i].op \notin Carriers \cup {"rouselane"}
  /\ \A i \in DOMAIN s :
       s[i].op \in {"inbox", "lane", "resumed", "mark", "lanewake"} =>
         \/ s[i].op = "mark" /\ s[i].w = a
         \/ \E j \in DOMAIN s : i < j /\ Promise(s[j], s[i].w)

Carries(s, t) == \E i \in DOMAIN s : s[i].op \in Carriers /\ s[i].t = t
Promises(s, w) == \E i \in DOMAIN s : Promise(s[i], w)
Futexes(s, w) == \E i \in DOMAIN s : s[i].op = "futex" /\ s[i].w = w

-----------------------------------------------------------------------------
(* Scripts *)

\* What an access of each kind holds.
LEMMA OpFields ==
  ASSUME NEW o \in Ops
  PROVE  /\ o.op \in {"inbox", "lane", "resumed"} => o.w \in Workers /\ o.t \in Tasks
         /\ o.op = "intake" => o.t \in Tasks
         /\ o.op \in {"kmax", "kmin", "setK"} => o.k \in Nat
         /\ o.op \in {"setFb", "setF"} => o.f \in Nat
         /\ o.op = "setF" => o.n \in Nat
         /\ o.op \in {"wakefloor", "slide"} => o.lo \in Int /\ o.hi \in Int
         /\ o.op = "shed" => o.lo \in Nat /\ o.hi \in Workers /\ o.moved \in BOOLEAN
         /\ o.op \in {"recruit", "crowd", "spread"} => o.n \in Nat
         /\ o.op = "spreadFb" => o.n \in Nat /\ o.k \in Nat
         /\ o.op = "spreadF" => o.n \in Nat /\ o.k \in Nat /\ o.fb \in Nat
         /\ o.op = "hand" => o.to \in Int
         /\ o.op \in {"mark", "lanewake", "notify", "futex", "stop"} => o.w \in Int
BY DEF Ops

\* A function on an interval from 1 is a sequence.
LEMMA IntervalSeq ==
  ASSUME NEW n \in Int, NEW S, NEW f \in [1..n -> S]
  PROVE  f \in Seq(S) /\ DOMAIN f = 1..n
<1>1. CASE n >= 0
  BY <1>1
<1>2. CASE n < 0
  <2>1. 1..n = 1..0
    BY <1>2
  <2> QED BY <2>1
<1> QED BY <1>1, <1>2

\* The empty script, and one access that neither queues nor flags.
LEMMA GoodEmpty ==
  ASSUME NEW a
  PROVE  GoodScript(a, <<>>) /\ Plain(<<>>)
BY DEF GoodScript, Plain

\* A script of one access that needs no Wake after it.
LEMMA GoodSingle ==
  ASSUME NEW a, NEW o \in Ops, o.op \notin {"inbox", "lane", "resumed", "mark", "lanewake"}
  PROVE  /\ GoodScript(a, <<o>>)
         /\ o.op \notin {"intake", "rouselane"} => Plain(<<o>>)
<1>1. <<o>> \in Seq(Ops) /\ DOMAIN <<o>> = {1} /\ <<o>>[1] = o
  OBVIOUS
<1> QED BY <1>1 DEF GoodScript, Plain, Carriers

\* What is left of a script when its first access is made.
LEMMA GoodTail ==
  ASSUME NEW a, NEW s, GoodScript(a, s), s # <<>>
  PROVE  /\ GoodScript(a, Tail(s)) /\ Plain(Tail(s))
         /\ Head(s) \in Ops /\ Head(s) = s[1] /\ 1 \in DOMAIN s
         /\ \A w : Promises(s, w) => Promise(Head(s), w) \/ Promises(Tail(s), w)
         /\ \A w : Futexes(s, w) =>
                     (Head(s).op = "futex" /\ Head(s).w = w) \/ Futexes(Tail(s), w)
<1> DEFINE r == Tail(s)
<1>1. /\ s \in Seq(Ops) /\ r \in Seq(Ops) /\ Len(s) \in Nat \ {0}
      /\ Len(r) = Len(s) - 1 /\ DOMAIN s = 1..Len(s) /\ DOMAIN r = 1..Len(r)
      /\ \A i \in 1..Len(r) : r[i] = s[i + 1]
  BY DEF GoodScript
<1>2. Head(s) \in Ops /\ Head(s) = s[1] /\ 1 \in DOMAIN s
  BY <1>1
<1>3. \A i \in DOMAIN r : r[i].op \notin Carriers \cup {"rouselane"}
  <2> TAKE i \in DOMAIN r
  <2>1. i + 1 \in DOMAIN s /\ i + 1 > 1 /\ r[i] = s[i + 1]
    BY <1>1
  <2> QED BY <2>1 DEF GoodScript
<1>4. ASSUME NEW i \in DOMAIN r, r[i].op \in {"inbox", "lane", "resumed", "mark", "lanewake"},
             ~(r[i].op = "mark" /\ r[i].w = a)
      PROVE  \E j \in DOMAIN r : i < j /\ Promise(r[j], r[i].w)
  <2>1. i \in Nat /\ i + 1 \in DOMAIN s /\ r[i] = s[i + 1]
    BY <1>1
  <2>2. PICK j \in DOMAIN s : i + 1 < j /\ Promise(s[j], s[i + 1].w)
    BY <1>4, <2>1 DEF GoodScript
  <2>3. j - 1 \in DOMAIN r /\ i < j - 1 /\ r[j - 1] = s[j]
    BY <1>1, <2>1, <2>2
  <2> QED BY <2>1, <2>2, <2>3
<1>5. \A i \in DOMAIN s : i = 1 \/ (i - 1 \in DOMAIN r /\ r[i - 1] = s[i])
  BY <1>1
<1> HIDE DEF r
<1>6. GoodScript(a, r)
  BY <1>1, <1>3, <1>4 DEF GoodScript
<1>7. Plain(r)
  BY <1>3 DEF Plain
<1>8. \A w : Promises(s, w) => Promise(Head(s), w) \/ Promises(r, w)
  BY <1>2, <1>5 DEF Promises
<1>9. \A w : Futexes(s, w) => (Head(s).op = "futex" /\ Head(s).w = w) \/ Futexes(r, w)
  BY <1>2, <1>5 DEF Futexes
<1> QED BY <1>2, <1>6, <1>7, <1>8, <1>9 DEF r

\* A script goes on with another one.
LEMMA GoodConcat ==
  ASSUME NEW a, NEW s, NEW r, GoodScript(a, s), GoodScript(a, r), Plain(r)
  PROVE  /\ GoodScript(a, s \o r)
         /\ Plain(s) => Plain(s \o r)
         /\ \A t : Carries(s \o r, t) <=> Carries(s, t)
         /\ \A w : Promises(s \o r, w) <=> Promises(s, w) \/ Promises(r, w)
         /\ \A w : Futexes(s \o r, w) <=> Futexes(s, w) \/ Futexes(r, w)
<1> DEFINE q == s \o r
<1>1. /\ s \in Seq(Ops) /\ r \in Seq(Ops) /\ Len(s) \in Nat /\ Len(r) \in Nat
      /\ DOMAIN s = 1..Len(s) /\ DOMAIN r = 1..Len(r)
  BY DEF GoodScript
<1>2. /\ q \in Seq(Ops) /\ DOMAIN q = 1..(Len(s) + Len(r))
      /\ \A i \in 1..(Len(s) + Len(r)) : q[i] = IF i <= Len(s) THEN s[i] ELSE r[i - Len(s)]
  BY <1>1
<1> HIDE DEF q
<1>3. \A i \in DOMAIN s : i \in DOMAIN q /\ q[i] = s[i]
  BY <1>1, <1>2
<1>4. \A i \in DOMAIN r : /\ Len(s) + i \in DOMAIN q /\ q[Len(s) + i] = r[i]
                          /\ Len(s) + i > Len(s)
  <2> TAKE i \in DOMAIN r
  <2>1. Len(s) + i \in 1..(Len(s) + Len(r)) /\ ~(Len(s) + i <= Len(s))
        /\ (Len(s) + i) - Len(s) = i
    BY <1>1
  <2> QED BY <1>1, <1>2, <2>1
<1>5. \A i \in DOMAIN q : \/ i \in DOMAIN s /\ q[i] = s[i]
                          \/ /\ i - Len(s) \in DOMAIN r /\ q[i] = r[i - Len(s)]
                             /\ i > Len(s)
  BY <1>1, <1>2
<1>6. \A i \in DOMAIN q : i > 1 => q[i].op \notin Carriers \cup {"rouselane"}
  BY <1>5 DEF GoodScript, Plain
<1>7. ASSUME NEW i \in DOMAIN q, q[i].op \in {"inbox", "lane", "resumed", "mark", "lanewake"},
             ~(q[i].op = "mark" /\ q[i].w = a)
      PROVE  \E j \in DOMAIN q : i < j /\ Promise(q[j], q[i].w)
  <2>1. CASE i \in DOMAIN s /\ q[i] = s[i]
    <3>1. PICK j \in DOMAIN s : i < j /\ Promise(s[j], s[i].w)
      BY <1>7, <2>1 DEF GoodScript
    <3> QED BY <1>3, <2>1, <3>1
  <2>2. CASE i - Len(s) \in DOMAIN r /\ q[i] = r[i - Len(s)]
    <3>1. PICK j \in DOMAIN r : i - Len(s) < j /\ Promise(r[j], r[i - Len(s)].w)
      BY <1>7, <2>2 DEF GoodScript
    <3>2. i \in Int /\ j \in Int /\ i < Len(s) + j
      BY <1>1, <1>2, <3>1
    <3> QED BY <1>4, <2>2, <3>1, <3>2
  <2> QED BY <1>5, <2>1, <2>2
<1>8. GoodScript(a, q)
  BY <1>2, <1>6, <1>7 DEF GoodScript
<1>9. Plain(s) => Plain(q)
  BY <1>5 DEF Plain
<1>10. \A t : Carries(q, t) <=> Carries(s, t)
  BY <1>3, <1>5 DEF Carries, Plain
<1>11. \A w : Promises(q, w) <=> Promises(s, w) \/ Promises(r, w)
  BY <1>3, <1>4, <1>5 DEF Promises
<1>12. \A w : Futexes(q, w) <=> Futexes(s, w) \/ Futexes(r, w)
  BY <1>3, <1>4, <1>5 DEF Futexes
<1> QED BY <1>8, <1>9, <1>10, <1>11, <1>12 DEF q

\* Accesses none of which carries a task, queues or flags.
LEMMA GoodUniform ==
  ASSUME NEW a, NEW n \in Int, NEW s \in [1..n -> Ops],
         \A i \in 1..n : s[i].op \in {"notify", "stop", "hand"}
  PROVE  GoodScript(a, s) /\ Plain(s)
<1>1. s \in Seq(Ops) /\ DOMAIN s = 1..n
  BY IntervalSeq
<1> QED BY <1>1 DEF GoodScript, Plain, Carriers

\* MarkQueuedWork and the NotifyWorker that follows it.
LEMMA GoodRouse ==
  ASSUME NEW a, NEW w \in Int
  PROVE  GoodScript(a, Rouse(w)) /\ Plain(Rouse(w)) /\ Promises(Rouse(w), w)
<1> DEFINE s == Rouse(w)
<1>1. [op |-> "mark", w |-> w] \in Ops /\ [op |-> "notify", w |-> w] \in Ops
  BY DEF Ops
<1>2. /\ s \in Seq(Ops) /\ DOMAIN s = 1..2
      /\ s[1] = [op |-> "mark", w |-> w] /\ s[2] = [op |-> "notify", w |-> w]
  BY <1>1 DEF Rouse
<1> HIDE DEF s
<1>3. s[1].op = "mark" /\ s[1].w = w /\ s[2].op = "notify" /\ s[2].w = w
  BY <1>2
<1>4. \A i \in DOMAIN s : i = 1 \/ i = 2
  BY <1>2
<1>5. 2 \in DOMAIN s /\ Promise(s[2], w)
  BY <1>2, <1>3 DEF Promise
<1>6. Plain(s)
  BY <1>3, <1>4 DEF Plain, Carriers
<1>7. GoodScript(a, s)
  BY <1>2, <1>3, <1>4, <1>5, <1>6 DEF GoodScript, Plain
<1> QED BY <1>5, <1>6, <1>7 DEF s, Promises

\* A delivery carries its task, and only that.
LEMMA GoodDeliver ==
  ASSUME NEW a, NEW kind \in {"inbox", "lane", "resumed"}, NEW w \in Workers, NEW t \in Tasks
  PROVE  /\ GoodScript(a, Deliver(kind, w, t))
         /\ \A u : Carries(Deliver(kind, w, t), u) <=> u = t
<1> DEFINE o == [op |-> kind, w |-> w, t |-> t]
           s == Deliver(kind, w, t)
           r == Rouse(w)
<1>1. o \in Ops /\ w \in Int /\ o.op = kind /\ o.w = w /\ o.t = t
  BY PoolAssumption DEF Ops, Workers
<1>2. GoodScript(a, r) /\ Plain(r) /\ Promises(r, w)
  BY <1>1, GoodRouse
<1>3. r \in Seq(Ops) /\ Len(r) \in Nat /\ DOMAIN r = 1..Len(r)
  BY <1>2 DEF GoodScript
<1>4. <<o>> \in Seq(Ops) /\ Len(<<o>>) = 1 /\ <<o>>[1] = o
  BY <1>1
<1> HIDE DEF o, r
<1>5. /\ s \in Seq(Ops) /\ DOMAIN s = 1..(1 + Len(r)) /\ s[1] = o
      /\ \A i \in 2..(1 + Len(r)) : s[i] = r[i - 1]
  <2>1. s = <<o>> \o r
    BY DEF Deliver, o, r
  <2>2. /\ s \in Seq(Ops) /\ Len(s) = 1 + Len(r)
        /\ \A i \in 1..(1 + Len(r)) : s[i] = IF i <= 1 THEN <<o>>[i] ELSE r[i - 1]
    BY <1>3, <1>4, <2>1
  <2> QED BY <1>3, <1>4, <2>2
<1> HIDE DEF s
<1>6. \A i \in DOMAIN s : i = 1 \/ (i - 1 \in DOMAIN r /\ s[i] = r[i - 1] /\ i > 1)
  BY <1>3, <1>5
<1>7. \A j \in DOMAIN r : j \in Int /\ j > 0 /\ j + 1 \in DOMAIN s /\ s[j + 1] = r[j]
  <2> TAKE j \in DOMAIN r
  <2>1. j + 1 \in 2..(1 + Len(r)) /\ (j + 1) - 1 = j /\ j \in Int /\ j > 0
    BY <1>3
  <2> QED BY <1>5, <2>1
<1>8. \A i \in DOMAIN s : i > 1 => s[i].op \notin Carriers \cup {"rouselane"}
  BY <1>2, <1>6 DEF Plain
<1>9. PICK m \in DOMAIN r : Promise(r[m], w)
  BY <1>2 DEF Promises
<1>10. ASSUME NEW i \in DOMAIN s, s[i].op \in {"inbox", "lane", "resumed", "mark", "lanewake"},
              ~(s[i].op = "mark" /\ s[i].w = a)
       PROVE  \E j \in DOMAIN s : i < j /\ Promise(s[j], s[i].w)
  <2>1. CASE i = 1
    <3>1. m + 1 \in DOMAIN s /\ 1 < m + 1 /\ s[m + 1] = r[m]
      BY <1>7, <1>9
    <3> QED BY <1>1, <1>5, <1>9, <2>1, <3>1
  <2>2. CASE i > 1 /\ i - 1 \in DOMAIN r /\ s[i] = r[i - 1]
    <3>1. PICK j \in DOMAIN r : i - 1 < j /\ Promise(r[j], r[i - 1].w)
      BY <1>2, <1>10, <2>2 DEF GoodScript
    <3>2. j + 1 \in DOMAIN s /\ s[j + 1] = r[j] /\ i \in Int /\ i < j + 1
      BY <1>5, <1>7, <3>1
    <3> QED BY <2>2, <3>1, <3>2
  <2> QED BY <1>6, <2>1, <2>2
<1>11. GoodScript(a, s)
  BY <1>5, <1>8, <1>10 DEF GoodScript
<1>12. \A u : Carries(s, u) <=> u = t
  <2>1. 1 \in DOMAIN s
    BY <1>3, <1>5
  <2>2. s[1].op \in Carriers /\ s[1].t = t
    BY <1>1, <1>5 DEF Carriers
  <2>3. \A i \in DOMAIN s : i # 1 => s[i].op \notin Carriers
    BY <1>6, <1>8
  <2> QED BY <2>1, <2>2, <2>3 DEF Carries
<1> QED BY <1>11, <1>12 DEF s

\* A run of Wakes.
LEMMA GoodNotifyRange ==
  ASSUME NEW a, NEW lo \in Int, NEW hi \in Int
  PROVE  GoodScript(a, NotifyRange(lo, hi)) /\ Plain(NotifyRange(lo, hi))
<1> DEFINE s == NotifyRange(lo, hi)
<1>1. Width(lo, hi) \in Int
  BY PoolAssumption DEF Width
<1>2. \A i \in 1..Width(lo, hi) : [op |-> "notify", w |-> lo + i - 1] \in Ops
  BY <1>1 DEF Ops
<1>3. s \in [1..Width(lo, hi) -> Ops] /\ \A i \in 1..Width(lo, hi) : s[i].op = "notify"
  BY <1>2 DEF NotifyRange
<1> QED BY <1>1, <1>3, GoodUniform

\* SetHotWorkersEffective's wakes; worker 0 is among them when the band grows
\* from nothing.
LEMMA GoodLaneWakeRange ==
  ASSUME NEW a, NEW lo \in Nat, NEW hi \in Nat
  PROVE  /\ GoodScript(a, LaneWakeRange(lo, hi)) /\ Plain(LaneWakeRange(lo, hi))
         /\ lo = 0 /\ hi > 0 => Promises(LaneWakeRange(lo, hi), 0)
<1> DEFINE s == LaneWakeRange(lo, hi)
           n == 2 * Width(lo, hi)
<1>1. Width(lo, hi) \in Int /\ n \in Int
  BY PoolAssumption DEF Width
<1>2. \A i \in 1..n : [op |-> IF i % 2 = 1 THEN "lanewake" ELSE "notify",
                       w |-> lo + (i - 1) \div 2] \in Ops
  <2> TAKE i \in 1..n
  <2>1. lo + (i - 1) \div 2 \in Int
    BY <1>1
  <2> QED BY <2>1 DEF Ops
<1>3. /\ s \in [1..n -> Ops]
      /\ \A i \in 1..n : /\ s[i].op = IF i % 2 = 1 THEN "lanewake" ELSE "notify"
                         /\ s[i].w = lo + (i - 1) \div 2
  BY <1>2 DEF LaneWakeRange
<1> HIDE DEF s
<1>4. s \in Seq(Ops) /\ DOMAIN s = 1..n
  BY <1>1, <1>3, IntervalSeq
<1>5. \A i \in DOMAIN s : s[i].op \notin Carriers \cup {"rouselane"}
  BY <1>3, <1>4 DEF Carriers
<1>6. ASSUME NEW i \in DOMAIN s, s[i].op \in {"inbox", "lane", "resumed", "mark", "lanewake"}
      PROVE  \E j \in DOMAIN s : i < j /\ Promise(s[j], s[i].w)
  <2>1. i \in 1..n /\ i % 2 = 1
    BY <1>3, <1>4, <1>6
  <2>2. i + 1 \in 1..n /\ (i + 1) % 2 # 1 /\ ((i + 1) - 1) \div 2 = (i - 1) \div 2 /\ i < i + 1
    BY <1>1, <2>1
  <2>3. s[i + 1].op = "notify" /\ s[i + 1].w = s[i].w
    BY <1>3, <2>1, <2>2
  <2> QED BY <1>4, <2>2, <2>3 DEF Promise
<1>7. ASSUME lo = 0, hi > 0
      PROVE  Promises(s, 0)
  <2>1. 2 \in 1..n
    BY <1>7, PoolAssumption DEF Width
  <2>2. s[2].op = "notify" /\ s[2].w = 0
    BY <1>3, <1>7, <2>1
  <2> QED BY <1>4, <2>1, <2>2 DEF Promises, Promise
<1> QED BY <1>4, <1>5, <1>6, <1>7 DEF GoodScript, Plain, s

\* The task a script carries is in its first access.
LEMMA CarriesHead ==
  ASSUME NEW a, NEW s, GoodScript(a, s)
  PROVE  /\ s = <<>> => \A t : ~Carries(s, t)
         /\ s # <<>> => \A t : Carries(s, t) <=> Head(s).op \in Carriers /\ Head(s).t = t
<1>1. ASSUME s = <<>>
      PROVE  \A t : ~Carries(s, t)
  BY <1>1 DEF Carries
<1>2. ASSUME s # <<>>, NEW t
      PROVE  Carries(s, t) <=> Head(s).op \in Carriers /\ Head(s).t = t
  <2>1. 1 \in DOMAIN s /\ Head(s) = s[1]
    BY <1>2, GoodTail
  <2>2. \A i \in DOMAIN s : i = 1 \/ i > 1
    BY DEF GoodScript
  <2> QED BY <2>1, <2>2 DEF GoodScript, Carries
<1> QED BY <1>1, <1>2

\* Whoever queues or flags, a worker that flags itself apart, has the wake
\* still to come.
LEMMA WakeToCome ==
  ASSUME NEW a, NEW s, GoodScript(a, s), s # <<>>,
         Head(s).op \in {"inbox", "lane", "resumed", "mark", "lanewake"},
         ~(Head(s).op = "mark" /\ Head(s).w = a)
  PROVE  Promises(Tail(s), Head(s).w)
<1>1. /\ s \in Seq(Ops) /\ Tail(s) \in Seq(Ops) /\ Len(s) \in Nat
      /\ Len(Tail(s)) = Len(s) - 1 /\ DOMAIN s = 1..Len(s)
      /\ DOMAIN Tail(s) = 1..Len(Tail(s))
      /\ \A i \in 1..Len(Tail(s)) : Tail(s)[i] = s[i + 1]
  BY DEF GoodScript
<1>2. 1 \in DOMAIN s /\ Head(s) = s[1]
  BY GoodTail
<1>3. PICK j \in DOMAIN s : 1 < j /\ Promise(s[j], s[1].w)
  BY <1>2 DEF GoodScript
<1>4. j - 1 \in DOMAIN Tail(s) /\ (j - 1) + 1 = j
  BY <1>1, <1>3
<1>5. Tail(s)[j - 1] = s[j]
  BY <1>1, <1>4
<1> QED BY <1>2, <1>3, <1>4, <1>5 DEF Promises

-----------------------------------------------------------------------------
(* The inductive invariant *)

NatWord == [f : Nat, fb : Nat, k : Nat, kmax : Nat, kmin : Nat]

TypeInv ==
  /\ word \in NatWord
  /\ workerState \in [Workers -> WorkerStates]
  /\ pc \in [Workers -> Labels]
  /\ inbox \in [Workers -> SUBSET Tasks] /\ lane \in [Workers -> SUBSET Tasks]
  /\ resumed \in [Workers -> SUBSET Tasks] /\ deque \in [Workers -> SUBSET Tasks]
  /\ intake \subseteq Tasks /\ backlog \subseteq Workers
  /\ task \in [Workers -> Tasks \cup {NoTask}]
  /\ snap \in [Workers -> [f : Nat, fb : Nat]]
  /\ home \in [Tasks -> Workers]

\* A worker with a script is at the top of its loop.
ScriptInv ==
  /\ script \in [Actors -> Seq(Ops)]
  /\ \A a \in Actors : GoodScript(a, script[a])
  /\ \A w \in Workers : script[w] # <<>> => pc[w] = "top"

\* task_to_run is empty when the worker looks for one, and not when it runs.
HandInv ==
  \A w \in Workers : /\ pc[w] = "look" => task[w] = NoTask
                     /\ pc[w] = "body" => task[w] # NoTask

Kinds == {"inbox", "lane", "resumed", "deque", "running", "script",
          "intake", "fresh", "suspended", "done"}
Keepers == Actors \cup {NoTask}

\* <<kind, x>> is one of Places(t).
IsAt(t, kind, x) ==
  \/ /\ x \in Workers
     /\ \/ kind = "inbox" /\ t \in inbox[x]
        \/ kind = "lane" /\ t \in lane[x]
        \/ kind = "resumed" /\ t \in resumed[x]
        \/ kind = "deque" /\ t \in deque[x]
        \/ kind = "running" /\ task[x] = t
  \/ x \in Actors /\ kind = "script" /\ Holds(x, t)
  \/ /\ x = NoTask
     /\ \/ kind = "intake" /\ t \in intake
        \/ kind = "fresh" /\ t \in fresh
        \/ kind = "suspended" /\ t \in suspended
        \/ kind = "done" /\ t \in done

OnePlace(t) ==
  \E k \in Kinds, x \in Keepers :
    \A k2 \in Kinds, x2 \in Keepers : IsAt(t, k2, x2) <=> k2 = k /\ x2 = x

PlaceInv == \A t \in Tasks : OnePlace(t)

Announced(w) == \E a \in Actors : Promises(script[a], w)
Futexing(w) == \E a \in Actors : Futexes(script[a], w)
LaneRousing == \E a \in Actors : Doing(a, "rouselane")

GoingToSleep(w) == pc[w] \in {"sleep", "asleep"}

\* From the publication of WS_PARKED on only Wake changes workerState.  A
\* worker that is about to sleep or sleeps, and has work it does not know of,
\* has a Wake to come, and a sleeper with a permit has the system call to come.
SleepOK(w) ==
  /\ pc[w] \in {"parked", "wait", "sleep", "asleep", "woken"} =>
       workerState[w] \in {"WS_PARKED", "WS_NOTIFIED"}
  /\ GoingToSleep(w) /\ workerState[w] = "WS_PARKED" /\ OwnWork(w) => Announced(w)
  /\ pc[w] = "asleep" /\ workerState[w] # "WS_PARKED" => Futexing(w)

SleepInv == \A w \in Workers : SleepOK(w)

\* What the intake needs of worker 0, the first of any reserved band: it does
\* not sleep on it, and does not get as far as sleeping without knowing that it
\* is reserved.
LaneInv ==
  word.k > 0 =>
    /\ GoingToSleep(0) /\ workerState[0] = "WS_PARKED" /\ intake # {} =>
         Announced(0) \/ LaneRousing
    /\ 0 \notin reserved /\ pc[0] \notin {"top", "exited"} =>
         Announced(0) \/ workerState[0] = "WS_NOTIFIED"

IInv == TypeInv /\ ScriptInv /\ HandInv /\ PlaceInv /\ SleepInv /\ LaneInv

-----------------------------------------------------------------------------
(* What a step of a script does to the scripts *)

\* One access is made and `more` put before the rest.
LEMMA ProceedMoves ==
  ASSUME ScriptInv, NEW a \in Actors, script[a] # <<>>,
         NEW more, GoodScript(a, more), Proceed(a, more)
  PROVE  /\ script' \in [Actors -> Seq(Ops)]
         /\ \A b \in Actors : GoodScript(b, script[b])'
         /\ \A b \in Actors : b # a => script'[b] = script[b]
         /\ \A b \in Actors, t \in Tasks :
              Holds(b, t)' <=> IF b = a THEN Carries(more, t) ELSE Holds(b, t)
         /\ \A w : Announced(w)' <=>
                     \/ Promises(more, w) \/ Promises(Tail(script[a]), w)
                     \/ \E b \in Actors \ {a} : Promises(script[b], w)
         /\ \A w : Announced(w) => Promise(Op(a), w) \/ Announced(w)'
         /\ \A w : Futexes(more, w) => Futexing(w)'
         /\ \A w : Futexing(w) => (Op(a).op = "futex" /\ Op(a).w = w) \/ Futexing(w)'
         /\ LaneRousing => Op(a).op = "rouselane" \/ LaneRousing'
<1> DEFINE s == script[a]
           q == more \o Tail(s)
<1>1. /\ GoodScript(a, s) /\ GoodScript(a, Tail(s)) /\ Plain(Tail(s))
      /\ \A w : Promises(s, w) => Promise(Head(s), w) \/ Promises(Tail(s), w)
      /\ \A w : Futexes(s, w) =>
                  (Head(s).op = "futex" /\ Head(s).w = w) \/ Futexes(Tail(s), w)
  BY GoodTail DEF ScriptInv
<1>2. /\ GoodScript(a, q)
      /\ \A t : Carries(q, t) <=> Carries(more, t)
      /\ \A w : Promises(q, w) <=> Promises(more, w) \/ Promises(Tail(s), w)
      /\ \A w : Futexes(q, w) <=> Futexes(more, w) \/ Futexes(Tail(s), w)
  BY <1>1, GoodConcat
<1>3. script' = [script EXCEPT ![a] = q]
  BY DEF Proceed
<1> HIDE DEF q
<1>4. script'[a] = q /\ \A b \in Actors : b # a => script'[b] = script[b]
  BY <1>3 DEF ScriptInv
<1>5. script' \in [Actors -> Seq(Ops)]
  BY <1>2, <1>3 DEF ScriptInv, GoodScript
<1>6. \A b \in Actors : GoodScript(b, script[b])'
  <2>1. \A b \in Actors : GoodScript(b, script'[b])
    BY <1>2, <1>4 DEF ScriptInv
  <2> QED BY <2>1 DEF GoodScript, Promise
<1>7. \A b \in Actors, t \in Tasks : Holds(b, t)' <=> Carries(script'[b], t)
  BY DEF Holds, Carries, Carriers
<1>8. \A b \in Actors, t \in Tasks : Holds(b, t) <=> Carries(script[b], t)
  BY DEF Holds, Carries, Carriers
<1>9. \A b \in Actors, t \in Tasks :
        Holds(b, t)' <=> IF b = a THEN Carries(more, t) ELSE Holds(b, t)
  BY <1>2, <1>4, <1>7, <1>8
<1>10. \A w : Announced(w)' <=> \E b \in Actors : Promises(script'[b], w)
  BY DEF Announced, Promises, Promise
<1>11. \A w : Announced(w)' <=>
                \/ Promises(more, w) \/ Promises(Tail(s), w)
                \/ \E b \in Actors \ {a} : Promises(script[b], w)
  BY <1>2, <1>4, <1>10
<1>12. \A w : Announced(w) => Promise(Op(a), w) \/ Announced(w)'
  BY <1>1, <1>11 DEF Announced, Op
<1>13. \A w : Futexing(w)' <=> \E b \in Actors : Futexes(script'[b], w)
  BY DEF Futexing, Futexes
<1>14. \A w : Futexes(more, w) => Futexing(w)'
  BY <1>2, <1>4, <1>13
<1>15. \A w : Futexing(w) => (Op(a).op = "futex" /\ Op(a).w = w) \/ Futexing(w)'
  BY <1>1, <1>2, <1>4, <1>13 DEF Futexing, Op
<1>16. LaneRousing => Op(a).op = "rouselane" \/ LaneRousing'
  BY <1>4 DEF LaneRousing, Doing, Op
<1> QED BY <1>4, <1>5, <1>6, <1>9, <1>11, <1>12, <1>14, <1>15, <1>16

\* A call begins.
LEMMA BeginMoves ==
  ASSUME ScriptInv, NEW a \in Actors, NEW ops, GoodScript(a, ops), Begin(a, ops)
  PROVE  /\ script' \in [Actors -> Seq(Ops)]
         /\ \A b \in Actors : GoodScript(b, script[b])'
         /\ \A b \in Actors : b # a => script'[b] = script[b]
         /\ \A b \in Actors, t \in Tasks :
              Holds(b, t)' <=> IF b = a THEN Carries(ops, t) ELSE Holds(b, t)
         /\ \A t \in Tasks : ~Holds(a, t)
         /\ \A w : Announced(w) => Announced(w)'
         /\ \A w : Futexing(w) => Futexing(w)'
         /\ LaneRousing => LaneRousing'
<1>1. script[a] = <<>> /\ script' = [script EXCEPT ![a] = ops]
  BY DEF Begin
<1>2. script'[a] = ops /\ \A b \in Actors : b # a => script'[b] = script[b]
  BY <1>1 DEF ScriptInv
<1>3. script' \in [Actors -> Seq(Ops)]
  BY <1>1 DEF ScriptInv, GoodScript
<1>4. \A b \in Actors : GoodScript(b, script[b])'
  <2>1. \A b \in Actors : GoodScript(b, script'[b])
    BY <1>2 DEF ScriptInv
  <2> QED BY <2>1 DEF GoodScript, Promise
<1>5. /\ \A b \in Actors, t \in Tasks : Holds(b, t)' <=> Carries(script'[b], t)
      /\ \A b \in Actors, t \in Tasks : Holds(b, t) <=> Carries(script[b], t)
  BY DEF Holds, Carries, Carriers
<1>6. \A t \in Tasks : ~Holds(a, t)
  BY <1>1, <1>5, CarriesHead DEF ScriptInv
<1>7. \A w : ~Promises(script[a], w) /\ ~Futexes(script[a], w)
  BY <1>1 DEF Promises, Futexes
<1>8. \A w : Announced(w)' <=> \E b \in Actors : Promises(script'[b], w)
  BY DEF Announced, Promises, Promise
<1>9. \A w : Futexing(w)' <=> \E b \in Actors : Futexes(script'[b], w)
  BY DEF Futexing, Futexes
<1>10. \A w : Announced(w) => Announced(w)'
  BY <1>2, <1>7, <1>8 DEF Announced
<1>11. \A w : Futexing(w) => Futexing(w)'
  BY <1>2, <1>7, <1>9 DEF Futexing
<1>12. LaneRousing => LaneRousing'
  BY <1>1, <1>2 DEF LaneRousing, Doing
<1> QED BY <1>2, <1>3, <1>4, <1>5, <1>6, <1>10, <1>11, <1>12

\* Nor does a step that leaves every script alone.
LEMMA SameScripts ==
  ASSUME ScriptInv, UNCHANGED script
  PROVE  /\ script' \in [Actors -> Seq(Ops)]
         /\ \A b \in Actors : GoodScript(b, script[b])'
         /\ \A b \in Actors, t \in Tasks : Holds(b, t)' <=> Holds(b, t)
         /\ \A w : Announced(w)' <=> Announced(w)
         /\ \A w : Futexing(w)' <=> Futexing(w)
         /\ LaneRousing' <=> LaneRousing
<1>1. script' \in [Actors -> Seq(Ops)]
  BY DEF ScriptInv
<1>2. ASSUME NEW b \in Actors
      PROVE  GoodScript(b, script[b])'
  <2>1. GoodScript(b, script[b])
    BY DEF ScriptInv
  <2> QED BY <2>1 DEF GoodScript, Promise
<1>3. \A b \in Actors, t \in Tasks : Holds(b, t)' <=> Holds(b, t)
  BY DEF Holds
<1>4. \A w : Announced(w)' <=> Announced(w)
  BY DEF Announced, Promises, Promise
<1>5. \A w : Futexing(w)' <=> Futexing(w)
  BY DEF Futexing, Futexes
<1>6. LaneRousing' <=> LaneRousing
  BY DEF LaneRousing, Doing
<1> QED BY <1>1, <1>2, <1>3, <1>4, <1>5, <1>6

-----------------------------------------------------------------------------
(* What leaves a part of the invariant alone *)

\* A step that moves no task keeps every task's place.
LEMMA StillPlaces ==
  ASSUME PlaceInv, UNCHANGED <<queues, task, fresh, suspended, done>>,
         \A b \in Actors, t \in Tasks : Holds(b, t)' <=> Holds(b, t)
  PROVE  PlaceInv'
<1>1. ASSUME NEW t \in Tasks, NEW k \in Kinds, NEW x \in Keepers
      PROVE  IsAt(t, k, x)' <=> IsAt(t, k, x)
  <2>1. CASE k = "script"
    BY <2>1 DEF IsAt
  <2>2. CASE k # "script"
    BY <2>2 DEF IsAt, queues
  <2> QED BY <2>1, <2>2
<1> SUFFICES ASSUME NEW t \in Tasks
             PROVE  OnePlace(t)'
  BY DEF PlaceInv
<1>2. PICK k \in Kinds, x \in Keepers :
        \A k2 \in Kinds, x2 \in Keepers : IsAt(t, k2, x2) <=> k2 = k /\ x2 = x
  BY DEF PlaceInv, OnePlace
<1>3. \A k2 \in Kinds, x2 \in Keepers : IsAt(t, k2, x2)' <=> k2 = k /\ x2 = x
  BY <1>1, <1>2
<1> QED BY <1>3 DEF OnePlace

\* One task goes from one place to another.
Moves(t, k0, x0, k1, x1) ==
  /\ IsAt(t, k0, x0)
  /\ \A u \in Tasks, k \in Kinds, x \in Keepers :
       IsAt(u, k, x)' <=> \/ IsAt(u, k, x) /\ ~(u = t /\ k = k0 /\ x = x0)
                          \/ u = t /\ k = k1 /\ x = x1

\* A step that moves one task leaves it in one place.
LEMMA MovedPlace ==
  ASSUME PlaceInv, NEW t \in Tasks, NEW k0 \in Kinds, NEW x0 \in Keepers,
         NEW k1 \in Kinds, NEW x1 \in Keepers, Moves(t, k0, x0, k1, x1)
  PROVE  PlaceInv'
<1> SUFFICES ASSUME NEW u \in Tasks
             PROVE  OnePlace(u)'
  BY DEF PlaceInv
<1>1. CASE u = t
  <2>1. \A k \in Kinds, x \in Keepers : IsAt(t, k, x) => k = k0 /\ x = x0
    BY DEF PlaceInv, OnePlace, Moves
  <2>2. \A k \in Kinds, x \in Keepers : IsAt(t, k, x)' <=> k = k1 /\ x = x1
    BY <2>1 DEF Moves
  <2> QED BY <1>1, <2>2 DEF OnePlace
<1>2. CASE u # t
  <2>1. \A k \in Kinds, x \in Keepers : IsAt(u, k, x)' <=> IsAt(u, k, x)
    BY <1>2 DEF Moves
  <2>2. PICK k \in Kinds, x \in Keepers :
          \A k2 \in Kinds, x2 \in Keepers : IsAt(u, k2, x2) <=> k2 = k /\ x2 = x
    BY DEF PlaceInv, OnePlace
  <2>3. \A k2 \in Kinds, x2 \in Keepers : IsAt(u, k2, x2)' <=> k2 = k /\ x2 = x
    BY <2>1, <2>2
  <2> QED BY <2>3 DEF OnePlace
<1> QED BY <1>1, <1>2

\* A worker whose own state does not change, and that is sent no work without
\* a Wake to come.
LEMMA StillAsleep ==
  ASSUME NEW w \in Workers, SleepOK(w), pc'[w] = pc[w], workerState'[w] = workerState[w],
         OwnWork(w)' => OwnWork(w) \/ Announced(w)',
         Announced(w) => Announced(w)', Futexing(w) => Futexing(w)'
  PROVE  SleepOK(w)'
BY DEF SleepOK, GoingToSleep

\* A step that leaves the intake, the band and worker 0 alone.
LEMMA StillLane ==
  ASSUME LaneInv, word'.k > 0 => word.k > 0, pc'[0] = pc[0], workerState'[0] = workerState[0],
         intake' \subseteq intake, 0 \in reserved => 0 \in reserved',
         Announced(0) => Announced(0)', LaneRousing => LaneRousing'
  PROVE  LaneInv'
BY DEF LaneInv, GoingToSleep

\* The parts that accesses to the bands, and calls, leave alone.
LEMMA StillPool ==
  ASSUME IInv, UNCHANGED <<flags, queues, pc, locals, task, tasks>>,
         word' \in NatWord, word'.k > 0 => word.k > 0 \/ Announced(0)',
         script' \in [Actors -> Seq(Ops)],
         \A b \in Actors : GoodScript(b, script[b])',
         \A b \in Workers : script'[b] = script[b] \/ script[b] # <<>>,
         \A b \in Actors, t \in Tasks : Holds(b, t)' <=> Holds(b, t),
         \A w : Announced(w) => Announced(w)',
         \A w : Futexing(w) => Futexing(w)',
         LaneRousing => LaneRousing'
  PROVE  IInv'
<1>1. TypeInv'
  BY DEF IInv, TypeInv, flags, queues, locals, tasks
<1>2. ScriptInv'
  BY DEF IInv, ScriptInv
<1>3. HandInv'
  BY DEF IInv, HandInv
<1>4. PlaceInv'
  BY StillPlaces DEF IInv, queues, tasks
<1>5. SleepInv'
  <2> SUFFICES ASSUME NEW w \in Workers
               PROVE  SleepOK(w)'
    BY DEF SleepInv
  <2>1. OwnWork(w)' <=> OwnWork(w)
    BY DEF OwnWork, flags, queues, locals
  <2> QED BY <2>1, StillAsleep DEF IInv, SleepInv, flags
<1>6. LaneInv'
  <2>1. CASE word'.k > 0 => word.k > 0
    <3>1. UNCHANGED <<pc, workerState, intake, reserved>>
      BY DEF flags, queues, locals
    <3> QED BY <2>1, <3>1, StillLane DEF IInv
  <2>2. CASE Announced(0)'
    BY <2>2 DEF LaneInv
  <2> QED BY <2>1, <2>2
<1> QED BY <1>1, <1>2, <1>3, <1>4, <1>5, <1>6 DEF IInv

-----------------------------------------------------------------------------
(* Accesses to the bands *)

\* The writers of the word return words.
LEMMA WordsAreTyped ==
  ASSUME NEW v \in NatWord, NEW x \in Nat
  PROVE  /\ BandsSetK(v, x) \in NatWord
         /\ BandsSetF(v, x) \in NatWord /\ BandsSetF(v, x).k = v.k
         /\ BandsSetFb(v, x) \in NatWord /\ BandsSetFb(v, x).k = v.k
         /\ BandsSetKmax(v, x) \in NatWord /\ BandsSetKmax(v, x).k = v.k
         /\ BandsSetKmin(v, x) \in NatWord /\ BandsSetKmin(v, x).k = v.k
         /\ FloorWanted(v, x, 0) \in Nat
<1>1. v.f \in Nat /\ v.fb \in Nat /\ v.k \in Nat /\ v.kmax \in Nat /\ v.kmin \in Nat
  BY DEF NatWord
<1>2. \A y \in Nat : Room(y) \in Nat
  BY PoolAssumption DEF Room
<1>3. \A y, z \in Nat : AtMost(y, z) \in Nat /\ AtLeast(y, z) \in Nat
  BY DEF AtMost, AtLeast
<1>4. /\ BandsSetFb(v, x) \in NatWord /\ BandsSetFb(v, x).k = v.k
      /\ BandsSetKmax(v, x) \in NatWord /\ BandsSetKmax(v, x).k = v.k
      /\ BandsSetKmin(v, x) \in NatWord /\ BandsSetKmin(v, x).k = v.k
  BY DEF BandsSetFb, BandsSetKmax, BandsSetKmin, NatWord
<1>5. \A y \in Nat : [v EXCEPT !.k = y] \in NatWord
  BY DEF NatWord
<1>6. \A y \in Nat : [v EXCEPT !.f = y] \in NatWord /\ [v EXCEPT !.f = y].k = v.k
  BY DEF NatWord
<1>7. BandsSetK(v, x) \in NatWord
  BY <1>1, <1>2, <1>3, <1>5 DEF BandsSetK
<1>8. BandsSetF(v, x) \in NatWord /\ BandsSetF(v, x).k = v.k
  BY <1>1, <1>2, <1>3, <1>6 DEF BandsSetF
<1>9. FloorCap(v, 0) \in Nat
  <2>1. (IF N >= v.k + 2 THEN N - v.k - 2 ELSE 0) \in Nat /\ (IF N >= 2 THEN N - 2 ELSE 0) \in Nat
    BY <1>1, PoolAssumption
  <2> QED BY <1>1, <1>3, <2>1 DEF FloorCap
<1>10. FloorWanted(v, x, 0) \in Nat
  <2>1. \A y \in Nat : v.f + y \in Nat /\ y + v.fb \in Nat
    BY <1>1
  <2> QED BY <1>3, <1>9, <2>1 DEF FloorWanted
<1> QED BY <1>4, <1>7, <1>8, <1>10

\* An access to the bands: the pool is left alone, and what it leads to
\* carries no task.
LEMMA BandAccess ==
  ASSUME IInv, NEW a \in Actors, script[a] # <<>>,
         NEW more, GoodScript(a, more), Plain(more), Proceed(a, more),
         Op(a).op \notin Carriers \cup {"rouselane", "shed", "notify", "futex"},
         UNCHANGED <<flags, queues, pc, locals, task, tasks>>,
         word' \in NatWord, word'.k > 0 => word.k > 0 \/ Promises(more, 0)
  PROVE  IInv'
<1>1. ScriptInv
  BY DEF IInv
<1>2. /\ script' \in [Actors -> Seq(Ops)]
      /\ \A b \in Actors : GoodScript(b, script[b])'
      /\ \A b \in Actors : b # a => script'[b] = script[b]
      /\ \A b \in Actors, t \in Tasks :
           Holds(b, t)' <=> IF b = a THEN Carries(more, t) ELSE Holds(b, t)
      /\ \A w : Promises(more, w) => Announced(w)'
      /\ \A w : Announced(w) => Promise(Op(a), w) \/ Announced(w)'
      /\ \A w : Futexing(w) => (Op(a).op = "futex" /\ Op(a).w = w) \/ Futexing(w)'
      /\ LaneRousing => Op(a).op = "rouselane" \/ LaneRousing'
  BY <1>1, ProceedMoves
<1>3. \A t \in Tasks : ~Carries(more, t)
  BY DEF Carries, Plain
<1>4. \A t \in Tasks : ~Holds(a, t)
  <2>1. \A t \in Tasks : ~Carries(script[a], t)
    BY <1>1, CarriesHead DEF ScriptInv, Op
  <2> QED BY <2>1 DEF Holds, Carries, Carriers
<1>5. \A b \in Actors, t \in Tasks : Holds(b, t)' <=> Holds(b, t)
  BY <1>2, <1>3, <1>4
<1>6. \A w : ~Promise(Op(a), w)
  BY DEF Promise
<1>7. \A b \in Workers : script'[b] = script[b] \/ script[b] # <<>>
  BY <1>2 DEF Actors
<1> QED BY <1>2, <1>5, <1>6, <1>7, StillPool

\* What an actor's first access is.
LEMMA FirstAccess ==
  ASSUME IInv, NEW a \in Actors, script[a] # <<>>
  PROVE  Op(a) \in Ops /\ word \in NatWord /\ word.k \in Nat /\ word.f \in Nat /\ word.fb \in Nat
<1>1. Op(a) \in Ops
  BY GoodTail DEF IInv, ScriptInv, Op
<1> QED BY <1>1 DEF IInv, TypeInv, NatWord

\* The setters of Kmax, Kmin and Fbase write the word only.
LEMMA BoundStep ==
  ASSUME IInv, NEW a \in Actors, DoBound(a)
  PROVE  IInv'
<1>1. /\ script[a] # <<>> /\ Op(a).op \in {"kmax", "kmin", "setFb"}
      /\ Proceed(a, <<>>) /\ UNCHANGED <<flags, queues, pc, locals, task, tasks>>
  BY DEF DoBound, Doing, Op
<1>2. /\ Op(a).op \in {"kmax", "kmin"} => Op(a).k \in Nat
      /\ Op(a).op = "setFb" => Op(a).f \in Nat
      /\ word \in NatWord
  BY <1>1, FirstAccess, OpFields
<1>3. \/ Op(a).op = "kmax" /\ word' = BandsSetKmax(word, Op(a).k)
      \/ Op(a).op = "kmin" /\ word' = BandsSetKmin(word, Op(a).k)
      \/ Op(a).op = "setFb" /\ word' = BandsSetFb(word, Op(a).f)
  BY DEF DoBound, Doing, Op
<1>4. word' \in NatWord /\ word'.k = word.k
  <2>1. PICK x \in Nat : word' \in {BandsSetKmax(word, x), BandsSetKmin(word, x), BandsSetFb(word, x)}
    BY <1>2, <1>3
  <2>2. /\ BandsSetFb(word, x) \in NatWord /\ BandsSetFb(word, x).k = word.k
        /\ BandsSetKmax(word, x) \in NatWord /\ BandsSetKmax(word, x).k = word.k
        /\ BandsSetKmin(word, x) \in NatWord /\ BandsSetKmin(word, x).k = word.k
    BY <1>2, WordsAreTyped
  <2> QED BY <2>1, <2>2
<1> QED BY <1>1, <1>4, GoodEmpty, BandAccess DEF Carriers

\* BandsSetF, and then the Wakes of the workers that came onto the floor.
LEMMA SetFStep ==
  ASSUME IInv, NEW a \in Actors, DoSetF(a)
  PROVE  IInv'
<1> DEFINE grown == <<[op |-> "wakefloor", lo |-> word.f, hi |-> Op(a).f]>>
           spread == IF Op(a).n > 0 THEN <<[op |-> "spread", n |-> Op(a).n]>> ELSE <<>>
           more == IF Op(a).f > word.f THEN grown \o spread ELSE <<>>
<1>1. /\ script[a] # <<>> /\ Op(a).op = "setF"
      /\ Proceed(a, more) /\ UNCHANGED <<flags, queues, pc, locals, task, tasks>>
      /\ word' = BandsSetF(word, Op(a).f)
  BY DEF DoSetF, Doing, Op
<1>2. Op(a).f \in Nat /\ Op(a).n \in Nat /\ word \in NatWord /\ word.f \in Nat
  BY <1>1, FirstAccess, OpFields
<1>3. word' \in NatWord /\ word'.k = word.k
  BY <1>1, <1>2, WordsAreTyped
<1>4. GoodScript(a, grown) /\ Plain(grown)
  <2>1. [op |-> "wakefloor", lo |-> word.f, hi |-> Op(a).f] \in Ops
    BY <1>2 DEF Ops
  <2> QED BY <2>1, GoodSingle
<1>5. GoodScript(a, spread) /\ Plain(spread)
  <2>1. [op |-> "spread", n |-> Op(a).n] \in Ops
    BY <1>2 DEF Ops
  <2> QED BY <2>1, GoodSingle, GoodEmpty
<1>6. GoodScript(a, more) /\ Plain(more)
  <2> HIDE DEF grown, spread
  <2> QED BY <1>4, <1>5, GoodConcat, GoodEmpty
<1> HIDE DEF more
<1> QED BY <1>1, <1>3, <1>6, BandAccess DEF Carriers

\* The Wakes of the workers that the floor has grown or slid onto.
LEMMA WakeFloorStep ==
  ASSUME IInv, NEW a \in Actors, DoWakeFloor(a) \/ DoSlide(a)
  PROVE  IInv'
<1>1. /\ script[a] # <<>> /\ Op(a).op \in {"wakefloor", "slide"}
      /\ UNCHANGED <<word, flags, queues, pc, locals, task, tasks>>
  BY DEF DoWakeFloor, DoSlide, Doing, Op
<1>2. /\ Op(a).lo \in Int /\ Op(a).hi \in Int
      /\ word \in NatWord /\ word.f \in Nat /\ word.k \in Nat
  BY <1>1, FirstAccess, OpFields
<1>3. PICK lo \in Int, hi \in Int : Proceed(a, NotifyRange(lo, hi))
  <2>1. /\ word.k + Op(a).lo \in Int /\ word.k + Op(a).hi \in Int
        /\ Op(a).lo + word.f \in Int /\ Op(a).hi + word.f \in Int
    BY <1>2
  <2> QED BY <2>1 DEF DoWakeFloor, DoSlide
<1>4. GoodScript(a, NotifyRange(lo, hi)) /\ Plain(NotifyRange(lo, hi))
  BY GoodNotifyRange
<1> QED BY <1>1, <1>2, <1>3, <1>4, BandAccess DEF Carriers

\* SetHotWorkersEffective: the word, the shed, the Wakes on both sides.
LEMMA SetKStep ==
  ASSUME IInv, NEW a \in Actors, DoSetK(a)
  PROVE  IInv'
<1> DEFINE prev == word.k
           eff == word'.k
           shed == IF prev < eff /\ eff < N
                   THEN <<[op |-> "shed", lo |-> prev, hi |-> eff, moved |-> FALSE]>>
                   ELSE <<>>
           wakes == IF prev < eff THEN LaneWakeRange(prev, eff) ELSE LaneWakeRange(eff, prev)
           slide == IF prev < eff THEN <<[op |-> "slide", lo |-> prev, hi |-> eff]>>
                    ELSE <<>>
           more == shed \o wakes \o slide
<1>1. /\ script[a] # <<>> /\ Op(a).op = "setK"
      /\ Proceed(a, more) /\ UNCHANGED <<flags, queues, pc, locals, task, tasks>>
  BY DEF DoSetK, Doing, Op
<1>2. word' \in NatWord /\ prev \in Nat /\ eff \in Nat
  <2>1. Op(a).k \in Nat /\ word \in NatWord
    BY <1>1, FirstAccess, OpFields
  <2> DEFINE want == IF Op(a).k >= N THEN N - 1 ELSE Op(a).k
             most == IF want > 2 THEN 2 ELSE want
  <2>2. most \in Nat /\ word' = BandsSetK(word, most)
    <3>1. want \in Nat
      BY <2>1, PoolAssumption
    <3>2. word' = BandsSetK(word, most)
      BY DEF DoSetK
    <3> QED BY <3>1, <3>2
  <2> HIDE DEF most, want
  <2>3. word' \in NatWord
    BY <2>1, <2>2, WordsAreTyped
  <2> QED BY <2>1, <2>3 DEF NatWord
<1> HIDE DEF prev, eff
<1>3. GoodScript(a, shed) /\ Plain(shed)
  <2>1. ASSUME prev < eff, eff < N
        PROVE  [op |-> "shed", lo |-> prev, hi |-> eff, moved |-> FALSE] \in Ops
    <3>1. eff \in Workers
      BY <1>2, <2>1, PoolAssumption DEF Workers
    <3> QED BY <1>2, <3>1 DEF Ops
  <2> QED BY <2>1, GoodSingle, GoodEmpty
<1>4. /\ GoodScript(a, wakes) /\ Plain(wakes)
      /\ prev = 0 /\ eff > 0 => Promises(wakes, 0)
  BY <1>2, GoodLaneWakeRange
<1>5. GoodScript(a, slide) /\ Plain(slide)
  <2>1. [op |-> "slide", lo |-> prev, hi |-> eff] \in Ops
    BY <1>2 DEF Ops
  <2> QED BY <2>1, GoodSingle, GoodEmpty
<1> HIDE DEF shed, wakes, slide
<1>6. /\ GoodScript(a, shed \o wakes) /\ Plain(shed \o wakes)
      /\ \A w : Promises(wakes, w) => Promises(shed \o wakes, w)
  BY <1>3, <1>4, GoodConcat
<1>7. /\ GoodScript(a, more) /\ Plain(more)
      /\ \A w : Promises(wakes, w) => Promises(more, w)
  BY <1>5, <1>6, GoodConcat
<1>8. word.k = prev /\ word'.k = eff
  BY DEF prev, eff
<1> HIDE DEF more
<1>9. eff > 0 => prev > 0 \/ Promises(more, 0)
  BY <1>2, <1>4, <1>7
<1> QED BY <1>1, <1>2, <1>7, <1>8, <1>9, BandAccess DEF Carriers

\* RecruitForLiveRange's Wakes of sleepers.
LEMMA RecruitStep ==
  ASSUME IInv, NEW a \in Actors, DoRecruit(a)
  PROVE  IInv'
<1>1. /\ script[a] # <<>> /\ Op(a).op = "recruit"
      /\ UNCHANGED <<word, flags, queues, pc, locals, task, tasks>>
  BY DEF DoRecruit, Doing, Op
<1>2. Op(a).n \in Nat /\ word \in NatWord
  BY <1>1, FirstAccess, OpFields
<1> DEFINE asleep == {w \in Workers : workerState[w] = "WS_PARKED"}
           notes(n, seq) == [i \in 1..n |-> [op |-> "notify", w |-> seq[i]]]
<1>3. \E n \in 0..Op(a).n : \E seq \in [1..n -> asleep] : Proceed(a, notes(n, seq))
  BY DEF DoRecruit
<1>4. \A n : [1..n -> asleep] \subseteq [1..n -> Workers]
  OBVIOUS
<1> HIDE DEF asleep, notes
<1>5. PICK n \in 0..Op(a).n : \E seq \in [1..n -> Workers] : Proceed(a, notes(n, seq))
  BY <1>3, <1>4
<1>6. PICK seq \in [1..n -> Workers] : Proceed(a, notes(n, seq))
  BY <1>5
<1>7. n \in Int /\ \A i \in 1..n : [op |-> "notify", w |-> seq[i]] \in Ops
  <2>1. n \in Int /\ \A i \in 1..n : seq[i] \in Int
    BY <1>2, PoolAssumption DEF Workers
  <2>2. \A w \in Int : [op |-> "notify", w |-> w] \in Ops
    BY DEF Ops
  <2> QED BY <2>1, <2>2
<1>8. notes(n, seq) \in [1..n -> Ops] /\ \A i \in 1..n : notes(n, seq)[i].op = "notify"
  BY <1>7 DEF notes
<1>9. GoodScript(a, notes(n, seq)) /\ Plain(notes(n, seq))
  BY <1>7, <1>8, GoodUniform
<1> QED BY <1>1, <1>2, <1>6, <1>9, BandAccess DEF Carriers

\* NoteFloorCrowding by a worker that has recruited.
LEMMA CrowdStep ==
  ASSUME IInv, NEW a \in Actors, DoCrowd(a)
  PROVE  IInv'
<1> DEFINE more == IF FloorMayGrow(word, Op(a).n, 0)
                   THEN <<[op |-> "setF", f |-> FloorWanted(word, Op(a).n, 0), n |-> 0]>>
                   ELSE <<>>
<1>1. /\ script[a] # <<>> /\ Op(a).op = "crowd" /\ Proceed(a, more)
      /\ UNCHANGED <<word, flags, queues, pc, locals, task, tasks>>
  BY DEF DoCrowd, Doing, Op
<1>2. Op(a).n \in Nat /\ word \in NatWord
  BY <1>1, FirstAccess, OpFields
<1>3. FloorWanted(word, Op(a).n, 0) \in Nat
  BY <1>2, WordsAreTyped
<1>4. [op |-> "setF", f |-> FloorWanted(word, Op(a).n, 0), n |-> 0] \in Ops
  BY <1>3 DEF Ops
<1>5. GoodScript(a, more) /\ Plain(more)
  BY <1>4, GoodSingle, GoodEmpty
<1> HIDE DEF more
<1> QED BY <1>1, <1>2, <1>5, BandAccess DEF Carriers

\* RedistributeToOverflow's loads of the word, and a hand-over for each task.
LEMMA SpreadStep ==
  ASSUME IInv, NEW a \in Actors, DoSpread(a)
  PROVE  IInv'
<1> DEFINE o == Op(a)
<1>1. /\ script[a] # <<>> /\ o.op \in {"spread", "spreadFb", "spreadF"}
      /\ UNCHANGED <<word, flags, queues, pc, locals, task, tasks>>
  BY DEF DoSpread, Doing, Op
<1>2. /\ o.n \in Nat /\ (o.op \in {"spreadFb", "spreadF"} => o.k \in Nat)
      /\ o.op = "spreadF" => o.fb \in Nat
      /\ word \in NatWord /\ word.k \in Nat /\ word.f \in Nat /\ word.fb \in Nat
  <2> HIDE DEF o
  <2>1. o \in Ops /\ word \in NatWord /\ word.k \in Nat /\ word.f \in Nat /\ word.fb \in Nat
    BY <1>1, FirstAccess DEF o
  <2> QED BY <1>1, <2>1, OpFields
<1>3. ASSUME NEW more, Proceed(a, more), GoodScript(a, more), Plain(more)
      PROVE  IInv'
  BY <1>1, <1>2, <1>3, BandAccess DEF Carriers
<1>4. CASE o.op = "spread" /\ Proceed(a, <<[op |-> "spreadFb", n |-> o.n, k |-> word.k]>>)
  <2>1. [op |-> "spreadFb", n |-> o.n, k |-> word.k] \in Ops
    BY <1>2 DEF Ops
  <2> QED BY <1>3, <1>4, <2>1, GoodSingle
<1>5. CASE o.op = "spreadFb"
           /\ Proceed(a, <<[op |-> "spreadF", n |-> o.n, k |-> o.k, fb |-> word.fb]>>)
  <2>1. [op |-> "spreadF", n |-> o.n, k |-> o.k, fb |-> word.fb] \in Ops
    BY <1>2, <1>5 DEF Ops
  <2> QED BY <1>3, <1>5, <2>1, GoodSingle
<1>6. CASE o.op = "spreadF" /\ ~(o.op = "spread") /\ ~(o.op = "spreadFb")
  <2> DEFINE n == IF word.f > o.fb THEN o.n ELSE 0
             to(i) == o.k + o.fb + ((i - 1) % (word.f - o.fb))
             more == [i \in 1..n |-> [op |-> "hand", to |-> to(i)]]
  <2>1. Proceed(a, more)
    BY <1>6 DEF DoSpread, Doing, Op
  <2>2. n \in Int
    BY <1>2
  <2>3. \A i \in 1..n : to(i) \in Int
    <3> TAKE i \in 1..n
    <3>1. word.f - o.fb \in Nat \ {0} /\ i - 1 \in Int
      BY <1>2, <1>6
    <3> DEFINE d == word.f - o.fb
    <3>2. (i - 1) % d \in Int
      <4> HIDE DEF d
      <4> QED BY <3>1 DEF d
    <3> QED BY <1>2, <1>6, <3>2
  <2>4. \A i \in 1..n : [op |-> "hand", to |-> to(i)] \in Ops
    <3> HIDE DEF to, n
    <3> QED BY <2>3 DEF Ops
  <2>5. more \in [1..n -> Ops] /\ \A i \in 1..n : more[i].op = "hand"
    <3> HIDE DEF to, n
    <3> QED BY <2>4
  <2>6. GoodScript(a, more) /\ Plain(more)
    <3> HIDE DEF more, n
    <3> QED BY <2>2, <2>5, GoodUniform
  <2> HIDE DEF more
  <2> QED BY <1>3, <2>1, <2>6
<1> QED BY <1>1, <1>4, <1>5, <1>6 DEF DoSpread, Doing, Op

\* RequestStop.
LEMMA StopStep ==
  ASSUME IInv, NEW a \in Actors, DoStop(a)
  PROVE  IInv'
<1>1. /\ script[a] # <<>> /\ Op(a).op = "stop" /\ Proceed(a, <<>>)
      /\ UNCHANGED <<word, flags, queues, pc, locals, task, tasks>>
  BY DEF DoStop, Doing, Op
<1> QED BY <1>1, FirstAccess, GoodEmpty, BandAccess DEF Carriers

-----------------------------------------------------------------------------
(* Calls *)

\* A caller begins a script; nothing a worker looks at changes.
LEMMA CallKeeps ==
  ASSUME IInv, NEW c \in Callers, NEW ops, GoodScript(c, ops), Begin(c, ops),
         UNCHANGED <<word, flags, queues, pc, locals, task, home>>
  PROVE  TypeInv' /\ ScriptInv' /\ HandInv' /\ SleepInv' /\ LaneInv'
<1>1. ScriptInv /\ c \in Actors /\ c \notin Workers
  BY WorkerAssumption DEF IInv, Actors
<1>2. /\ script' \in [Actors -> Seq(Ops)]
      /\ \A b \in Actors : GoodScript(b, script[b])'
      /\ \A b \in Actors : b # c => script'[b] = script[b]
      /\ \A w : Announced(w) => Announced(w)'
      /\ \A w : Futexing(w) => Futexing(w)'
      /\ LaneRousing => LaneRousing'
  BY <1>1, BeginMoves
<1>3. TypeInv' /\ HandInv'
  BY DEF IInv, TypeInv, HandInv, flags, queues, locals
<1>4. ScriptInv'
  BY <1>1, <1>2 DEF ScriptInv, Actors
<1>5. \A w \in Workers : SleepOK(w)'
  <2> TAKE w \in Workers
  <2>1. OwnWork(w)' <=> OwnWork(w)
    BY DEF OwnWork, flags, queues, locals
  <2> QED BY <1>2, <2>1, StillAsleep DEF IInv, SleepInv, flags
<1>6. LaneInv'
  <2>1. UNCHANGED <<word, pc, workerState, intake, reserved>>
    BY DEF flags, queues, locals
  <2> QED BY <1>2, <2>1, StillLane DEF IInv
<1> QED BY <1>3, <1>4, <1>5, <1>6 DEF SleepInv

\* A call that carries no task.
LEMMA PlainCall ==
  ASSUME IInv, NEW c \in Callers, NEW ops, GoodScript(c, ops), Plain(ops), Begin(c, ops),
         UNCHANGED <<word, flags, queues, pc, locals, task, tasks>>
  PROVE  IInv'
<1>1. TypeInv' /\ ScriptInv' /\ HandInv' /\ SleepInv' /\ LaneInv'
  BY CallKeeps DEF tasks
<1>2. /\ \A b \in Actors, t \in Tasks :
           Holds(b, t)' <=> IF b = c THEN Carries(ops, t) ELSE Holds(b, t)
      /\ \A t \in Tasks : ~Holds(c, t)
  BY BeginMoves DEF IInv, Actors
<1>3. \A t : ~Carries(ops, t)
  BY DEF Carries, Plain
<1>4. \A b \in Actors, t \in Tasks : Holds(b, t)' <=> Holds(b, t)
  BY <1>2, <1>3
<1>5. PlaceInv'
  BY <1>4, StillPlaces DEF IInv, tasks
<1> QED BY <1>1, <1>5 DEF IInv

\* A caller begins a call that moves the bands.
LEMMA BandCallStep ==
  ASSUME IInv, NEW c \in Callers,
         \/ \E k \in Ks : SetHotWorkers(c, k)
         \/ \E f \in Fs : SetAwakeFloor(c, f)
         \/ \E n \in Waves : NoteFloorCrowding(c, n)
  PROVE  IInv'
<1>1. Ks \subseteq Nat /\ Fs \subseteq Nat /\ Waves \subseteq Nat /\ word \in NatWord
  BY WorkerAssumption DEF IInv, TypeInv
<1>2. ASSUME NEW ops, GoodScript(c, ops), Plain(ops), Begin(c, ops), CallUnchanged
      PROVE  IInv'
  <2>1. UNCHANGED <<word, flags, queues, pc, locals, task, tasks>>
    BY <1>2 DEF CallUnchanged
  <2> QED BY <1>2, <2>1, PlainCall
<1>3. ASSUME NEW k \in Ks, SetHotWorkers(c, k)
      PROVE  IInv'
  <2> DEFINE ops == <<[op |-> "kmax", k |-> k], [op |-> "kmin", k |-> k],
                      [op |-> "setK", k |-> k]>>
  <2>1. /\ [op |-> "kmax", k |-> k] \in Ops /\ [op |-> "kmin", k |-> k] \in Ops
        /\ [op |-> "setK", k |-> k] \in Ops
    BY <1>1 DEF Ops
  <2>2. /\ ops \in Seq(Ops) /\ DOMAIN ops = 1..3
        /\ ops[1].op = "kmax" /\ ops[2].op = "kmin" /\ ops[3].op = "setK"
    BY <2>1
  <2>3. \A i \in DOMAIN ops : ops[i].op \in {"kmax", "kmin", "setK"}
    <3> HIDE DEF ops
    <3>1. \A i \in DOMAIN ops : i = 1 \/ i = 2 \/ i = 3
      BY <2>2
    <3> QED BY <2>2, <3>1
  <2> HIDE DEF ops
  <2>4. GoodScript(c, ops) /\ Plain(ops)
    BY <2>2, <2>3 DEF GoodScript, Plain, Carriers
  <2> QED BY <1>2, <1>3, <2>4 DEF SetHotWorkers, ops
<1>4. ASSUME NEW f \in Fs, SetAwakeFloor(c, f)
      PROVE  IInv'
  <2> DEFINE ops == <<[op |-> "setFb", f |-> f], [op |-> "setF", f |-> f, n |-> 0]>>
  <2>1. [op |-> "setFb", f |-> f] \in Ops /\ [op |-> "setF", f |-> f, n |-> 0] \in Ops
    BY <1>1 DEF Ops
  <2>2. /\ ops \in Seq(Ops) /\ DOMAIN ops = 1..2
        /\ ops[1].op = "setFb" /\ ops[2].op = "setF"
    <3>1. DOMAIN ops = 1..2 /\ ops[1].op = "setFb" /\ ops[2].op = "setF"
      OBVIOUS
    <3>2. ops \in Seq(Ops)
      BY <2>1
    <3> QED BY <3>1, <3>2
  <2>3. \A i \in DOMAIN ops : ops[i].op \in {"setFb", "setF"}
    <3> HIDE DEF ops
    <3>1. \A i \in DOMAIN ops : i = 1 \/ i = 2
      BY <2>2
    <3> QED BY <2>2, <3>1
  <2> HIDE DEF ops
  <2>4. GoodScript(c, ops) /\ Plain(ops)
    BY <2>2, <2>3 DEF GoodScript, Plain, Carriers
  <2> QED BY <1>2, <1>4, <2>4 DEF SetAwakeFloor, ops
<1>5. ASSUME NEW n \in Waves, NoteFloorCrowding(c, n)
      PROVE  IInv'
  <2> DEFINE o == [op |-> "setF", f |-> FloorWanted(word, n, 0), n |-> 0]
  <2>1. FloorWanted(word, n, 0) \in Nat
    BY <1>1, WordsAreTyped
  <2>2. o \in Ops
    BY <2>1 DEF Ops
  <2>3. GoodScript(c, <<o>>) /\ Plain(<<o>>)
    BY <2>2, GoodSingle
  <2> QED BY <1>2, <1>5, <2>3 DEF NoteFloorCrowding
<1> QED BY <1>3, <1>4, <1>5

\* A caller pauses, resumes or joins the pool.
LEMMA PoolCallStep ==
  ASSUME IInv, NEW c \in Callers, Pause(c) \/ ResumePool(c) \/ Join(c)
  PROVE  IInv'
<1>1. N \in Int /\ 0 \in Int
  BY PoolAssumption
<1>2. CASE Pause(c)
  <2>1. UNCHANGED <<word, flags, queues, pc, locals, task, script, tasks>>
    BY <1>2 DEF Pause
  <2>2. /\ \A b \in Actors, t \in Tasks : Holds(b, t)' <=> Holds(b, t)
        /\ \A w : Announced(w) => Announced(w)'
        /\ \A w : Futexing(w) => Futexing(w)'
        /\ LaneRousing => LaneRousing'
        /\ \A b \in Actors : GoodScript(b, script[b])'
    BY <2>1, SameScripts DEF IInv
  <2>3. word' \in NatWord /\ script' \in [Actors -> Seq(Ops)]
    BY <2>1, SameScripts DEF IInv, TypeInv
  <2> QED BY <2>1, <2>2, <2>3, StillPool
<1>3. CASE ResumePool(c)
  <2>1. /\ Begin(c, NotifyRange(0, N))
        /\ UNCHANGED <<word, flags, queues, pc, locals, task, tasks>>
    BY <1>3 DEF ResumePool
  <2>2. GoodScript(c, NotifyRange(0, N)) /\ Plain(NotifyRange(0, N))
    BY <1>1, GoodNotifyRange
  <2> QED BY <2>1, <2>2, PlainCall
<1>4. CASE Join(c)
  <2> DEFINE o(i) == [op |-> IF i % 2 = 1 THEN "stop" ELSE "notify", w |-> (i - 1) \div 2]
             ops == [i \in 1..(2 * N) |-> o(i)]
  <2>1. \A i \in 1..(2 * N) : (i - 1) \div 2 \in Int
    BY <1>1
  <2>2. \A i \in 1..(2 * N) : o(i) \in Ops /\ o(i).op \in {"stop", "notify"}
    BY <2>1 DEF Ops
  <2>3. Begin(c, ops) /\ UNCHANGED <<word, flags, queues, pc, locals, task, tasks>>
    BY <1>4 DEF Join, CallUnchanged
  <2> HIDE DEF o
  <2>4. ops \in [1..(2 * N) -> Ops] /\ \A i \in 1..(2 * N) : ops[i].op \in {"stop", "notify"}
    BY <2>2
  <2>5. 2 * N \in Int
    BY <1>1
  <2>6. GoodScript(c, ops) /\ Plain(ops)
    BY <2>4, <2>5, GoodUniform
  <2> HIDE DEF ops
  <2> QED BY <2>3, <2>6, PlainCall
<1> QED BY <1>2, <1>3, <1>4

\* Where PushTarget takes a task: one delivery, or the intake.
LEMMA GoodPlacement ==
  ASSUME NEW c, NEW t \in Tasks, NEW ops \in Placements(t)
  PROVE  GoodScript(c, ops) /\ \A u : Carries(ops, u) <=> u = t
<1>1. CASE ops = <<[op |-> "intake", t |-> t]>>
  <2> DEFINE o == [op |-> "intake", t |-> t]
  <2>1. o \in Ops /\ DOMAIN <<o>> = {1} /\ <<o>>[1] = o /\ o.op = "intake" /\ o.t = t
    <3>1. o \in Ops
      BY DEF Ops
    <3> QED BY <3>1
  <2> HIDE DEF o
  <2>2. GoodScript(c, <<o>>)
    BY <2>1, GoodSingle
  <2>3. \A u : Carries(<<o>>, u) <=> u = t
    BY <2>1 DEF Carries, Carriers
  <2> QED BY <1>1, <2>2, <2>3 DEF o
<1>2. ASSUME NEW kind \in {"inbox", "lane"}, NEW w \in Workers, ops = Deliver(kind, w, t)
      PROVE  GoodScript(c, ops) /\ \A u : Carries(ops, u) <=> u = t
  BY <1>2, GoodDeliver
<1> QED BY <1>1, <1>2 DEF Placements

\* A task that is pushed or requeued goes into the caller's script.
LEMMA SubmitStep ==
  ASSUME IInv, NEW c \in Callers, NEW t \in Tasks,
         PushTarget(c, t) \/ PushAffine(c, t) \/ Requeue(c, t)
  PROVE  IInv'
<1>1. PICK ops : Begin(c, ops) /\ GoodScript(c, ops) /\ \A u : Carries(ops, u) <=> u = t
  <2>1. CASE \E ops \in Placements(t) : Begin(c, ops)
    BY <2>1, GoodPlacement
  <2>2. ASSUME NEW kind \in {"inbox", "lane", "resumed"}, NEW w \in Workers,
               Begin(c, Deliver(kind, w, t))
        PROVE  \E ops : Begin(c, ops) /\ GoodScript(c, ops) /\ \A u : Carries(ops, u) <=> u = t
    <3>1. /\ GoodScript(c, Deliver(kind, w, t))
          /\ \A u : Carries(Deliver(kind, w, t), u) <=> u = t
      BY GoodDeliver
    <3> QED BY <2>2, <3>1
  <2>3. Affinities \subseteq Workers /\ home[t] \in Workers
    BY WorkerAssumption DEF IInv, TypeInv
  <2>4. CASE PushTarget(c, t)
    BY <2>1, <2>4 DEF PushTarget
  <2>5. CASE PushAffine(c, t)
    <3>1. PICK w \in Affinities :
            Begin(c, Deliver(IF t \in LaneTasks /\ LaneActive THEN "lane" ELSE "inbox", w, t))
      BY <2>5 DEF PushAffine
    <3> QED BY <2>2, <2>3, <3>1
  <2>6. CASE Requeue(c, t)
    BY <2>1, <2>2, <2>3, <2>6 DEF Requeue
  <2> QED BY <2>4, <2>5, <2>6
<1>2. UNCHANGED <<word, flags, queues, pc, locals, task, home, done>>
  BY DEF PushTarget, PushAffine, Requeue
<1>3. TypeInv' /\ ScriptInv' /\ HandInv' /\ SleepInv' /\ LaneInv'
  BY <1>1, <1>2, CallKeeps
<1>4. /\ \A b \in Actors, u \in Tasks : Holds(b, u)' <=> IF b = c THEN u = t ELSE Holds(b, u)
      /\ \A u \in Tasks : ~Holds(c, u)
      /\ c \in Actors
  BY <1>1, BeginMoves DEF IInv, Actors
<1>5. UNCHANGED <<inbox, lane, resumed, deque, intake, task, done>>
  BY <1>2 DEF queues
<1>6. PICK from \in {"fresh", "suspended"} :
        /\ t \in IF from = "fresh" THEN fresh ELSE suspended
        /\ fresh' = IF from = "fresh" THEN fresh \ {t} ELSE fresh
        /\ suspended' = IF from = "fresh" THEN suspended ELSE suspended \ {t}
  <2>1. \/ t \in fresh /\ fresh' = fresh \ {t} /\ suspended' = suspended
        \/ t \in suspended /\ suspended' = suspended \ {t} /\ fresh' = fresh
    BY DEF PushTarget, PushAffine, Requeue
  <2>2. CASE t \in fresh /\ fresh' = fresh \ {t} /\ suspended' = suspended
    <3> WITNESS "fresh" \in {"fresh", "suspended"}
    <3> QED BY <2>2
  <2>3. CASE t \in suspended /\ suspended' = suspended \ {t} /\ fresh' = fresh
    <3> WITNESS "suspended" \in {"fresh", "suspended"}
    <3> QED BY <2>3
  <2> QED BY <2>1, <2>2, <2>3
<1>7. IsAt(t, from, NoTask)
  BY <1>6 DEF IsAt
<1>8. ASSUME NEW u \in Tasks, NEW k \in Kinds, NEW x \in Keepers
      PROVE  IsAt(u, k, x)' <=> \/ IsAt(u, k, x) /\ ~(u = t /\ k = from /\ x = NoTask)
                                \/ u = t /\ k = "script" /\ x = c
  <2>1. CASE k = "script"
    BY <1>4, <2>1 DEF IsAt
  <2>2. CASE k \in {"fresh", "suspended"}
    BY <1>6, <2>2 DEF IsAt
  <2>3. CASE k \notin {"script", "fresh", "suspended"}
    BY <1>5, <1>6, <2>3 DEF IsAt
  <2> QED BY <2>1, <2>2, <2>3
<1>9. Moves(t, from, NoTask, "script", c)
  BY <1>7, <1>8 DEF Moves
<1>10. from \in Kinds /\ "script" \in Kinds /\ NoTask \in Keepers /\ c \in Keepers
  BY <1>4 DEF Kinds, Keepers
<1>11. PlaceInv'
  BY <1>9, <1>10, MovedPlace DEF IInv
<1> QED BY <1>3, <1>11 DEF IInv

=============================================================================
