-------------------------- MODULE NodeEvents_proofs --------------------------
(***************************************************************************)
(* Proofs about NodeEvents for any numbers of nodes, threads and calls and *)
(* any capacity.  The mailbox changes by taking events out of it and by    *)
(* appending one: Thins says that a queue is another one without some of   *)
(* its events, in their order.  The events of one thread are in order      *)
(* because what it is about to push was numbered after all it has pushed,  *)
(* or is the very event it pushed last (Held).  Reliable events are        *)
(* followed through a step by a bijection of their places (SameReliable).  *)
(***************************************************************************)
EXTENDS NodeEvents, FiniteSetTheorems, WellFoundedInduction, SequenceTheorems, TLAPS

Steps == Kinds \cup {"bump", "again"}

Origins == {"sequencer", "runtime"}

(* What is emitted again has been numbered just before.                     *)
AgainFollows(todo) ==
  \A k \in 2 .. Len(todo) : todo[k] = "again" => todo[k - 1] \in Kinds

(* The event of the thread is numbered, and not yet out of its hands.       *)
Holds(t) ==
  \/ pc[t] \in {"dispatch", "mark", "notify"}
  \/ pc[t] = "number" /\ job[t].todo[1] = "again"

TypeInv ==
  /\ sequence \in [Nodes -> Nat] /\ route \in [Nodes -> Nat]
  /\ queue \in Seq(Event) /\ batch \in Seq(Event) /\ Len(batch) <= Budget
  /\ pending \in BOOLEAN /\ permit \in BOOLEAN /\ more \in BOOLEAN
  /\ pc \in [Threads -> {"free", "number", "dispatch", "mark", "notify"}]
  /\ job \in [Threads -> [origin : Origins, node : Nodes \cup {None}, todo : Seq(Steps)]]
  /\ ready \in [Threads -> Event \cup {None}]
  /\ ui \in {"waiting", "woken", "draining", "reducing"}
  /\ seen \in [Nodes -> Nat]
  /\ calls \in 0 .. MaxCalls

JobInv ==
  \A t \in Threads :
    /\ pc[t] # "free" =>
         /\ job[t].todo # << >> /\ job[t].node \in Nodes
         /\ AgainFollows(job[t].todo)
    /\ Holds(t) => ready[t] \in Event

(* The counter an event was numbered with, when the two stand at s and r.   *)
Counter(s, r, e) == IF e.origin = "sequencer" THEN s[e.node] ELSE r[e.node]

SameSource(e, f) == e.node = f.node /\ e.origin = f.origin /\ e.by = f.by

(* The generations of the mailbox, and of what a thread holds, are out.     *)
Counted ==
  /\ \A i \in 1 .. Len(queue) : queue[i].gen <= Counter(sequence, route, queue[i])
  /\ \A t \in Threads : Holds(t) =>
       ready[t].by = t /\ ready[t].gen <= Counter(sequence, route, ready[t])

(* What a thread holds is newer than its events in the mailbox, or is one   *)
(* of them.                                                                 *)
Held ==
  \A t \in Threads : Holds(t) =>
    \A i \in 1 .. Len(queue) :
      SameSource(queue[i], ready[t]) => queue[i] = ready[t] \/ queue[i].gen < ready[t].gen

Inv ==
  TypeInv /\ JobInv /\ Counted /\ Held /\ LevelOnce /\ OverflowIsReliable /\ GenerationsOrdered

-----------------------------------------------------------------------------
(* Queues.                                                                  *)

LEMMA GreatestExists ==
  ASSUME NEW S \in SUBSET Nat, IsFiniteSet(S), S # {}
  PROVE  \E m \in S : \A x \in S : x <= m
<1>. DEFINE Above(s) == {x \in S : s <= x}
            T == {Above(s) : s \in S}
<1>1. IsWellFoundedOn(StrictSubsetOrdering(S), SUBSET S)
  BY FS_StrictSubsetOrderingWellFounded, FS_FiniteSubsetsOfFinite
<1>2. T \subseteq SUBSET S /\ T # {}
  OBVIOUS
<1>3. PICK U \in T : \A V \in T : <<V, U>> \notin StrictSubsetOrdering(S)
  <2>. HIDE DEF T
  <2>. QED BY <1>1, <1>2, WFMin
<1>4. PICK m \in S : U = Above(m)
  BY <1>3
<1>5. ASSUME NEW x \in S, m < x PROVE FALSE
  <2>1. Above(x) \in T
    OBVIOUS
  <2>2. Above(x) \subseteq Above(m) /\ m \in Above(m) /\ m \notin Above(x)
    <3>1. \A y \in S : y \in Nat
      OBVIOUS
    <3>2. \A y \in S : x <= y => m <= y
      BY <1>5, <3>1
    <3>3. m <= m /\ ~(x <= m)
      BY <1>5, <3>1
    <3>. QED BY <3>2, <3>3
  <2>3. <<Above(x), Above(m)>> \in StrictSubsetOrdering(S)
    BY <2>2 DEF StrictSubsetOrdering
  <2>. QED BY <1>3, <1>4, <2>1, <2>3
<1>. QED BY <1>5

LEMMA LeastExists ==
  ASSUME NEW S \in SUBSET Nat, IsFiniteSet(S), S # {}
  PROVE  \E m \in S : \A x \in S : m <= x
<1>1. PICK top \in S : \A x \in S : x <= top
  BY GreatestExists
<1>. DEFINE f == [x \in S |-> top - x]
            T == {f[x] : x \in S}
<1>2. T \in SUBSET Nat
  <2>1. \A x \in S : x \in Nat /\ top \in Nat /\ x <= top
    BY <1>1
  <2>2. \A x \in S : top - x \in Nat
    BY <2>1
  <2>. QED BY <2>2
<1>3. f \in Surjection(S, T)
  BY DEF Surjection
<1>4. IsFiniteSet(T)
  <2>. HIDE DEF f, T
  <2>. QED BY <1>3, FS_Surjection
<1>5. T # {}
  OBVIOUS
<1>6. PICK m \in T : \A y \in T : y <= m
  <2>. HIDE DEF T
  <2>. QED BY <1>2, <1>4, <1>5, GreatestExists
<1>7. PICK x \in S : m = top - x
  BY <1>6
<1>8. ASSUME NEW y \in S PROVE x <= y
  <2>1. top - y <= top - x
    BY <1>6, <1>7
  <2>. QED BY <1>1, <2>1
<1>. QED BY <1>8

(* p is q without some of its elements; f says where an element comes from. *)
ThinsBy(p, q, f) ==
  /\ f \in [1 .. Len(p) -> 1 .. Len(q)]
  /\ \A i \in 1 .. Len(p) : p[i] = q[f[i]]
  /\ \A i, j \in 1 .. Len(p) : i < j => f[i] < f[j]

Thins(p, q) ==
  /\ p \in Seq(Event) /\ Len(p) <= Len(q)
  /\ \E f : ThinsBy(p, q, f)

LEMMA ThinsItself ==
  ASSUME NEW q \in Seq(Event)
  PROVE  Thins(q, q)
<1>1. ThinsBy(q, q, [i \in 1 .. Len(q) |-> i])
  BY DEF ThinsBy
<1>. QED BY <1>1 DEF Thins

LEMMA ThinsTransitive ==
  ASSUME NEW p, NEW q, NEW r \in Seq(Event), Thins(p, q), Thins(q, r)
  PROVE  Thins(p, r)
<1>1. p \in Seq(Event) /\ q \in Seq(Event) /\ Len(p) <= Len(q) /\ Len(q) <= Len(r)
  BY DEF Thins
<1>2. PICK f : ThinsBy(p, q, f)
  BY DEF Thins
<1>3. PICK g : ThinsBy(q, r, g)
  BY DEF Thins
<1>. DEFINE h == [i \in 1 .. Len(p) |-> g[f[i]]]
<1>4. \A i \in 1 .. Len(p) : f[i] \in 1 .. Len(q) /\ h[i] = g[f[i]] /\ g[f[i]] \in 1 .. Len(r)
  BY <1>2, <1>3 DEF ThinsBy
<1>5. h \in [1 .. Len(p) -> 1 .. Len(r)]
  BY <1>4
<1>. HIDE DEF h
<1>6. \A i \in 1 .. Len(p) : p[i] = r[h[i]]
  BY <1>2, <1>3, <1>4 DEF ThinsBy
<1>7. \A i, j \in 1 .. Len(p) : i < j => h[i] < h[j]
  BY <1>2, <1>3, <1>4 DEF ThinsBy
<1>8. ThinsBy(p, r, h)
  BY <1>5, <1>6, <1>7 DEF ThinsBy
<1>9. Len(p) <= Len(r)
  BY <1>1
<1>. QED BY <1>1, <1>8, <1>9 DEF Thins

LEMMA ThinsApart ==
  ASSUME NEW p, NEW q \in Seq(Event), NEW f, p \in Seq(Event), ThinsBy(p, q, f)
  PROVE  \A i, j \in 1 .. Len(p) : f[i] = f[j] => i = j
<1>. SUFFICES ASSUME NEW i \in 1 .. Len(p), NEW j \in 1 .. Len(p), f[i] = f[j], i # j
              PROVE  FALSE
  OBVIOUS
<1>1. f[i] \in 1 .. Len(q) /\ f[j] \in 1 .. Len(q)
  BY DEF ThinsBy
<1>2. i < j \/ j < i
  OBVIOUS
<1>. QED BY <1>1, <1>2 DEF ThinsBy

LEMMA RemoveAtThins ==
  ASSUME NEW q \in Seq(Event), NEW k \in 1 .. Len(q)
  PROVE  /\ Thins(RemoveAt(q, k), q) /\ Len(RemoveAt(q, k)) = Len(q) - 1
         /\ \A i \in 1 .. Len(q) - 1 : RemoveAt(q, k)[i] = q[IF i < k THEN i ELSE i + 1]
<1>. DEFINE a == SubSeq(q, 1, k - 1)
            b == SubSeq(q, k + 1, Len(q))
<1>0. Len(q) \in Nat /\ \A i \in 1 .. Len(q) : q[i] \in Event
  OBVIOUS
<1>1. /\ a \in Seq(Event) /\ Len(a) = k - 1
      /\ \A i \in 1 .. k - 1 : a[i] = q[i]
  <2>1. 1 \in Int /\ k - 1 \in Int /\ \A i \in 1 .. k - 1 : q[i] \in Event
    BY <1>0
  <2>2. /\ a \in Seq(Event) /\ Len(a) = IF 1 <= k - 1 THEN k - 1 - 1 + 1 ELSE 0
        /\ \A i \in 1 .. k - 1 - 1 + 1 : a[i] = q[1 + i - 1]
    BY <2>1, SubSeqProperties
  <2>. QED BY <2>2
<1>2. /\ b \in Seq(Event) /\ Len(b) = Len(q) - k
      /\ \A i \in 1 .. Len(q) - k : b[i] = q[k + i]
  <2>1. k + 1 \in Int /\ Len(q) \in Int /\ \A i \in k + 1 .. Len(q) : q[i] \in Event
    BY <1>0
  <2>2. /\ b \in Seq(Event) /\ Len(b) = IF k + 1 <= Len(q) THEN Len(q) - (k + 1) + 1 ELSE 0
        /\ \A i \in 1 .. Len(q) - (k + 1) + 1 : b[i] = q[k + 1 + i - 1]
    BY <2>1, SubSeqProperties
  <2>. QED BY <1>0, <2>2
<1>. DEFINE p == a \o b
<1>3. RemoveAt(q, k) = p
  BY DEF RemoveAt
<1>. HIDE DEF a, b
<1>4. /\ p \in Seq(Event) /\ Len(p) = Len(q) - 1
      /\ \A i \in 1 .. Len(q) - 1 : p[i] = IF i <= k - 1 THEN a[i] ELSE b[i - (k - 1)]
  <2>1. /\ Len(a) + Len(b) = Len(q) - 1 /\ Len(a) = k - 1 /\ Len(b) = Len(q) - k
        /\ a \in Seq(Event) /\ b \in Seq(Event)
    BY <1>0, <1>1, <1>2
  <2>2. /\ p \in Seq(Event) /\ Len(p) = Len(a) + Len(b)
        /\ \A i \in 1 .. Len(a) + Len(b) : p[i] = IF i <= Len(a) THEN a[i] ELSE b[i - Len(a)]
    BY <2>1, ConcatProperties
  <2>. QED BY <2>1, <2>2
<1>. HIDE DEF p
<1>5. \A i \in 1 .. Len(q) - 1 : p[i] = q[IF i < k THEN i ELSE i + 1]
  <2>. SUFFICES ASSUME NEW i \in 1 .. Len(q) - 1 PROVE p[i] = q[IF i < k THEN i ELSE i + 1]
    OBVIOUS
  <2>1. CASE i < k
    BY <1>0, <1>1, <1>4, <2>1
  <2>2. CASE ~(i < k)
    <3>1. i - (k - 1) \in 1 .. Len(q) - k /\ k + (i - (k - 1)) = i + 1
      BY <1>0, <2>2
    <3>2. b[i - (k - 1)] = q[k + (i - (k - 1))]
      BY <1>2, <3>1
    <3>. QED BY <1>0, <1>4, <2>2, <3>1, <3>2
  <2>. QED BY <2>1, <2>2
<1>. DEFINE f == [i \in 1 .. Len(p) |-> IF i < k THEN i ELSE i + 1]
<1>6. ThinsBy(p, q, f)
  <2>1. f \in [1 .. Len(p) -> 1 .. Len(q)]
    BY <1>0, <1>4
  <2>2. \A i \in 1 .. Len(p) : p[i] = q[f[i]]
    BY <1>4, <1>5
  <2>3. \A i, j \in 1 .. Len(p) : i < j => f[i] < f[j]
    BY <1>0, <1>4
  <2>. QED BY <2>1, <2>2, <2>3 DEF ThinsBy
<1>. HIDE DEF f
<1>7. Len(p) <= Len(q) /\ Thins(p, q)
  BY <1>0, <1>4, <1>6 DEF Thins
<1>. QED BY <1>3, <1>4, <1>5, <1>7

LEMMA TailThins ==
  ASSUME NEW q \in Seq(Event), q # << >>
  PROVE  Thins(Tail(q), q) /\ Head(q) \in Event
<1>1. /\ Tail(q) \in Seq(Event) /\ Len(Tail(q)) = Len(q) - 1 /\ Head(q) \in Event
      /\ \A i \in 1 .. Len(Tail(q)) : Tail(q)[i] = q[i + 1]
  BY HeadTailProperties
<1>2. ThinsBy(Tail(q), q, [i \in 1 .. Len(Tail(q)) |-> i + 1])
  BY <1>1 DEF ThinsBy
<1>. QED BY <1>1, <1>2 DEF Thins

(* Looking for the first event of a kind.                                   *)
LEMMA FirstLevel ==
  ASSUME NEW q \in Seq(Event), NEW k, k = SelectInSeq(q, Level)
  PROVE  \/ k = 0 /\ \A i \in 1 .. Len(q) : ~Level(q[i])
         \/ k \in 1 .. Len(q) /\ Level(q[k])
<1>. DEFINE I == {i \in 1 .. Len(q) : Level(q[i])}
<1>1. k = IF I # {} THEN Min(I) ELSE 0
  BY Zenon DEF SelectInSeq
<1>2. I \in SUBSET Nat /\ IsFiniteSet(I)
  <2>1. I \subseteq 1 .. Len(q)
    OBVIOUS
  <2>2. 1 \in Int /\ Len(q) \in Int
    OBVIOUS
  <2>. HIDE DEF I
  <2>3. IsFiniteSet(1 .. Len(q))
    BY <2>2, FS_Interval, Zenon
  <2>4. IsFiniteSet(I)
    BY <2>1, <2>3, FS_Subset
  <2>5. I \in SUBSET Nat
    BY <2>1, <2>2
  <2>. QED BY <2>4, <2>5
<1>3. CASE I = {}
  BY <1>1, <1>3
<1>4. CASE I # {}
  <2>1. \E m \in I : \A x \in I : m <= x
    <3>. HIDE DEF I
    <3>. QED BY <1>2, <1>4, LeastExists
  <2>2. Min(I) \in I
    <3>. HIDE DEF I
    <3>. QED BY <2>1 DEF Min
  <2>. QED BY <1>1, <1>4, <2>2
<1>. QED BY <1>3, <1>4

LEMMA FirstSameKey ==
  ASSUME NEW q \in Seq(Event), NEW e, NEW k, k = SelectInSeq(q, LAMBDA x : SameKey(x, e))
  PROVE  \/ k = 0 /\ \A i \in 1 .. Len(q) : ~SameKey(q[i], e)
         \/ k \in 1 .. Len(q) /\ SameKey(q[k], e)
<1>. DEFINE I == {i \in 1 .. Len(q) : SameKey(q[i], e)}
<1>1. k = IF I # {} THEN Min(I) ELSE 0
  BY Zenon DEF SelectInSeq
<1>2. I \in SUBSET Nat /\ IsFiniteSet(I)
  <2>1. I \subseteq 1 .. Len(q)
    OBVIOUS
  <2>2. 1 \in Int /\ Len(q) \in Int
    OBVIOUS
  <2>. HIDE DEF I
  <2>3. IsFiniteSet(1 .. Len(q))
    BY <2>2, FS_Interval, Zenon
  <2>4. IsFiniteSet(I)
    BY <2>1, <2>3, FS_Subset
  <2>5. I \in SUBSET Nat
    BY <2>1, <2>2
  <2>. QED BY <2>4, <2>5
<1>3. CASE I = {}
  BY <1>1, <1>3
<1>4. CASE I # {}
  <2>1. \E m \in I : \A x \in I : m <= x
    <3>. HIDE DEF I
    <3>. QED BY <1>2, <1>4, LeastExists
  <2>2. Min(I) \in I
    <3>. HIDE DEF I
    <3>. QED BY <2>1 DEF Min
  <2>. QED BY <1>1, <1>4, <2>2
<1>. QED BY <1>3, <1>4

LevelOnceOf(q) == \A i, j \in 1 .. Len(q) : SameKey(q[i], q[j]) => i = j

OverflowOf(q) ==
  Len(q) > Capacity => \A i, j \in 1 .. Len(q) : Level(q[i]) /\ Level(q[j]) => i = j

OrderedOf(q) ==
  \A i, j \in 1 .. Len(q) : i < j /\ SameSource(q[i], q[j]) => q[i].gen < q[j].gen

Orderly(q) == LevelOnceOf(q) /\ OverflowOf(q) /\ OrderedOf(q)

LEMMA QueueProperties ==
  ASSUME queue \in Seq(Event)
  PROVE  LevelOnce /\ OverflowIsReliable /\ GenerationsOrdered <=> Orderly(queue)
<1>1. DOMAIN queue = 1 .. Len(queue)
  OBVIOUS
<1>. QED BY <1>1 DEF LevelOnce, LevelOnceOf, OverflowIsReliable, OverflowOf,
                     GenerationsOrdered, OrderedOf, SameSource, Orderly

LEMMA QueuePropertiesNext ==
  ASSUME queue' \in Seq(Event)
  PROVE  (LevelOnce /\ OverflowIsReliable /\ GenerationsOrdered)' <=> Orderly(queue')
<1>1. DOMAIN queue' = 1 .. Len(queue')
  OBVIOUS
<1>. QED BY <1>1 DEF LevelOnce, LevelOnceOf, OverflowIsReliable, OverflowOf,
                     GenerationsOrdered, OrderedOf, SameSource, Orderly

LEMMA ThinsOrderly ==
  ASSUME NEW p, NEW q \in Seq(Event), Thins(p, q), Orderly(q)
  PROVE  Orderly(p)
<1>1. p \in Seq(Event) /\ Len(p) <= Len(q) /\ Len(p) \in Nat /\ Len(q) \in Nat
  BY DEF Thins
<1>2. PICK f : ThinsBy(p, q, f)
  BY DEF Thins
<1>3. \A i \in 1 .. Len(p) : f[i] \in 1 .. Len(q) /\ p[i] = q[f[i]]
  BY <1>2 DEF ThinsBy
<1>4. \A i, j \in 1 .. Len(p) : f[i] = f[j] => i = j
  BY <1>1, <1>2, ThinsApart
<1>5. \A i, j \in 1 .. Len(p) : i < j => f[i] < f[j]
  BY <1>2 DEF ThinsBy
<1>6. LevelOnceOf(p)
  BY <1>3, <1>4 DEF Orderly, LevelOnceOf
<1>7. OverflowOf(p)
  <2>. SUFFICES ASSUME Len(p) > Capacity, NEW i \in 1 .. Len(p), NEW j \in 1 .. Len(p),
                       Level(p[i]), Level(p[j])
                PROVE  i = j
    BY DEF OverflowOf
  <2>1. Len(q) > Capacity
    BY <1>1, NodeEventsAssumption
  <2>2. f[i] = f[j]
    BY <1>3, <2>1 DEF Orderly, OverflowOf
  <2>. QED BY <1>4, <2>2
<1>8. OrderedOf(p)
  BY <1>3, <1>5 DEF Orderly, OrderedOf
<1>. QED BY <1>6, <1>7, <1>8 DEF Orderly

LEMMA RemovedIsGone ==
  ASSUME NEW q \in Seq(Event), NEW k \in 1 .. Len(q), NEW i \in 1 .. Len(RemoveAt(q, k))
  PROVE  \E j \in 1 .. Len(q) : j # k /\ RemoveAt(q, k)[i] = q[j]
<1>1. i \in 1 .. Len(q) - 1 /\ RemoveAt(q, k)[i] = q[IF i < k THEN i ELSE i + 1]
  BY RemoveAtThins
<1>2. (IF i < k THEN i ELSE i + 1) \in 1 .. Len(q) /\ (IF i < k THEN i ELSE i + 1) # k
  BY <1>1
<1>. QED BY <1>1, <1>2

LEMMA CoalescedSteps ==
  ASSUME NEW q \in Seq(Event), NEW e \in Event, Orderly(q), NEW c, c = Coalesced(q, e)
  PROVE  /\ Thins(c, q)
         /\ \A i \in 1 .. Len(c) : ~SameKey(c[i], e)
         /\ \/ c = q
            \/ /\ Len(c) = Len(q) - 1
               /\ Len(q) > Capacity => \A i \in 1 .. Len(c) : ~Level(c[i])
<1>. DEFINE k == SelectInSeq(q, LAMBDA x : SameKey(x, e))
<1>1. c = IF k = 0 THEN q ELSE RemoveAt(q, k)
  BY DEF Coalesced
<1>2. \/ k = 0 /\ \A i \in 1 .. Len(q) : ~SameKey(q[i], e)
      \/ k \in 1 .. Len(q) /\ SameKey(q[k], e)
  BY FirstSameKey
<1>. HIDE DEF k
<1>3. CASE k = 0
  BY <1>1, <1>2, <1>3, ThinsItself
<1>4. CASE k \in 1 .. Len(q) /\ SameKey(q[k], e)
  <2>1. c = RemoveAt(q, k)
    BY <1>1, <1>4
  <2>2. Thins(c, q) /\ Len(c) = Len(q) - 1
    BY <1>4, <2>1, RemoveAtThins
  <2>3. \A i \in 1 .. Len(c) : \E j \in 1 .. Len(q) : j # k /\ c[i] = q[j]
    BY <1>4, <2>1, RemovedIsGone
  <2>4. \A j \in 1 .. Len(q) : SameKey(q[j], e) => j = k
    <3>1. \A j \in 1 .. Len(q) : SameKey(q[j], e) => SameKey(q[j], q[k])
      BY <1>4 DEF SameKey
    <3>. QED BY <1>4, <3>1 DEF Orderly, LevelOnceOf
  <2>5. Level(q[k])
    BY <1>4 DEF SameKey
  <2>6. \A i \in 1 .. Len(c) : ~SameKey(c[i], e)
    BY <2>3, <2>4
  <2>7. Len(q) > Capacity => \A i \in 1 .. Len(c) : ~Level(c[i])
    BY <1>4, <2>3, <2>5 DEF Orderly, OverflowOf
  <2>. QED BY <2>2, <2>6, <2>7
<1>. QED BY <1>2, <1>3, <1>4

(* A push leaves a queue in which the event has its place.                  *)
LEMMA EvictedSteps ==
  ASSUME NEW q \in Seq(Event), NEW e \in Event, Orderly(q),
         NEW p, p = Evicted(Coalesced(q, e))
  PROVE  /\ Thins(p, q)
         /\ \A i \in 1 .. Len(p) : ~SameKey(p[i], e)
         /\ Len(p) + 1 > Capacity => \A i \in 1 .. Len(p) : ~Level(p[i])
<1>. DEFINE c == Coalesced(q, e)
            k == SelectInSeq(c, Level)
<1>1. /\ Thins(c, q)
      /\ \A i \in 1 .. Len(c) : ~SameKey(c[i], e)
      /\ \/ c = q
         \/ /\ Len(c) = Len(q) - 1
            /\ Len(q) > Capacity => \A i \in 1 .. Len(c) : ~Level(c[i])
  BY CoalescedSteps
<1>2. p = IF Len(c) >= Capacity /\ k # 0 THEN RemoveAt(c, k) ELSE c
  BY DEF Evicted
<1>. HIDE DEF c
<1>3. c \in Seq(Event) /\ Len(c) \in Nat /\ Len(q) \in Nat /\ Capacity \in Nat \ {0}
  BY <1>1, NodeEventsAssumption DEF Thins
<1>4. \/ k = 0 /\ \A i \in 1 .. Len(c) : ~Level(c[i])
      \/ k \in 1 .. Len(c) /\ Level(c[k])
  BY <1>3, FirstLevel
<1>. HIDE DEF k
<1>5. Orderly(c)
  BY <1>1, ThinsOrderly
<1>6. CASE p = c
  <2>1. Len(p) + 1 > Capacity => \A i \in 1 .. Len(p) : ~Level(p[i])
    <3>. SUFFICES ASSUME Len(c) + 1 > Capacity PROVE \A i \in 1 .. Len(c) : ~Level(c[i])
      BY <1>6
    <3>1. Len(c) >= Capacity
      BY <1>3
    <3>2. CASE k = 0
      BY <1>3, <1>4, <3>2
    <3>3. CASE k # 0
      <4>1. c = RemoveAt(c, k)
        BY <1>2, <1>6, <3>1, <3>3
      <4>2. Len(c) = Len(c) - 1
        BY <1>3, <1>4, <3>3, <4>1, RemoveAtThins
      <4>. QED BY <1>3, <4>2
    <3>. QED BY <3>2, <3>3
  <2>. QED BY <1>1, <1>6, <2>1
<1>7. CASE Len(c) >= Capacity /\ k # 0
  <2>1. p = RemoveAt(c, k) /\ k \in 1 .. Len(c) /\ Level(c[k])
    BY <1>2, <1>4, <1>7
  <2>2. Thins(p, c) /\ Len(p) = Len(c) - 1
    BY <1>3, <2>1, RemoveAtThins
  <2>3. \A i \in 1 .. Len(p) : \E j \in 1 .. Len(c) : j # k /\ p[i] = c[j]
    BY <1>3, <2>1, RemovedIsGone
  <2>4. Thins(p, q)
    BY <1>1, <2>2, ThinsTransitive
  <2>5. \A i \in 1 .. Len(p) : ~SameKey(p[i], e)
    BY <1>1, <2>3
  <2>6. ASSUME Len(p) + 1 > Capacity PROVE \A i \in 1 .. Len(p) : ~Level(p[i])
    <3>1. Len(c) > Capacity
      BY <1>3, <2>2, <2>6
    <3>. QED BY <1>5, <2>1, <2>3, <3>1 DEF Orderly, OverflowOf
  <2>. QED BY <2>4, <2>5, <2>6
<1>. QED BY <1>2, <1>6, <1>7

LEMMA AppendOrderly ==
  ASSUME NEW p \in Seq(Event), NEW e \in Event, Orderly(p),
         \A i \in 1 .. Len(p) : ~SameKey(p[i], e),
         Len(p) + 1 > Capacity => \A i \in 1 .. Len(p) : ~Level(p[i]),
         \A i \in 1 .. Len(p) : SameSource(p[i], e) => p[i].gen < e.gen
  PROVE  Orderly(Append(p, e))
<1>. DEFINE n == Append(p, e)
<1>1. /\ n \in Seq(Event) /\ Len(n) = Len(p) + 1 /\ Len(p) \in Nat
      /\ \A i \in 1 .. Len(p) : n[i] = p[i]
      /\ n[Len(p) + 1] = e
  BY AppendProperties
<1>. HIDE DEF n
<1>2. \A i \in 1 .. Len(n) : i \in 1 .. Len(p) \/ i = Len(p) + 1
  BY <1>1
<1>3. LevelOnceOf(n)
  <2>. SUFFICES ASSUME NEW i \in 1 .. Len(n), NEW j \in 1 .. Len(n), SameKey(n[i], n[j])
                PROVE  i = j
    BY DEF LevelOnceOf
  <2>1. SameKey(n[j], n[i])
    BY DEF SameKey
  <2>2. CASE i \in 1 .. Len(p) /\ j \in 1 .. Len(p)
    BY <1>1, <2>2 DEF Orderly, LevelOnceOf
  <2>3. CASE i = Len(p) + 1 /\ j = Len(p) + 1
    BY <2>3
  <2>4. CASE i \in 1 .. Len(p) /\ j = Len(p) + 1
    BY <1>1, <2>4
  <2>5. CASE i = Len(p) + 1 /\ j \in 1 .. Len(p)
    BY <1>1, <2>1, <2>5
  <2>. QED BY <1>2, <2>2, <2>3, <2>4, <2>5
<1>4. OverflowOf(n)
  <2>. SUFFICES ASSUME Len(n) > Capacity, NEW i \in 1 .. Len(n), NEW j \in 1 .. Len(n),
                       Level(n[i]), Level(n[j])
                PROVE  i = j
    BY DEF OverflowOf
  <2>1. \A k \in 1 .. Len(p) : ~Level(n[k])
    BY <1>1
  <2>. QED BY <1>2, <2>1
<1>5. OrderedOf(n)
  <2>. SUFFICES ASSUME NEW i \in 1 .. Len(n), NEW j \in 1 .. Len(n), i < j,
                       SameSource(n[i], n[j])
                PROVE  n[i].gen < n[j].gen
    BY DEF OrderedOf
  <2>1. i \in 1 .. Len(p)
    BY <1>1
  <2>2. CASE j \in 1 .. Len(p)
    BY <1>1, <2>1, <2>2 DEF Orderly, OrderedOf
  <2>3. CASE j = Len(p) + 1
    BY <1>1, <2>1, <2>3
  <2>. QED BY <1>2, <2>2, <2>3
<1>. QED BY <1>3, <1>4, <1>5 DEF Orderly, n

-----------------------------------------------------------------------------
(* The threads.                                                             *)

Todo(todo) ==
  todo \in Seq(Steps) /\ todo # << >> /\ todo[1] # "again" /\ AgainFollows(todo)

LEMMA ShortTodo ==
  /\ \A a \in Kinds \cup {"bump"} : Todo(<<a>>)
  /\ \A a, b \in Kinds \cup {"bump"} : Todo(<<a, b>>)
  /\ Todo(<<"bump", "lost", "again">>)
  /\ \A a, b, c, d \in Kinds \cup {"bump"} : Todo(<<a, b, c, d>>)
<1>. DEFINE First == Kinds \cup {"bump"}
<1>0. First \subseteq Steps /\ "again" \notin First
  BY DEF Steps, Kinds
<1>. HIDE DEF First
<1>1. ASSUME NEW a \in First PROVE Todo(<<a>>)
  BY <1>0 DEF Todo, AgainFollows
<1>2. ASSUME NEW a \in First, NEW b \in First PROVE Todo(<<a, b>>)
  BY <1>0 DEF Todo, AgainFollows
<1>3. Todo(<<"bump", "lost", "again">>)
  BY DEF Todo, AgainFollows, Steps, Kinds
<1>4. ASSUME NEW a \in First, NEW b \in First, NEW c \in First, NEW d \in First
      PROVE  Todo(<<a, b, c, d>>)
  BY <1>0 DEF Todo, AgainFollows
<1>. QED BY <1>1, <1>2, <1>3, <1>4 DEF First

LEMMA ScriptSteps ==
  ASSUME NEW p \in DOMAIN Script
  PROVE  Script[p].origin \in Origins /\ Todo(Script[p].todo)
<1>1. p \in {"mark", "markLost", "idle", "bind", "grace", "disconnect", "acquire", "recover",
             "reuse", "failure"}
  BY DEF Script
<1>2. /\ Script[p].origin \in Origins
      /\ \/ p = "mark" /\ Script[p].todo = <<"state">>
         \/ p \in {"markLost", "failure"} /\ Script[p].todo = <<"lost">>
         \/ p \in {"idle", "disconnect"} /\ Script[p].todo = <<"sftp", "lost">>
         \/ p = "bind" /\ Script[p].todo = <<"bump", "state">>
         \/ p = "grace" /\ Script[p].todo = <<"bump", "lost", "again">>
         \/ p = "acquire" /\ Script[p].todo = <<"sftp", "owner">>
         \/ p = "recover" /\ Script[p].todo = <<"sftp", "owner", "sftp", "owner">>
         \/ p = "reuse" /\ Script[p].todo = <<"bump">>
  BY <1>1 DEF Script, Origins
<1>3. {"state", "lost", "sftp", "owner", "bump"} \subseteq Kinds \cup {"bump"}
  BY DEF Kinds
<1>. QED BY <1>2, <1>3, ShortTodo

(* The thread goes on: it keeps its event if that is to be emitted again.   *)
LEMMA ProceedSteps ==
  ASSUME TypeInv, JobInv, NEW t \in Threads, pc[t] # "free", Proceed(t)
  PROVE  /\ pc' \in [Threads -> {"free", "number", "dispatch", "mark", "notify"}]
         /\ job' \in [Threads -> [origin : Origins, node : Nodes \cup {None}, todo : Seq(Steps)]]
         /\ \A s \in Threads \ {t} : pc'[s] = pc[s] /\ job'[s] = job[s]
         /\ pc'[t] \in {"free", "number"}
         /\ pc'[t] # "free" => /\ job'[t].todo # << >> /\ job'[t].node \in Nodes
                               /\ AgainFollows(job'[t].todo)
         /\ Holds(t)' => Head(job[t].todo) \in Kinds
<1>. DEFINE todo == job[t].todo
<1>1. /\ pc \in [Threads -> {"free", "number", "dispatch", "mark", "notify"}]
      /\ job \in [Threads -> [origin : Origins, node : Nodes \cup {None}, todo : Seq(Steps)]]
  BY DEF TypeInv
<1>2. todo \in Seq(Steps) /\ todo # << >> /\ job[t].node \in Nodes /\ AgainFollows(todo)
  BY <1>1 DEF JobInv
<1>3. /\ Tail(todo) \in Seq(Steps) /\ Len(Tail(todo)) = Len(todo) - 1
      /\ \A i \in 1 .. Len(Tail(todo)) : Tail(todo)[i] = todo[i + 1]
      /\ Head(todo) = todo[1] /\ Len(todo) \in Nat \ {0}
  BY <1>2, HeadTailProperties
<1>4. /\ job' = [job EXCEPT ![t].todo = Tail(@)]
      /\ pc' = [pc EXCEPT ![t] = IF Len(todo) = 1 THEN "free" ELSE "number"]
  BY DEF Proceed
<1>5. /\ job'[t].todo = Tail(todo) /\ job'[t].node = job[t].node
      /\ job' \in [Threads -> [origin : Origins, node : Nodes \cup {None}, todo : Seq(Steps)]]
      /\ \A s \in Threads \ {t} : job'[s] = job[s]
  BY <1>1, <1>3, <1>4
<1>6. /\ pc'[t] = IF Len(todo) = 1 THEN "free" ELSE "number"
      /\ pc' \in [Threads -> {"free", "number", "dispatch", "mark", "notify"}]
      /\ \A s \in Threads \ {t} : pc'[s] = pc[s]
  BY <1>1, <1>4
<1>. HIDE DEF todo
<1>7. AgainFollows(Tail(todo))
  BY <1>2, <1>3 DEF AgainFollows
<1>8. Len(todo) # 1 => Tail(todo) # << >>
  <2>1. Len(<< >>) = 0
    OBVIOUS
  <2>2. Len(todo) # 1 => Len(Tail(todo)) # 0
    BY <1>3
  <2>. QED BY <2>1, <2>2
<1>9. Holds(t)' => Head(todo) \in Kinds
  <2>. SUFFICES ASSUME Holds(t)' PROVE Head(todo) \in Kinds
    OBVIOUS
  <2>1. pc'[t] = "number" /\ Len(todo) # 1 /\ Tail(todo)[1] = "again"
    BY <1>5, <1>6 DEF Holds
  <2>2. Tail(todo)[1] = todo[2] /\ 2 \in 2 .. Len(todo)
    BY <1>3, <2>1
  <2>3. todo[2 - 1] \in Kinds
    BY <1>2, <2>1, <2>2 DEF AgainFollows
  <2>. QED BY <1>3, <2>3
<1>. QED BY <1>2, <1>5, <1>6, <1>7, <1>8, <1>9 DEF todo

LEMMA ThreadKeeps ==
  ASSUME JobInv, NEW s \in Threads, pc'[s] = pc[s], job'[s] = job[s], ready'[s] = ready[s]
  PROVE  /\ pc'[s] # "free" => /\ job'[s].todo # << >> /\ job'[s].node \in Nodes
                               /\ AgainFollows(job'[s].todo)
         /\ Holds(s)' <=> Holds(s)
         /\ Holds(s)' => ready'[s] \in Event
  BY DEF JobInv, Holds

Grows ==
  /\ sequence' \in [Nodes -> Nat] /\ route' \in [Nodes -> Nat]
  /\ \A n \in Nodes : sequence[n] <= sequence'[n] /\ route[n] <= route'[n]

LEMMA CounterGrows ==
  ASSUME TypeInv, Grows, NEW e \in Event, e.gen <= Counter(sequence, route, e)
  PROVE  e.gen <= Counter(sequence', route', e)
<1>1. e.node \in Nodes /\ e.gen \in Nat
  BY DEF Event
<1>. QED BY <1>1 DEF TypeInv, Grows, Counter

(* A step that takes events out of the mailbox, or none, and numbers none.  *)
LEMMA QuietSteps ==
  ASSUME Inv, TypeInv', JobInv', Grows, ready' = ready, Thins(queue', queue),
         \A t \in Threads : Holds(t)' => Holds(t)
  PROVE  Inv'
<1>1. TypeInv /\ queue \in Seq(Event) /\ queue' \in Seq(Event)
  BY DEF Inv, TypeInv, Thins
<1>2. PICK f : ThinsBy(queue', queue, f)
  BY DEF Thins
<1>3. \A i \in 1 .. Len(queue') : f[i] \in 1 .. Len(queue) /\ queue'[i] = queue[f[i]]
  BY <1>2 DEF ThinsBy
<1>4. \A i \in 1 .. Len(queue) : queue[i] \in Event
  BY <1>1
<1>5. Orderly(queue')
  BY <1>1, QueueProperties, ThinsOrderly DEF Inv
<1>6. (LevelOnce /\ OverflowIsReliable /\ GenerationsOrdered)'
  BY <1>1, <1>5, QueuePropertiesNext
<1>7. Counted'
  <2>1. ASSUME NEW i \in 1 .. Len(queue')
        PROVE  queue'[i].gen <= Counter(sequence', route', queue'[i])
    <3>1. queue'[i] \in Event /\ queue'[i].gen <= Counter(sequence, route, queue'[i])
      BY <1>3, <1>4 DEF Inv, Counted
    <3>. QED BY <1>1, <3>1, CounterGrows
  <2>2. ASSUME NEW t \in Threads, Holds(t)'
        PROVE  ready'[t].by = t /\ ready'[t].gen <= Counter(sequence', route', ready'[t])
    <3>1. /\ ready[t] \in Event /\ ready[t].by = t
          /\ ready[t].gen <= Counter(sequence, route, ready[t])
      BY <2>2 DEF Inv, JobInv, Counted
    <3>. QED BY <1>1, <3>1, CounterGrows
  <2>. QED BY <2>1, <2>2 DEF Counted
<1>8. Held'
  <2>. SUFFICES ASSUME NEW t \in Threads, Holds(t)', NEW i \in 1 .. Len(queue'),
                       SameSource(queue'[i], ready'[t])
                PROVE  queue'[i] = ready'[t] \/ queue'[i].gen < ready'[t].gen
    BY DEF Held
  <2>1. Holds(t) /\ f[i] \in 1 .. Len(queue) /\ queue'[i] = queue[f[i]]
    BY <1>3
  <2>. QED BY <2>1 DEF Inv, Held
<1>. QED BY <1>6, <1>7, <1>8 DEF Inv

(* A step of one thread that goes on with its script.                       *)
LEMMA ScriptInv ==
  ASSUME Inv, NEW t \in Threads, pc[t] # "free", Proceed(t), ready' = ready,
         Head(job[t].todo) \in Kinds => Holds(t)
  PROVE  JobInv' /\ \A s \in Threads : Holds(s)' => Holds(s)
<1>1. TypeInv /\ JobInv
  BY DEF Inv
<1>2. /\ \A s \in Threads \ {t} : pc'[s] = pc[s] /\ job'[s] = job[s]
      /\ pc'[t] # "free" => /\ job'[t].todo # << >> /\ job'[t].node \in Nodes
                            /\ AgainFollows(job'[t].todo)
      /\ Holds(t)' => Head(job[t].todo) \in Kinds
  BY <1>1, ProceedSteps
<1>3. ASSUME NEW s \in Threads
      PROVE  /\ pc'[s] # "free" => /\ job'[s].todo # << >> /\ job'[s].node \in Nodes
                                   /\ AgainFollows(job'[s].todo)
             /\ Holds(s)' => Holds(s)
             /\ Holds(s)' => ready'[s] \in Event
  <2>1. CASE s = t
    BY <1>1, <1>2, <2>1 DEF JobInv
  <2>2. CASE s # t
    <3>1. pc'[s] = pc[s] /\ job'[s] = job[s] /\ ready'[s] = ready[s]
      BY <1>2, <2>2
    <3>. QED BY <1>1, <3>1, ThreadKeeps
  <2>. QED BY <2>1, <2>2
<1>. QED BY <1>3 DEF JobInv

(* A step of one thread within an emission.                                 *)
LEMMA EmitInv ==
  ASSUME Inv, NEW t \in Threads, pc[t] # "free", job' = job,
         NEW x \in {"dispatch", "mark", "notify"}, pc' = [pc EXCEPT ![t] = x],
         \A s \in Threads \ {t} : ready'[s] = ready[s], ready'[t] \in Event
  PROVE  /\ JobInv' /\ pc' \in [Threads -> {"free", "number", "dispatch", "mark", "notify"}]
         /\ \A s \in Threads \ {t} : Holds(s)' <=> Holds(s)
<1>1. TypeInv /\ JobInv
  BY DEF Inv
<1>2. /\ pc' \in [Threads -> {"free", "number", "dispatch", "mark", "notify"}]
      /\ pc'[t] = x /\ \A s \in Threads \ {t} : pc'[s] = pc[s]
  BY <1>1 DEF TypeInv
<1>3. ASSUME NEW s \in Threads
      PROVE  /\ pc'[s] # "free" => /\ job'[s].todo # << >> /\ job'[s].node \in Nodes
                                   /\ AgainFollows(job'[s].todo)
             /\ s # t => (Holds(s)' <=> Holds(s))
             /\ Holds(s)' => ready'[s] \in Event
  <2>1. CASE s = t
    BY <1>1, <2>1 DEF JobInv
  <2>2. CASE s # t
    <3>1. pc'[s] = pc[s] /\ job'[s] = job[s] /\ ready'[s] = ready[s]
      BY <1>2, <2>2
    <3>. QED BY <1>1, <3>1, ThreadKeeps
  <2>. QED BY <2>1, <2>2
<1>. QED BY <1>2, <1>3 DEF JobInv

LEMMA StartSteps ==
  ASSUME Inv, NEW t \in Threads, NEW p \in DOMAIN Script, NEW n \in Nodes, Start(t, p, n)
  PROVE  Inv'
<1>1. /\ job' = [job EXCEPT ![t] = [origin |-> Script[p].origin, node |-> n,
                                    todo |-> Script[p].todo]]
      /\ pc' = [pc EXCEPT ![t] = "number"]
      /\ calls < MaxCalls /\ calls' = calls + 1
      /\ UNCHANGED <<sequence, route, queue, wakeVars, ready, uiVars>>
  BY DEF Start
<1>2. TypeInv /\ JobInv
  BY DEF Inv
<1>3. Script[p].origin \in Origins /\ Todo(Script[p].todo)
  BY ScriptSteps
<1>4. [origin |-> Script[p].origin, node |-> n, todo |-> Script[p].todo]
        \in [origin : Origins, node : Nodes \cup {None}, todo : Seq(Steps)]
  BY <1>3 DEF Todo
<1>5. /\ pc' \in [Threads -> {"free", "number", "dispatch", "mark", "notify"}]
      /\ job' \in [Threads -> [origin : Origins, node : Nodes \cup {None}, todo : Seq(Steps)]]
      /\ pc'[t] = "number" /\ job'[t].todo = Script[p].todo /\ job'[t].node = n
      /\ \A s \in Threads \ {t} : pc'[s] = pc[s] /\ job'[s] = job[s]
  BY <1>1, <1>2, <1>4 DEF TypeInv
<1>6. calls' \in 0 .. MaxCalls
  BY <1>1, <1>2, NodeEventsAssumption DEF TypeInv
<1>7. TypeInv'
  BY <1>1, <1>2, <1>5, <1>6 DEF TypeInv, wakeVars, uiVars
<1>8. ASSUME NEW s \in Threads
      PROVE  /\ pc'[s] # "free" => /\ job'[s].todo # << >> /\ job'[s].node \in Nodes
                                   /\ AgainFollows(job'[s].todo)
             /\ Holds(s)' => Holds(s)
             /\ Holds(s)' => ready'[s] \in Event
  <2>1. CASE s = t
    BY <1>3, <1>5, <2>1 DEF Todo, Holds
  <2>2. CASE s # t
    <3>1. pc'[s] = pc[s] /\ job'[s] = job[s] /\ ready'[s] = ready[s]
      BY <1>1, <1>5, <2>2
    <3>. QED BY <1>2, <3>1, ThreadKeeps
  <2>. QED BY <2>1, <2>2
<1>9. JobInv'
  BY <1>8 DEF JobInv
<1>10. Grows /\ Thins(queue', queue) /\ ready' = ready
  <2>1. Thins(queue', queue)
    BY <1>1, <1>2, ThinsItself DEF TypeInv
  <2>. QED BY <1>1, <1>2, <2>1 DEF TypeInv, Grows
<1>. QED BY <1>7, <1>8, <1>9, <1>10, QuietSteps

LEMMA BumpSteps ==
  ASSUME Inv, NEW t \in Threads, Bump(t)
  PROVE  Inv'
<1>1. /\ pc[t] = "number" /\ Head(job[t].todo) = "bump"
      /\ route' = [route EXCEPT ![job[t].node] = @ + 1]
      /\ Proceed(t)
      /\ UNCHANGED <<sequence, queue, wakeVars, ready, uiVars, calls>>
  BY DEF Bump
<1>2. TypeInv /\ JobInv
  BY DEF Inv
<1>3. "bump" \notin Kinds
  BY DEF Kinds
<1>4. JobInv' /\ \A s \in Threads : Holds(s)' => Holds(s)
  BY <1>1, <1>3, ScriptInv
<1>5. job[t].node \in Nodes
  BY <1>1, <1>2 DEF JobInv
<1>6. route' \in [Nodes -> Nat] /\ \A n \in Nodes : route[n] <= route'[n]
  BY <1>1, <1>2, <1>5 DEF TypeInv
<1>7. TypeInv'
  BY <1>1, <1>2, <1>6, ProceedSteps DEF TypeInv, wakeVars, uiVars
<1>8. Grows /\ Thins(queue', queue)
  <2>1. Thins(queue', queue)
    BY <1>1, <1>2, ThinsItself DEF TypeInv
  <2>. QED BY <1>1, <1>2, <1>6, <2>1 DEF TypeInv, Grows
<1>. QED BY <1>1, <1>4, <1>7, <1>8, QuietSteps

LEMMA DropDuplicateSteps ==
  ASSUME Inv, NEW t \in Threads, DropDuplicate(t)
  PROVE  Inv'
<1>1. /\ pc[t] = "dispatch" /\ Proceed(t)
      /\ UNCHANGED <<sequence, route, queue, wakeVars, ready, uiVars, calls>>
  BY DEF DropDuplicate, Dispatching
<1>2. TypeInv /\ JobInv
  BY DEF Inv
<1>3. JobInv' /\ \A s \in Threads : Holds(s)' => Holds(s)
  BY <1>1, ScriptInv DEF Holds
<1>4. TypeInv'
  BY <1>1, <1>2, ProceedSteps DEF TypeInv, wakeVars, uiVars
<1>5. Grows /\ Thins(queue', queue)
  <2>1. Thins(queue', queue)
    BY <1>1, <1>2, ThinsItself DEF TypeInv
  <2>. QED BY <1>1, <1>2, <2>1 DEF TypeInv, Grows
<1>. QED BY <1>1, <1>3, <1>4, <1>5, QuietSteps

LEMMA NotifySteps ==
  ASSUME Inv, NEW t \in Threads, Notify(t)
  PROVE  Inv'
<1>1. /\ pc[t] = "notify" /\ Proceed(t) /\ permit' = TRUE
      /\ UNCHANGED <<sequence, route, queue, pending, ready, uiVars, calls>>
  BY DEF Notify
<1>2. TypeInv /\ JobInv
  BY DEF Inv
<1>3. JobInv' /\ \A s \in Threads : Holds(s)' => Holds(s)
  BY <1>1, ScriptInv DEF Holds
<1>4. TypeInv'
  BY <1>1, <1>2, ProceedSteps DEF TypeInv, uiVars
<1>5. Grows /\ Thins(queue', queue)
  <2>1. Thins(queue', queue)
    BY <1>1, <1>2, ThinsItself DEF TypeInv
  <2>. QED BY <1>1, <1>2, <2>1 DEF TypeInv, Grows
<1>. QED BY <1>1, <1>3, <1>4, <1>5, QuietSteps

(* A numbered event is newer than all that its counter has numbered.        *)
LEMMA NumberSteps ==
  ASSUME Inv, NEW t \in Threads, Number(t)
  PROVE  Inv'
<1>. DEFINE n == job[t].node
            kind == Head(job[t].todo)
<1>1. /\ pc[t] = "number" /\ kind \in Kinds
      /\ pc' = [pc EXCEPT ![t] = "dispatch"]
      /\ UNCHANGED <<queue, wakeVars, job, uiVars, calls>>
  BY DEF Number
<1>2. TypeInv /\ JobInv
  BY DEF Inv
<1>3. n \in Nodes /\ job[t].origin \in Origins
  BY <1>1, <1>2 DEF JobInv, TypeInv
<1>4. PICK e \in Event :
        /\ ready' = [ready EXCEPT ![t] = e]
        /\ e.node = n /\ e.by = t
        /\ e.gen = Counter(sequence, route, e) + 1
        /\ e.gen = Counter(sequence', route', e)
        /\ Grows
  <2>1. CASE job[t].origin = "sequencer"
    <3>. DEFINE e == [node |-> n, kind |-> kind, gen |-> sequence[n] + 1,
                      origin |-> "sequencer", by |-> t]
    <3>1. /\ sequence' = [sequence EXCEPT ![n] = @ + 1] /\ route' = route
          /\ ready' = [ready EXCEPT ![t] = e]
      BY <2>1 DEF Number
    <3>2. sequence[n] \in Nat
      BY <1>2, <1>3 DEF TypeInv
    <3>3. e \in Event
      BY <1>1, <1>3, <3>2 DEF Event, Kinds
    <3>4. sequence'[n] = sequence[n] + 1 /\ Grows
      BY <1>2, <1>3, <3>1 DEF TypeInv, Grows
    <3>. QED BY <3>1, <3>3, <3>4 DEF Counter
  <2>2. CASE job[t].origin # "sequencer"
    <3>. DEFINE e == [node |-> n, kind |-> kind, gen |-> route[n] + 1,
                      origin |-> "runtime", by |-> t]
    <3>1. /\ route' = [route EXCEPT ![n] = @ + 1] /\ sequence' = sequence
          /\ ready' = [ready EXCEPT ![t] = e]
      BY <2>2 DEF Number
    <3>2. route[n] \in Nat
      BY <1>2, <1>3 DEF TypeInv
    <3>3. e \in Event
      BY <1>1, <1>3, <3>2 DEF Event, Kinds
    <3>4. route'[n] = route[n] + 1 /\ Grows
      BY <1>2, <1>3, <3>1 DEF TypeInv, Grows
    <3>. QED BY <3>1, <3>3, <3>4 DEF Counter
  <2>. QED BY <2>1, <2>2
<1>. HIDE DEF n, kind
<1>5. /\ ready' \in [Threads -> Event \cup {None}] /\ ready'[t] = e
      /\ \A s \in Threads \ {t} : ready'[s] = ready[s]
  BY <1>2, <1>4 DEF TypeInv
<1>6. /\ JobInv' /\ pc' \in [Threads -> {"free", "number", "dispatch", "mark", "notify"}]
      /\ \A s \in Threads \ {t} : Holds(s)' <=> Holds(s)
  BY <1>1, <1>4, <1>5, EmitInv
<1>7. TypeInv'
  BY <1>1, <1>2, <1>4, <1>5, <1>6 DEF TypeInv, wakeVars, uiVars, Grows
<1>8. queue' = queue /\ \A i \in 1 .. Len(queue) : queue[i] \in Event
  BY <1>1, <1>2 DEF TypeInv
<1>9. Counted'
  <2>1. ASSUME NEW i \in 1 .. Len(queue)
        PROVE  queue[i].gen <= Counter(sequence', route', queue[i])
    BY <1>2, <1>4, <1>8, CounterGrows DEF Inv, Counted
  <2>2. ASSUME NEW s \in Threads, Holds(s)'
        PROVE  ready'[s].by = s /\ ready'[s].gen <= Counter(sequence', route', ready'[s])
    <3>1. CASE s = t
      <4>1. e.gen \in Nat
        BY DEF Event
      <4>. QED BY <1>4, <1>5, <3>1, <4>1
    <3>2. CASE s # t
      <4>1. /\ ready'[s] = ready[s] /\ ready[s] \in Event /\ ready[s].by = s
            /\ ready[s].gen <= Counter(sequence, route, ready[s])
        BY <1>2, <1>5, <1>6, <2>2, <3>2 DEF Inv, JobInv, Counted
      <4>. QED BY <1>2, <1>4, <4>1, CounterGrows
    <3>. QED BY <3>1, <3>2
  <2>. QED BY <1>8, <2>1, <2>2 DEF Counted
<1>10. Held'
  <2>. SUFFICES ASSUME NEW s \in Threads, Holds(s)', NEW i \in 1 .. Len(queue),
                       SameSource(queue[i], ready'[s])
                PROVE  queue[i] = ready'[s] \/ queue[i].gen < ready'[s].gen
    BY <1>8 DEF Held
  <2>1. CASE s = t
    <3>1. /\ queue[i] \in Event /\ queue[i].gen <= Counter(sequence, route, queue[i])
          /\ queue[i].node = e.node /\ queue[i].origin = e.origin
      BY <1>5, <1>8, <2>1 DEF Inv, Counted, SameSource
    <3>2. Counter(sequence, route, queue[i]) = Counter(sequence, route, e)
      BY <3>1 DEF Counter
    <3>3. queue[i].gen \in Nat /\ e.gen \in Nat /\ e.node \in Nodes
      BY <3>1 DEF Event
    <3>4. Counter(sequence, route, e) \in Nat
      BY <1>2, <3>3 DEF Counter, TypeInv
    <3>. QED BY <1>4, <1>5, <2>1, <3>1, <3>2, <3>3, <3>4
  <2>2. CASE s # t
    BY <1>5, <1>6, <2>2 DEF Inv, Held
  <2>. QED BY <2>1, <2>2
<1>11. (LevelOnce /\ OverflowIsReliable /\ GenerationsOrdered)'
  <2>1. Orderly(queue)
    BY <1>2, QueueProperties DEF Inv, TypeInv
  <2>. QED BY <1>2, <1>8, <2>1, QueuePropertiesNext DEF TypeInv
<1>. QED BY <1>7, <1>6, <1>9, <1>10, <1>11 DEF Inv

LEMMA AgainSteps ==
  ASSUME Inv, NEW t \in Threads, Again(t)
  PROVE  Inv'
<1>1. /\ pc[t] = "number" /\ Head(job[t].todo) = "again"
      /\ pc' = [pc EXCEPT ![t] = "dispatch"]
      /\ UNCHANGED <<sequence, route, queue, wakeVars, job, ready, uiVars, calls>>
  BY DEF Again
<1>2. TypeInv /\ JobInv
  BY DEF Inv
<1>3. Holds(t) /\ ready[t] \in Event
  <2>1. job[t].todo[1] = "again"
    <3>1. job[t].todo \in Seq(Steps) /\ job[t].todo # << >>
      BY <1>1, <1>2 DEF TypeInv, JobInv
    <3>. QED BY <1>1, <3>1
  <2>. QED BY <1>1, <1>2, <2>1 DEF Holds, JobInv
<1>4. /\ JobInv' /\ pc' \in [Threads -> {"free", "number", "dispatch", "mark", "notify"}]
      /\ \A s \in Threads \ {t} : Holds(s)' <=> Holds(s)
  BY <1>1, <1>3, EmitInv
<1>5. TypeInv'
  BY <1>1, <1>2, <1>4 DEF TypeInv, wakeVars, uiVars
<1>6. Grows /\ Thins(queue', queue)
  <2>1. Thins(queue', queue)
    BY <1>1, <1>2, ThinsItself DEF TypeInv
  <2>. QED BY <1>1, <1>2, <2>1 DEF TypeInv, Grows
<1>. QED BY <1>1, <1>3, <1>4, <1>5, <1>6, QuietSteps

LEMMA MarkSteps ==
  ASSUME Inv, NEW t \in Threads, Mark(t)
  PROVE  Inv'
<1>1. /\ pc[t] = "mark" /\ pending' = TRUE
      /\ pc' = [pc EXCEPT ![t] = "notify"]
      /\ UNCHANGED <<sequence, route, queue, permit, job, ready, uiVars, calls>>
  BY DEF Mark
<1>2. TypeInv /\ JobInv
  BY DEF Inv
<1>3. Holds(t) /\ ready[t] \in Event
  BY <1>1, <1>2 DEF Holds, JobInv
<1>4. /\ JobInv' /\ pc' \in [Threads -> {"free", "number", "dispatch", "mark", "notify"}]
      /\ \A s \in Threads \ {t} : Holds(s)' <=> Holds(s)
  BY <1>1, <1>3, EmitInv
<1>5. TypeInv'
  BY <1>1, <1>2, <1>4 DEF TypeInv, uiVars
<1>6. Grows /\ Thins(queue', queue)
  <2>1. Thins(queue', queue)
    BY <1>1, <1>2, ThinsItself DEF TypeInv
  <2>. QED BY <1>1, <1>2, <2>1 DEF TypeInv, Grows
<1>. QED BY <1>1, <1>3, <1>4, <1>5, <1>6, QuietSteps

LEMMA PushSteps ==
  ASSUME Inv, NEW t \in Threads, Push(t)
  PROVE  Inv'
<1>. DEFINE e == ready[t]
            p == Evicted(Coalesced(queue, e))
<1>1. /\ pc[t] = "dispatch" /\ \A i \in 1 .. Len(queue) : queue[i] # e
      /\ queue' = Append(p, e)
      /\ pc' = [pc EXCEPT ![t] = "mark"]
      /\ UNCHANGED <<sequence, route, wakeVars, job, ready, uiVars, calls>>
  BY DEF Push, Dispatching, Contains, Enqueue
<1>2. TypeInv /\ JobInv
  BY DEF Inv
<1>3. Holds(t) /\ e \in Event /\ e.by = t /\ e.gen <= Counter(sequence, route, e)
  BY <1>1, <1>2 DEF Holds, JobInv, Inv, Counted
<1>4. /\ JobInv' /\ pc' \in [Threads -> {"free", "number", "dispatch", "mark", "notify"}]
      /\ \A s \in Threads \ {t} : Holds(s)' <=> Holds(s)
  BY <1>1, <1>3, EmitInv
<1>5. queue \in Seq(Event) /\ Orderly(queue)
  BY <1>2, QueueProperties DEF Inv, TypeInv
<1>6. /\ Thins(p, queue)
      /\ \A i \in 1 .. Len(p) : ~SameKey(p[i], e)
      /\ Len(p) + 1 > Capacity => \A i \in 1 .. Len(p) : ~Level(p[i])
  <2>. HIDE DEF e
  <2>. QED BY <1>3, <1>5, EvictedSteps
<1>. HIDE DEF p, e
<1>7. p \in Seq(Event) /\ Orderly(p)
  BY <1>5, <1>6, ThinsOrderly DEF Thins
<1>8. \A i \in 1 .. Len(p) : \E j \in 1 .. Len(queue) : p[i] = queue[j]
  BY <1>6 DEF Thins, ThinsBy
<1>9. \A i \in 1 .. Len(p) : SameSource(p[i], e) => p[i].gen < e.gen
  <2>1. \A j \in 1 .. Len(queue) : SameSource(queue[j], e) => queue[j].gen < e.gen
    BY <1>1, <1>3 DEF Inv, Held, e
  <2>. QED BY <1>8, <2>1
<1>10. Orderly(queue') /\ queue' \in Seq(Event)
  BY <1>1, <1>3, <1>6, <1>7, <1>9, AppendOrderly, AppendProperties
<1>11. \A i \in 1 .. Len(queue') :
         queue'[i] = e \/ \E j \in 1 .. Len(queue) : queue'[i] = queue[j]
  <2>1. /\ Len(queue') = Len(p) + 1 /\ Len(p) \in Nat /\ queue'[Len(p) + 1] = e
        /\ \A i \in 1 .. Len(p) : queue'[i] = p[i]
    BY <1>1, <1>3, <1>7, AppendProperties
  <2>2. \A i \in 1 .. Len(queue') : i = Len(p) + 1 \/ i \in 1 .. Len(p)
    BY <2>1
  <2>. QED BY <1>8, <2>1, <2>2
<1>12. TypeInv'
  BY <1>1, <1>2, <1>4, <1>10 DEF TypeInv, wakeVars, uiVars
<1>13. Counted'
  <2>1. \A i \in 1 .. Len(queue') : queue'[i].gen <= Counter(sequence, route, queue'[i])
    BY <1>3, <1>11 DEF Inv, Counted
  <2>2. \A s \in Threads : Holds(s)' => Holds(s)
    BY <1>3, <1>4
  <2>. QED BY <1>1, <2>1, <2>2 DEF Inv, Counted
<1>14. Held'
  <2>. SUFFICES ASSUME NEW s \in Threads, Holds(s)', NEW i \in 1 .. Len(queue'),
                       SameSource(queue'[i], ready[s])
                PROVE  queue'[i] = ready[s] \/ queue'[i].gen < ready[s].gen
    BY <1>1 DEF Held
  <2>1. Holds(s) /\ ready[s].by = s
    BY <1>3, <1>4 DEF Inv, Counted
  <2>2. CASE queue'[i] = e
    <3>1. s = t
      BY <1>3, <2>1, <2>2 DEF SameSource
    <3>. QED BY <2>2, <3>1 DEF e
  <2>3. CASE \E j \in 1 .. Len(queue) : queue'[i] = queue[j]
    BY <2>1, <2>3 DEF Inv, Held
  <2>. QED BY <1>11, <2>2, <2>3
<1>15. (LevelOnce /\ OverflowIsReliable /\ GenerationsOrdered)'
  BY <1>10, QueuePropertiesNext
<1>. QED BY <1>4, <1>12, <1>13, <1>14, <1>15 DEF Inv

-----------------------------------------------------------------------------
(* The consumer.                                                            *)

LEMMA ConsumeSteps ==
  ASSUME Inv, Consume
  PROVE  Inv'
<1>1. TypeInv /\ JobInv
  BY DEF Inv
<1>2. queue \in Seq(Event) /\ batch \in Seq(Event) /\ Len(batch) <= Budget
  BY <1>1 DEF TypeInv
<1>3. pc' = pc /\ job' = job /\ ready' = ready /\ sequence' = sequence /\ calls' = calls
  BY DEF Consume, Awake, TakeWake, Receive, EndDrain, DropStale, Reduce, EndBatch, wakeVars
<1>4. JobInv' /\ \A t \in Threads : Holds(t)' => Holds(t)
  <2>1. \A t \in Threads : Holds(t)' <=> Holds(t)
    BY <1>3 DEF Holds
  <2>. QED BY <1>1, <1>3, <2>1 DEF JobInv
<1>5. batch # << >> => Tail(batch) \in Seq(Event) /\ Len(Tail(batch)) <= Budget /\ Head(batch) \in Event
  <2>1. batch # << >> => /\ Tail(batch) \in Seq(Event) /\ Len(Tail(batch)) = Len(batch) - 1
                         /\ Head(batch) \in Event
    BY <1>2, HeadTailProperties
  <2>. QED BY <1>2, <2>1, NodeEventsAssumption
<1>6. CASE queue' = queue /\ route' = route /\ UNCHANGED seen
           /\ pending' \in BOOLEAN /\ permit' \in BOOLEAN /\ more' \in BOOLEAN
           /\ ui' \in {"waiting", "woken", "draining", "reducing"}
           /\ batch' \in Seq(Event) /\ Len(batch') <= Budget
  <2>1. TypeInv'
    BY <1>1, <1>3, <1>6 DEF TypeInv
  <2>2. Grows /\ Thins(queue', queue)
    BY <1>1, <1>2, <1>3, <1>6, ThinsItself DEF TypeInv, Grows
  <2>. QED BY <1>3, <1>4, <2>1, <2>2, QuietSteps
<1>7. CASE Awake
  BY <1>1, <1>6, <1>7 DEF Awake, TypeInv
<1>8. CASE TakeWake
  BY <1>1, <1>6, <1>8 DEF TakeWake, TypeInv
<1>9. CASE EndDrain
  BY <1>1, <1>6, <1>9 DEF EndDrain, TypeInv, wakeVars
<1>10. CASE DropStale
  BY <1>1, <1>5, <1>6, <1>10 DEF DropStale, TypeInv, wakeVars
<1>11. CASE EndBatch
  BY <1>1, <1>6, <1>11 DEF EndBatch, TypeInv
<1>12. CASE Receive
  <2>1. /\ queue # << >> /\ Len(batch) < Budget
        /\ batch' = Append(batch, Head(queue)) /\ queue' = Tail(queue)
        /\ UNCHANGED <<sequence, route, wakeVars, pc, job, ready, ui, more, seen, calls>>
    BY <1>12 DEF Receive
  <2>2. Thins(queue', queue) /\ Head(queue) \in Event
    BY <1>2, <2>1, TailThins
  <2>3. batch' \in Seq(Event) /\ Len(batch') = Len(batch) + 1 /\ Len(batch) \in Nat
    BY <1>2, <2>1, <2>2, AppendProperties
  <2>4. Len(batch') <= Budget
    BY <2>1, <2>3, NodeEventsAssumption
  <2>5. TypeInv'
    BY <1>1, <2>1, <2>2, <2>3, <2>4 DEF TypeInv, wakeVars, Thins
  <2>6. Grows
    BY <1>1, <2>1 DEF TypeInv, Grows
  <2>. QED BY <1>3, <1>4, <2>2, <2>5, <2>6, QuietSteps
<1>13. CASE Reduce
  <2>. DEFINE e == Head(batch)
  <2>1. /\ batch # << >> /\ batch' = Tail(batch)
        /\ seen' = [seen EXCEPT ![e.node] = e.gen]
        /\ route' = [route EXCEPT ![e.node] = IF e.kind \in {"state", "lost"} THEN @ + 1 ELSE @]
        /\ UNCHANGED <<sequence, queue, wakeVars, pc, job, ready, ui, more, calls>>
    BY <1>13 DEF Reduce
  <2>2. e.node \in Nodes /\ e.gen \in Nat
    BY <1>5, <2>1 DEF Event
  <2>3. seen' \in [Nodes -> Nat]
    BY <1>1, <2>1, <2>2 DEF TypeInv
  <2>4. route' \in [Nodes -> Nat] /\ \A n \in Nodes : route[n] <= route'[n]
    BY <1>1, <2>1, <2>2 DEF TypeInv
  <2>5. TypeInv'
    BY <1>1, <1>5, <2>1, <2>3, <2>4 DEF TypeInv, wakeVars
  <2>6. Grows /\ Thins(queue', queue)
    BY <1>1, <1>2, <2>1, <2>4, ThinsItself DEF TypeInv, Grows
  <2>. QED BY <1>3, <1>4, <2>5, <2>6, QuietSteps
<1>. QED BY <1>7, <1>8, <1>9, <1>10, <1>11, <1>12, <1>13 DEF Consume

-----------------------------------------------------------------------------
(* The invariant.                                                           *)

LEMMA InvInit == Init => Inv
<1>. SUFFICES ASSUME Init PROVE Inv
  OBVIOUS
<1>. USE DEF Init
<1>1. queue \in Seq(Event) /\ batch \in Seq(Event) /\ Len(queue) = 0 /\ Len(batch) = 0
  OBVIOUS
<1>2. TypeInv
  <2>1. Len(batch) <= Budget /\ calls \in 0 .. MaxCalls
    BY <1>1, NodeEventsAssumption
  <2>2. NoJob \in [origin : Origins, node : Nodes \cup {None}, todo : Seq(Steps)]
    BY DEF NoJob, Origins
  <2>. QED BY <1>1, <2>1, <2>2 DEF TypeInv
<1>3. \A t \in Threads : pc[t] = "free" /\ ~Holds(t)
  BY DEF Holds
<1>4. Orderly(queue)
  BY <1>1 DEF Orderly, LevelOnceOf, OverflowOf, OrderedOf
<1>5. LevelOnce /\ OverflowIsReliable /\ GenerationsOrdered
  BY <1>1, <1>4, QueueProperties
<1>. QED BY <1>1, <1>2, <1>3, <1>5 DEF Inv, JobInv, Counted, Held

(* Every step of a thread and of the consumer keeps the invariant.          *)
THEOREM InvNext == Inv /\ [Next]_vars => Inv'
<1>. SUFFICES ASSUME Inv, [Next]_vars PROVE Inv'
  OBVIOUS
<1>1. ASSUME NEW t \in Threads, NEW p \in DOMAIN Script, NEW n \in Nodes, Start(t, p, n)
      PROVE  Inv'
  BY <1>1, StartSteps
<1>2. ASSUME NEW t \in Threads, Emit(t) PROVE Inv'
  BY <1>2, BumpSteps, NumberSteps, AgainSteps, DropDuplicateSteps, PushSteps, MarkSteps,
     NotifySteps DEF Emit
<1>3. CASE Consume
  BY <1>3, ConsumeSteps
<1>4. CASE UNCHANGED vars
  BY <1>4 DEF vars, wakeVars, uiVars, Inv, TypeInv, JobInv, Holds, Counted, Held, LevelOnce,
              OverflowIsReliable, GenerationsOrdered
<1>. QED BY <1>1, <1>2, <1>3, <1>4 DEF Next

(* The invariant holds for any number of nodes, threads and calls.          *)
THEOREM InvHolds == Spec => []Inv
  BY InvInit, InvNext, PTL DEF Spec

(* Every variable keeps its type, a thread at work has something left to    *)
(* do, and no batch exceeds the budget.                                     *)
THEOREM TypeCorrect == Spec => []TypeOK
<1>1. Inv => TypeOK
  BY DEF Inv, TypeInv, JobInv, TypeOK
<1>. QED BY <1>1, InvHolds, PTL

(* dispatch: a level event of the mailbox is the last of its node and kind. *)
THEOREM LevelOnceAlways == Spec => []LevelOnce
<1>1. Inv => LevelOnce
  BY DEF Inv
<1>. QED BY <1>1, InvHolds, PTL

(* dispatch: a mailbox that exceeds its capacity holds at most one level    *)
(* event, whatever the capacity and the emissions.                          *)
THEOREM OverflowAlwaysReliable == Spec => []OverflowIsReliable
<1>1. Inv => OverflowIsReliable
  BY DEF Inv
<1>. QED BY <1>1, InvHolds, PTL

(* The events one thread numbered for a node from one counter are in the    *)
(* mailbox in that order, and none of them twice, also when a call emits    *)
(* its event again.                                                         *)
THEOREM GenerationsAlwaysOrdered == Spec => []GenerationsOrdered
<1>1. Inv => GenerationsOrdered
  BY DEF Inv
<1>. QED BY <1>1, InvHolds, PTL

-----------------------------------------------------------------------------
(* The reliable events.                                                     *)
SameReliableBy(p, q, f) ==
  /\ f \in [ReliableAt(p) -> ReliableAt(q)]
  /\ \A i \in ReliableAt(p) : q[f[i]] = p[i]
  /\ \A i, j \in ReliableAt(p) : i < j => f[i] < f[j]
  /\ \A k \in ReliableAt(q) : \E i \in ReliableAt(p) : f[i] = k

LEMMA SameReliableWitness ==
  ASSUME NEW p, NEW q
  PROVE  SameReliable(p, q) <=> \E f : SameReliableBy(p, q, f)
  BY DEF SameReliable, SameReliableBy

LEMMA ReliableIndices ==
  ASSUME NEW q \in Seq(Event)
  PROVE  ReliableAt(q) = {i \in 1 .. Len(q) : Reliable(q[i])}
<1>1. DOMAIN q = 1 .. Len(q)
  OBVIOUS
<1>. QED BY <1>1 DEF ReliableAt

LEMMA SameReliableItself ==
  ASSUME NEW q
  PROVE  SameReliable(q, q)
<1>1. SameReliableBy(q, q, [i \in ReliableAt(q) |-> i])
  BY DEF SameReliableBy
<1>. QED BY <1>1, SameReliableWitness

LEMMA SameReliableTransitive ==
  ASSUME NEW p, NEW q, NEW r, SameReliable(p, q), SameReliable(q, r)
  PROVE  SameReliable(p, r)
<1>1. PICK f : SameReliableBy(p, q, f)
  BY SameReliableWitness
<1>2. PICK g : SameReliableBy(q, r, g)
  BY SameReliableWitness
<1>. DEFINE h == [i \in ReliableAt(p) |-> g[f[i]]]
<1>3. \A i \in ReliableAt(p) : f[i] \in ReliableAt(q) /\ g[f[i]] \in ReliableAt(r)
  BY <1>1, <1>2 DEF SameReliableBy
<1>4. h \in [ReliableAt(p) -> ReliableAt(r)] /\ \A i \in ReliableAt(p) : h[i] = g[f[i]]
  BY <1>3
<1>. HIDE DEF h
<1>5. \A i \in ReliableAt(p) : r[h[i]] = p[i]
  BY <1>1, <1>2, <1>3, <1>4 DEF SameReliableBy
<1>6. \A i, j \in ReliableAt(p) : i < j => h[i] < h[j]
  BY <1>1, <1>2, <1>3, <1>4 DEF SameReliableBy
<1>7. ASSUME NEW k \in ReliableAt(r) PROVE \E i \in ReliableAt(p) : h[i] = k
  <2>1. PICK j \in ReliableAt(q) : g[j] = k
    BY <1>2 DEF SameReliableBy
  <2>2. PICK i \in ReliableAt(p) : f[i] = j
    BY <1>1 DEF SameReliableBy
  <2>. QED BY <1>4, <2>1, <2>2
<1>8. SameReliableBy(p, r, h)
  BY <1>4, <1>5, <1>6, <1>7 DEF SameReliableBy
<1>. QED BY <1>8, SameReliableWitness

(* Taking a level event out leaves the reliable ones, in their order.       *)
LEMMA RemoveLevel ==
  ASSUME NEW q \in Seq(Event), NEW k \in 1 .. Len(q), Level(q[k])
  PROVE  SameReliable(RemoveAt(q, k), q)
<1>. DEFINE p == RemoveAt(q, k)
            f == [i \in ReliableAt(p) |-> IF i < k THEN i ELSE i + 1]
<1>1. /\ p \in Seq(Event) /\ Len(p) = Len(q) - 1 /\ Len(q) \in Nat
      /\ \A i \in 1 .. Len(q) - 1 : p[i] = q[IF i < k THEN i ELSE i + 1]
  BY RemoveAtThins DEF Thins
<1>. HIDE DEF p
<1>2. /\ ReliableAt(p) = {i \in 1 .. Len(q) - 1 : Reliable(p[i])}
      /\ ReliableAt(q) = {i \in 1 .. Len(q) : Reliable(q[i])}
  <2>1. ReliableAt(p) = {i \in 1 .. Len(p) : Reliable(p[i])}
    BY <1>1, ReliableIndices, Zenon
  <2>2. ReliableAt(q) = {i \in 1 .. Len(q) : Reliable(q[i])}
    BY ReliableIndices, Zenon
  <2>. QED BY <1>1, <2>1, <2>2, Zenon
<1>3. ~Reliable(q[k])
  BY DEF Level
<1>4. f \in [ReliableAt(p) -> ReliableAt(q)] /\ \A i \in ReliableAt(p) : q[f[i]] = p[i]
  <2>1. ASSUME NEW i \in ReliableAt(p)
        PROVE  /\ (IF i < k THEN i ELSE i + 1) \in ReliableAt(q)
               /\ q[IF i < k THEN i ELSE i + 1] = p[i]
    <3>1. i \in 1 .. Len(q) - 1 /\ Reliable(p[i])
      BY <1>2
    <3>2. (IF i < k THEN i ELSE i + 1) \in 1 .. Len(q)
      BY <1>1, <3>1
    <3>. QED BY <1>1, <1>2, <3>1, <3>2
  <2>. QED BY <2>1
<1>5. \A i, j \in ReliableAt(p) : i < j => f[i] < f[j]
  BY <1>1, <1>2
<1>6. ASSUME NEW j \in ReliableAt(q) PROVE \E i \in ReliableAt(p) : f[i] = j
  <2>1. j \in 1 .. Len(q) /\ Reliable(q[j]) /\ j # k
    BY <1>2, <1>3
  <2>2. CASE j < k
    <3>1. j \in 1 .. Len(q) - 1 /\ p[j] = q[j]
      BY <1>1, <2>1, <2>2
    <3>2. j \in ReliableAt(p)
      BY <1>2, <2>1, <3>1
    <3>. QED BY <2>2, <3>2
  <2>3. CASE ~(j < k)
    <3>1. j - 1 \in 1 .. Len(q) - 1 /\ ~(j - 1 < k) /\ (j - 1) + 1 = j
      BY <1>1, <2>1, <2>3
    <3>2. p[j - 1] = q[j]
      BY <1>1, <3>1
    <3>3. j - 1 \in ReliableAt(p)
      BY <1>2, <2>1, <3>1, <3>2
    <3>4. f[j - 1] = j
      BY <3>1, <3>3
    <3>. QED BY <3>3, <3>4
  <2>. QED BY <2>2, <2>3
<1>7. SameReliableBy(p, q, f)
  BY <1>4, <1>5, <1>6 DEF SameReliableBy
<1>. HIDE DEF f
<1>8. SameReliable(p, q)
  BY <1>7, SameReliableWitness
<1>. QED BY <1>8 DEF p

LEMMA AppendedIndices ==
  ASSUME NEW p \in Seq(Event), NEW m \in Seq(Event), NEW e, Len(m) = Len(p) + 1,
         \A i \in 1 .. Len(p) : m[i] = p[i], m[Len(p) + 1] = e
  PROVE  /\ \A i \in ReliableAt(m) : i \in ReliableAt(p) \/ (i = Len(p) + 1 /\ Reliable(e))
         /\ \A i \in ReliableAt(p) : i \in ReliableAt(m) /\ i < Len(p) + 1 /\ m[i] = p[i]
         /\ Reliable(e) => Len(p) + 1 \in ReliableAt(m)
<1>1. \A i : i \in ReliableAt(p) <=> i \in 1 .. Len(p) /\ Reliable(p[i])
  <2>1. ReliableAt(p) = {i \in 1 .. Len(p) : Reliable(p[i])}
    BY ReliableIndices, Zenon
  <2>. QED BY <2>1
<1>2. \A i : i \in ReliableAt(m) <=> i \in 1 .. Len(m) /\ Reliable(m[i])
  <2>1. ReliableAt(m) = {i \in 1 .. Len(m) : Reliable(m[i])}
    BY ReliableIndices, Zenon
  <2>. QED BY <2>1
<1>3. Len(p) \in Nat
  OBVIOUS
<1>4. ASSUME NEW i \in ReliableAt(m)
      PROVE  i \in ReliableAt(p) \/ (i = Len(p) + 1 /\ Reliable(e))
  <2>1. i \in 1 .. Len(p) \/ i = Len(p) + 1
    BY <1>2, <1>3
  <2>. QED BY <1>1, <1>2, <2>1
<1>5. ASSUME NEW i \in ReliableAt(p)
      PROVE  i \in ReliableAt(m) /\ i < Len(p) + 1 /\ m[i] = p[i]
  <2>1. i \in 1 .. Len(p) /\ i \in 1 .. Len(m) /\ i < Len(p) + 1
    BY <1>1, <1>3
  <2>. QED BY <1>1, <1>2, <2>1
<1>6. ASSUME Reliable(e) PROVE Len(p) + 1 \in ReliableAt(m)
  <2>1. Len(p) + 1 \in 1 .. Len(m)
    BY <1>3
  <2>. QED BY <1>2, <1>6, <2>1
<1>. QED BY <1>4, <1>5, <1>6

LEMMA AppendReliable ==
  ASSUME NEW p \in Seq(Event), NEW q \in Seq(Event), SameReliable(p, q), NEW e \in Event
  PROVE  SameReliable(Append(p, e), Append(q, e))
<1>. DEFINE m == Append(p, e)
            n == Append(q, e)
<1>1. /\ m \in Seq(Event) /\ Len(m) = Len(p) + 1 /\ Len(p) \in Nat
      /\ \A i \in 1 .. Len(p) : m[i] = p[i]
      /\ m[Len(p) + 1] = e
  BY AppendProperties
<1>2. /\ n \in Seq(Event) /\ Len(n) = Len(q) + 1 /\ Len(q) \in Nat
      /\ \A i \in 1 .. Len(q) : n[i] = q[i]
      /\ n[Len(q) + 1] = e
  BY AppendProperties
<1>. HIDE DEF m, n
<1>3. \A i \in ReliableAt(p) : i \in 1 .. Len(p)
  BY <1>1, ReliableIndices
<1>4. /\ \A i \in ReliableAt(m) : i \in ReliableAt(p) \/ (i = Len(p) + 1 /\ Reliable(e))
      /\ \A i \in ReliableAt(p) : i \in ReliableAt(m) /\ i < Len(p) + 1 /\ m[i] = p[i]
      /\ Reliable(e) => Len(p) + 1 \in ReliableAt(m)
  BY <1>1, AppendedIndices
<1>5. /\ \A i \in ReliableAt(n) : i \in ReliableAt(q) \/ (i = Len(q) + 1 /\ Reliable(e))
      /\ \A i \in ReliableAt(q) : i \in ReliableAt(n) /\ i < Len(q) + 1 /\ n[i] = q[i]
      /\ Reliable(e) => Len(q) + 1 \in ReliableAt(n)
  BY <1>2, AppendedIndices
<1>6. PICK f : SameReliableBy(p, q, f)
  BY SameReliableWitness
<1>. DEFINE g == [i \in ReliableAt(m) |-> IF i = Len(p) + 1 THEN Len(q) + 1 ELSE f[i]]
<1>7. \A i \in ReliableAt(p) : f[i] \in ReliableAt(q) /\ q[f[i]] = p[i]
  BY <1>6 DEF SameReliableBy
<1>8. \A i \in ReliableAt(p) : i # Len(p) + 1
  BY <1>1, <1>3
<1>9. /\ \A i \in ReliableAt(p) : g[i] = f[i]
      /\ Reliable(e) => g[Len(p) + 1] = Len(q) + 1
      /\ DOMAIN g = ReliableAt(m) /\ g = [i \in ReliableAt(m) |-> g[i]]
  BY <1>4, <1>8
<1>. HIDE DEF g
<1>10. g \in [ReliableAt(m) -> ReliableAt(n)]
  <2>1. \A i \in ReliableAt(m) : g[i] \in ReliableAt(n)
    BY <1>4, <1>5, <1>7, <1>9
  <2>. QED BY <1>9, <2>1
<1>11. ASSUME NEW i \in ReliableAt(m) PROVE n[g[i]] = m[i]
  <2>1. CASE i \in ReliableAt(p)
    BY <1>4, <1>5, <1>7, <1>9, <2>1
  <2>2. CASE i = Len(p) + 1 /\ Reliable(e)
    BY <1>1, <1>2, <1>9, <2>2
  <2>. QED BY <1>4, <2>1, <2>2
<1>12. ASSUME NEW i \in ReliableAt(m), NEW j \in ReliableAt(m), i < j PROVE g[i] < g[j]
  <2>1. i \in ReliableAt(p)
    <3>1. j \in 1 .. Len(p) + 1
      BY <1>1, <1>3, <1>4
    <3>. QED BY <1>1, <1>4, <1>12, <3>1
  <2>2. CASE j \in ReliableAt(p)
    BY <1>6, <1>9, <1>12, <2>1, <2>2 DEF SameReliableBy
  <2>3. CASE j = Len(p) + 1 /\ Reliable(e)
    BY <1>5, <1>7, <1>9, <2>1, <2>3
  <2>. QED BY <1>4, <2>2, <2>3
<1>13. ASSUME NEW k \in ReliableAt(n) PROVE \E i \in ReliableAt(m) : g[i] = k
  <2>1. CASE k \in ReliableAt(q)
    <3>1. PICK i \in ReliableAt(p) : f[i] = k
      BY <1>6, <2>1 DEF SameReliableBy
    <3>. QED BY <1>4, <1>9, <3>1
  <2>2. CASE k = Len(q) + 1 /\ Reliable(e)
    BY <1>4, <1>9, <2>2
  <2>. QED BY <1>5, <2>1, <2>2
<1>14. SameReliableBy(m, n, g)
  BY <1>10, <1>11, <1>12, <1>13 DEF SameReliableBy
<1>15. SameReliable(m, n)
  BY <1>14, SameReliableWitness
<1>. QED BY <1>15 DEF m, n

(* What a push takes out to make room is a level event.                     *)
LEMMA EnqueueReliable ==
  ASSUME NEW q \in Seq(Event), NEW e \in Event
  PROVE  SameReliable(Enqueue(q, e), Append(q, e))
<1>. DEFINE c == Coalesced(q, e)
            p == Evicted(c)
            k == SelectInSeq(q, LAMBDA x : SameKey(x, e))
            l == SelectInSeq(c, Level)
<1>1. c \in Seq(Event) /\ SameReliable(c, q)
  <2>1. c = IF k = 0 THEN q ELSE RemoveAt(q, k)
    BY DEF Coalesced
  <2>2. \/ k = 0 /\ \A i \in 1 .. Len(q) : ~SameKey(q[i], e)
        \/ k \in 1 .. Len(q) /\ SameKey(q[k], e)
    BY FirstSameKey
  <2>. HIDE DEF k, c
  <2>3. CASE k = 0
    BY <2>1, <2>3, SameReliableItself
  <2>4. CASE k \in 1 .. Len(q) /\ SameKey(q[k], e)
    <3>1. c = RemoveAt(q, k) /\ Level(q[k])
      BY <2>1, <2>4 DEF SameKey
    <3>. QED BY <2>4, <3>1, RemoveLevel, RemoveAtThins DEF Thins
  <2>. QED BY <2>2, <2>3, <2>4
<1>. HIDE DEF c
<1>2. p \in Seq(Event) /\ SameReliable(p, c)
  <2>1. p = IF Len(c) >= Capacity /\ l # 0 THEN RemoveAt(c, l) ELSE c
    BY DEF Evicted
  <2>2. \/ l = 0 /\ \A i \in 1 .. Len(c) : ~Level(c[i])
        \/ l \in 1 .. Len(c) /\ Level(c[l])
    BY <1>1, FirstLevel
  <2>. HIDE DEF l, p
  <2>3. CASE p = c
    BY <1>1, <2>3, SameReliableItself
  <2>4. CASE l \in 1 .. Len(c) /\ Level(c[l]) /\ p = RemoveAt(c, l)
    BY <1>1, <2>4, RemoveLevel, RemoveAtThins DEF Thins
  <2>. QED BY <2>1, <2>2, <2>3, <2>4
<1>. HIDE DEF p
<1>3. SameReliable(p, q)
  BY <1>1, <1>2, SameReliableTransitive
<1>4. SameReliable(Append(p, e), Append(q, e))
  BY <1>2, <1>3, AppendReliable
<1>5. Enqueue(q, e) = Append(p, e)
  BY DEF Enqueue, p, c
<1>. QED BY <1>4, <1>5

(* dispatch and drain_node_event_mailbox: the reliable events are delivered *)
(* in the order of their dispatch, and none is lost, whatever is coalesced  *)
(* or evicted around them.                                                  *)
THEOREM ReliableAlwaysFifo == Spec => ReliableFifo
<1>1. ASSUME Inv, [Next]_vars
      PROVE  \/ SameReliable(queue', queue)
             \/ \E t \in Threads : Push(t) /\ SameReliable(queue', Append(queue, ready[t]))
             \/ Receive /\ SameReliable(queue', Tail(queue))
  <2>1. CASE queue' = queue
    BY <2>1, SameReliableItself
  <2>2. ASSUME NEW t \in Threads, Push(t)
        PROVE  SameReliable(queue', Append(queue, ready[t]))
    <3>1. queue \in Seq(Event) /\ ready[t] \in Event
      <4>1. Holds(t)
        BY <2>2 DEF Push, Dispatching, Holds
      <4>. QED BY <1>1, <4>1 DEF Inv, TypeInv, JobInv
    <3>2. queue' = Enqueue(queue, ready[t])
      BY <2>2 DEF Push
    <3>. QED BY <3>1, <3>2, EnqueueReliable
  <2>3. CASE Receive
    <3>1. queue' = Tail(queue)
      BY <2>3 DEF Receive
    <3>. QED BY <2>3, <3>1, SameReliableItself
  <2>4. CASE \E t \in Threads, p \in DOMAIN Script, n \in Nodes : Start(t, p, n)
    BY <2>1, <2>4 DEF Start
  <2>5. ASSUME NEW t \in Threads, Emit(t), ~Push(t) PROVE queue' = queue
    BY <2>5 DEF Emit, Bump, Number, Again, DropDuplicate, Mark, Notify
  <2>6. CASE Consume /\ ~Receive
    BY <2>1, <2>6 DEF Consume, Awake, TakeWake, EndDrain, DropStale, Reduce, EndBatch
  <2>7. CASE UNCHANGED vars
    BY <2>1, <2>7 DEF vars
  <2>. QED BY <1>1, <2>1, <2>2, <2>3, <2>4, <2>5, <2>6, <2>7 DEF Next
<1>2. Inv /\ [Next]_vars
        => [\/ SameReliable(queue', queue)
            \/ \E t \in Threads : Push(t) /\ SameReliable(queue', Append(queue, ready[t]))
            \/ Receive /\ SameReliable(queue', Tail(queue))]_vars
  BY <1>1
<1>. QED BY <1>2, InvHolds, PTL DEF Spec, ReliableFifo
=============================================================================
