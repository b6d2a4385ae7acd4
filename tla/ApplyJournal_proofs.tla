------------------------- MODULE ApplyJournal_proofs -------------------------
(***************************************************************************)
(* Proofs about ApplyJournal for any plans and any numbers of applies,     *)
(* edits and faults.  The steps left of an apply or a recovery are known   *)
(* by their order only (ApplyOrder, RollbackOrder, FinishOrder), which a   *)
(* step taken off the front keeps.  What a step has done is stated for the *)
(* steps that are not left any more: the rollback has put a store back, or *)
(* the cleanup removed the obsolete slots of a kind.  The file part of an  *)
(* invariant (CaptureInv, SlotInv) holds wherever the program ends.        *)
(***************************************************************************)
EXTENDS ApplyJournal, SequenceTheorems, TLAPS

CommitStep == <<"commit", "journal">>
ClearStep == <<"clear", "journal">>

ApplyStepSet ==
  {<<"note", "auxiliary">>, <<"seal", "journal">>, <<"save", "record">>, CommitStep}
    \cup {"record", "create"} \X Kinds \cup {"write"} \X Stores

RollbackStepSet ==
  {<<"save", "replica">>, ClearStep} \cup {"restore"} \X Stores \cup {"remove"} \X Kinds

FinishStepSet ==
  {<<"stale", "privilege">>, <<"stale", "managed">>, <<"stale", "connections">>,
   <<"stale", "profile">>, ClearStep}

Has(seq, step) == \E i \in 1 .. Len(seq) : seq[i] = step

Left(step) == Has(todo, step)

(* Every a of the sequence comes before every b.                            *)
Before(seq, a, b) == \A i, j \in 1 .. Len(seq) : seq[i] = a /\ seq[j] = b => i < j

(* The last step, and nothing but the last step, is the one given.          *)
EndsWith(seq, step) ==
  /\ Len(seq) > 0 /\ seq[Len(seq)] = step
  /\ \A i \in 1 .. Len(seq) : seq[i] = step => i = Len(seq)

(* Each a is followed by a b.                                               *)
Followed(seq, a, b) ==
  \A i \in 1 .. Len(seq) : seq[i] = a => \E j \in i + 1 .. Len(seq) : seq[j] = b

ApplyOrder(seq) ==
  /\ seq \in Seq(ApplyStepSet) /\ EndsWith(seq, CommitStep)
  /\ Before(seq, <<"note", "auxiliary">>, <<"write", "auxiliary">>)
  /\ \A k \in Kinds : /\ Before(seq, <<"record", k>>, <<"create", k>>)
                      /\ Followed(seq, <<"create", k>>, <<"write", "connections">>)

RollbackOrder(seq) ==
  /\ seq \in Seq(RollbackStepSet) /\ EndsWith(seq, ClearStep)
  /\ \A k \in Kinds : Before(seq, <<"restore", "connections">>, <<"remove", k>>)

FinishOrder(seq) == seq \in Seq(FinishStepSet) /\ EndsWith(seq, ClearStep)

-----------------------------------------------------------------------------
(* The parts of the invariant.                                              *)

TypeInv ==
  /\ store \in [Stores -> Nat] /\ record \in [Stores -> Nat]
  /\ view \in [Stores -> Nat] /\ uploaded \in [Stores -> Nat]
  /\ refs \in [Kinds -> Slots \cup {None}]
  /\ queue \in SUBSET Slots /\ slots \in SUBSET Slots
  /\ journal \in Journals \cup {None}
  /\ phase \in {"down", "idle", "planned", "applying", "recovering", "applied"}
  /\ reason \in {"none", "start", "sync", "failed", "applied"}
  /\ plan \in Changes \cup {None}
  /\ DOMAIN made \subseteq Kinds
  /\ \A k \in DOMAIN made : made[k] \in Slots \cup {None}
  /\ local \in [Stores -> Nat] \cup {None}
  /\ tidy \in BOOLEAN
  /\ clock \in Nat

(* Where the program is, and what it goes by.                               *)
PhaseInv ==
  /\ phase \in {"applying", "recovering"} <=> todo # << >>
  /\ phase = "applying" => Uncommitted /\ plan # None /\ ApplyOrder(todo)
  /\ phase = "recovering" =>
       journal # None /\ IF journal.committed THEN FinishOrder(todo) ELSE RollbackOrder(todo)
  /\ phase = "planned" => journal = None /\ plan # None
  /\ plan # None => phase \in {"planned", "applying"}
  /\ reason # "none" => phase = "recovering"
  /\ reason = "applied" => journal # None /\ journal.committed
  /\ local # None <=> phase = "applied" \/ reason = "applied"
  /\ phase = "applied" => ~Uncommitted

(* The numbers of contents: what a recovery would leave is not older than   *)
(* the baseline it would leave, and this not older than what was uploaded.  *)
CaptureInv ==
  /\ \A s \in Stores : /\ store[s] <= clock
                       /\ uploaded[s] <= Baseline[s]
                       /\ Baseline[s] <= Outcome.store[s]
  /\ journal # None => \A s \in Stores : journal.store[s] <= clock
  /\ local # None => local = record
  /\ phase = "planned" => \A s \in Stores : record[s] <= view[s] /\ view[s] <= store[s]
  /\ ~Uncommitted => SavedRefs = refs

(* What the apply has done to the stores.                                   *)
WrittenInv ==
  phase = "applying" =>
    /\ \A s \in Stores : journal.store[s] < clock
    /\ ~Left(<<"note", "auxiliary">>) => journal.noted
    /\ ~journal.noted => store["auxiliary"] = journal.store["auxiliary"]
    /\ \A s \in Stores : ~Left(<<"write", s>>) => store[s] = clock
    /\ ~Left(<<"write", "connections">>) => SavedRefs = refs
    /\ ~Left(<<"save", "record">>) => record = [s \in Stores |-> clock]

(* What the rollback has put back.                                          *)
RestoredInv ==
  phase = "recovering" /\ ~journal.committed =>
    /\ \A s \in Stores : ~Left(<<"restore", s>>) => store[s] = Outcome.store[s]
    /\ ~Left(<<"restore", "connections">>) =>
         refs = journal.refs /\ queue = journal.queue /\ made = NothingMade
    /\ ~Left(<<"save", "replica">>) => record = journal.view

Inv == TypeInv /\ PhaseInv /\ CaptureInv /\ WrittenInv /\ RestoredInv

AsOf(set, n) == \A x \in set : x[2] <= n

OwnKind(r) == \A k \in Kinds : r[k] # None => r[k][1] = k

(* The slots while a rollback is pending, by the journal alone, ...          *)
PendingInv ==
  Uncommitted =>
    /\ Live(journal.refs) \subseteq slots
    /\ slots \subseteq Live(journal.refs) \cup journal.queue \cup journal.created
    /\ journal.queue \cap Live(journal.refs) = {} /\ journal.created \cap Live(journal.refs) = {}
    /\ queue \subseteq journal.queue

(* ... and otherwise.                                                        *)
SettledInv ==
  ~Uncommitted =>
    /\ Live(refs) \subseteq slots
    /\ slots \subseteq Live(refs) \cup queue
                         \cup (IF journal = None THEN {} ELSE journal.stale \cup journal.dropped)
    /\ queue \cap Live(refs) = {}
    /\ journal # None => journal.dropped \cap Live(refs) = {}

(* A slot is named by its kind and a number that has been used.             *)
NamedInv ==
  /\ AsOf(slots, clock) /\ AsOf(queue, clock) /\ AsOf(Live(refs), clock) /\ OwnKind(refs)
  /\ \A k \in DOMAIN made : made[k] # None => made[k][1] = k /\ made[k][2] <= clock
  /\ journal # None =>
       /\ AsOf(Live(journal.refs), clock) /\ AsOf(journal.queue, clock)
       /\ AsOf(journal.created, clock) /\ AsOf(journal.stale, clock)
       /\ AsOf(journal.dropped, clock) /\ OwnKind(journal.refs)

SlotInv == PendingInv /\ SettledInv /\ NamedInv

(* What the apply has made, and for what.                                   *)
MadeInv ==
  phase = "applying" =>
    /\ queue = journal.queue
    /\ AsOf(Live(journal.refs), clock - 1) /\ AsOf(journal.queue, clock - 1)
    /\ journal.created \subseteq Kinds \X {clock}
    /\ \A k \in Kinds :
         /\ plan[k] = "drop" => k \in DOMAIN made
         /\ Left(<<"create", k>>) => plan[k] = "replace"
         /\ Left(<<"create", k>>) /\ ~Left(<<"record", k>>) => <<k, clock>> \in journal.created
         /\ <<k, clock>> \in slots => k \in DOMAIN made /\ made[k] = <<k, clock>>
         /\ refs[k] = journal.refs[k] \/ (k \in DOMAIN made /\ refs[k] = made[k])
    /\ \A k \in DOMAIN made :
         \/ plan[k] = "drop" /\ made[k] = None
         \/ /\ plan[k] = "replace" /\ made[k] = <<k, clock>>
            /\ <<k, clock>> \in slots \cap journal.created
    /\ ~Left(<<"seal", "journal">>) =>
         journal.stale = Obsolete("replace") /\ journal.dropped = Obsolete("drop")

(* What the rollback has removed.                                           *)
RemovedInv ==
  phase = "recovering" /\ ~journal.committed =>
    \A k \in Kinds : ~Left(<<"remove", k>>) => OfKind(journal.created, k) \cap slots = {}

(* What the cleanup has removed, or queued.                                 *)
CleanedInv ==
  phase = "recovering" /\ journal.committed =>
    /\ \A k \in Kinds : ~Left(<<"stale", k>>) =>
         OfKind(journal.stale, k) \cap slots \subseteq Live(refs) \cup queue
    /\ ~Left(<<"stale", "connections">>) =>
         journal.dropped \cap slots \subseteq Live(refs) \cup queue

SecretInv == SlotInv /\ MadeInv /\ RemovedInv /\ CleanedInv

-----------------------------------------------------------------------------
(* Sequences of steps.                                                      *)

LEMMA TailElements ==
  ASSUME NEW S, NEW seq \in Seq(S), seq # << >>
  PROVE  /\ Len(seq) \in Nat /\ Len(seq) >= 1 /\ Head(seq) = seq[1] /\ seq[1] \in S
         /\ Tail(seq) \in Seq(S) /\ Len(Tail(seq)) = Len(seq) - 1
         /\ \A i \in 1 .. Len(Tail(seq)) : Tail(seq)[i] = seq[i + 1]
  OBVIOUS

(* Only the first step is not left any more.                                *)
LEMMA TailHas ==
  ASSUME NEW S, NEW seq \in Seq(S), seq # << >>
  PROVE  /\ Has(seq, Head(seq))
         /\ \A a : Has(Tail(seq), a) => Has(seq, a)
         /\ \A a : Has(seq, a) /\ a # Head(seq) => Has(Tail(seq), a)
<1>1. Len(seq) \in Nat /\ Len(seq) >= 1 /\ Head(seq) = seq[1]
  BY TailElements
<1>2. Len(Tail(seq)) = Len(seq) - 1 /\ \A i \in 1 .. Len(seq) - 1 : Tail(seq)[i] = seq[i + 1]
  BY TailElements
<1>3. Has(seq, Head(seq))
  BY <1>1 DEF Has
<1>4. ASSUME NEW a, Has(Tail(seq), a) PROVE Has(seq, a)
  <2>1. PICK i \in 1 .. Len(seq) - 1 : seq[i + 1] = a
    BY <1>2, <1>4 DEF Has
  <2>2. i + 1 \in 1 .. Len(seq)
    BY <1>1, <2>1
  <2>. QED BY <2>1, <2>2 DEF Has
<1>5. ASSUME NEW a, Has(seq, a), a # Head(seq) PROVE Has(Tail(seq), a)
  <2>1. PICK i \in 1 .. Len(seq) : seq[i] = a
    BY <1>5 DEF Has
  <2>2. i - 1 \in 1 .. Len(seq) - 1 /\ (i - 1) + 1 = i
    BY <1>1, <1>5, <2>1
  <2>3. Tail(seq)[i - 1] = seq[(i - 1) + 1]
    BY <1>2, <2>2
  <2>. QED BY <1>2, <2>1, <2>2, <2>3 DEF Has
<1>. QED BY <1>3, <1>4, <1>5

LEMMA TailBefore ==
  ASSUME NEW S, NEW seq \in Seq(S), seq # << >>, NEW a, NEW b, Before(seq, a, b)
  PROVE  Before(Tail(seq), a, b)
<1>1. Len(seq) \in Nat /\ Len(Tail(seq)) = Len(seq) - 1
      /\ \A i \in 1 .. Len(seq) - 1 : Tail(seq)[i] = seq[i + 1] /\ i + 1 \in 1 .. Len(seq)
  BY TailElements
<1>2. ASSUME NEW i \in 1 .. Len(seq) - 1, NEW j \in 1 .. Len(seq) - 1,
             Tail(seq)[i] = a, Tail(seq)[j] = b
      PROVE  i < j
  <2>1. i + 1 < j + 1
    BY <1>1, <1>2 DEF Before
  <2>. QED BY <2>1
<1>. QED BY <1>1, <1>2 DEF Before

LEMMA TailFollowed ==
  ASSUME NEW S, NEW seq \in Seq(S), seq # << >>, NEW a, NEW b, Followed(seq, a, b)
  PROVE  Followed(Tail(seq), a, b)
<1>1. Len(seq) \in Nat /\ Len(Tail(seq)) = Len(seq) - 1
      /\ \A i \in 1 .. Len(seq) - 1 : Tail(seq)[i] = seq[i + 1] /\ i + 1 \in 1 .. Len(seq)
  BY TailElements
<1>2. ASSUME NEW i \in 1 .. Len(seq) - 1, Tail(seq)[i] = a
      PROVE  \E j \in i + 1 .. Len(seq) - 1 : Tail(seq)[j] = b
  <2>1. PICK j \in (i + 1) + 1 .. Len(seq) : seq[j] = b
    BY <1>1, <1>2 DEF Followed
  <2>2. j - 1 \in i + 1 .. Len(seq) - 1 /\ j - 1 \in 1 .. Len(seq) - 1 /\ (j - 1) + 1 = j
    BY <1>1, <2>1
  <2>3. Tail(seq)[j - 1] = seq[(j - 1) + 1]
    BY <1>1, <2>2
  <2>. QED BY <2>1, <2>2, <2>3
<1>. QED BY <1>1, <1>2 DEF Followed

(* The step that ends a sequence is the only one then; another has a rest   *)
(* that ends like the sequence.                                             *)
LEMMA TailEndsWith ==
  ASSUME NEW S, NEW seq \in Seq(S), NEW step, EndsWith(seq, step)
  PROVE  /\ seq # << >>
         /\ Head(seq) = step => \A a : Has(seq, a) => a = step
         /\ Head(seq) # step => Tail(seq) # << >> /\ EndsWith(Tail(seq), step)
<1>1. seq # << >> /\ Len(seq) \in Nat /\ Len(seq) >= 1
  BY DEF EndsWith
<1>2. Head(seq) = seq[1] /\ Len(Tail(seq)) = Len(seq) - 1
      /\ \A i \in 1 .. Len(seq) - 1 : Tail(seq)[i] = seq[i + 1] /\ i + 1 \in 1 .. Len(seq)
  BY <1>1, TailElements
<1>. DEFINE n == Len(seq)
<1>0. seq[n] = step /\ \A i \in 1 .. n : seq[i] = step => i = n
  BY DEF EndsWith
<1>3. ASSUME Head(seq) = step, NEW a, Has(seq, a) PROVE a = step
  <2>1. 1 \in 1 .. n
    BY <1>1
  <2>2. n = 1
    BY <1>2, <1>3, <1>0, <2>1
  <2>. QED BY <1>2, <1>3, <2>2 DEF Has
<1>4. ASSUME Head(seq) # step PROVE Tail(seq) # << >> /\ EndsWith(Tail(seq), step)
  <2>. HIDE DEF n
  <2>0. n \in Nat /\ n >= 1 /\ Len(Tail(seq)) = n - 1 /\ seq[1] # step
        /\ \A i \in 1 .. n - 1 : Tail(seq)[i] = seq[i + 1] /\ i + 1 \in 1 .. n
    BY <1>1, <1>2, <1>4 DEF n
  <2>1. n - 1 > 0 /\ n - 1 \in 1 .. n - 1 /\ (n - 1) + 1 = n
    BY <2>0, <1>0
  <2>2. Tail(seq)[n - 1] = step
    BY <2>0, <2>1, <1>0
  <2>3. \A i \in 1 .. n - 1 : Tail(seq)[i] = step => i = n - 1
    BY <2>0, <1>0
  <2>4. Tail(seq) # << >>
    <3>1. Len(Tail(seq)) # Len(<< >>)
      BY <2>0, <2>1
    <3>. QED BY <3>1
  <2>. QED BY <2>0, <2>1, <2>2, <2>3, <2>4 DEF EndsWith
<1>. QED BY <1>1, <1>3, <1>4

LEMMA ConcatElements ==
  ASSUME NEW S, NEW s \in Seq(S), NEW t \in Seq(S)
  PROVE  /\ s \o t \in Seq(S) /\ Len(s \o t) = Len(s) + Len(t)
         /\ Len(s) \in Nat /\ Len(t) \in Nat
         /\ \A i \in 1 .. Len(s) : (s \o t)[i] = s[i]
         /\ \A i \in Len(s) + 1 .. Len(s) + Len(t) :
              (s \o t)[i] = t[i - Len(s)] /\ i - Len(s) \in 1 .. Len(t)
  OBVIOUS

LEMMA ConcatHas ==
  ASSUME NEW S, NEW s \in Seq(S), NEW t \in Seq(S)
  PROVE  \A a : Has(s \o t, a) <=> Has(s, a) \/ Has(t, a)
<1>. DEFINE m == Len(s)
            n == Len(t)
<1>1. /\ Len(s \o t) = m + n /\ m \in Nat /\ n \in Nat
      /\ \A i \in 1 .. m : (s \o t)[i] = s[i]
      /\ \A i \in m + 1 .. m + n : (s \o t)[i] = t[i - m] /\ i - m \in 1 .. n
  BY ConcatElements
<1>2. ASSUME NEW a, Has(s \o t, a) PROVE Has(s, a) \/ Has(t, a)
  <2>1. PICK i \in 1 .. m + n : (s \o t)[i] = a
    BY <1>1, <1>2 DEF Has
  <2>2. i \in 1 .. m \/ i \in m + 1 .. m + n
    BY <1>1, <2>1
  <2>. QED BY <1>1, <2>1, <2>2 DEF Has
<1>3. ASSUME NEW a, Has(s, a) PROVE Has(s \o t, a)
  <2>1. PICK i \in 1 .. m : s[i] = a
    BY <1>3 DEF Has
  <2>2. i \in 1 .. m + n
    BY <1>1, <2>1
  <2>. QED BY <1>1, <2>1, <2>2 DEF Has
<1>4. ASSUME NEW a, Has(t, a) PROVE Has(s \o t, a)
  <2>1. PICK i \in 1 .. n : t[i] = a
    BY <1>4 DEF Has
  <2>2. m + i \in m + 1 .. m + n /\ (m + i) - m = i /\ m + i \in 1 .. m + n
    BY <1>1, <2>1
  <2>3. (s \o t)[m + i] = t[(m + i) - m]
    BY <1>1, <2>2
  <2>. QED BY <1>1, <2>1, <2>2, <2>3 DEF Has
<1>. QED BY <1>2, <1>3, <1>4

LEMMA ConcatBefore ==
  ASSUME NEW S, NEW s \in Seq(S), NEW t \in Seq(S), NEW a, NEW b,
         Before(s, a, b), Before(t, a, b), ~Has(t, a) \/ ~Has(s, b)
  PROVE  Before(s \o t, a, b)
<1>. DEFINE m == Len(s)
            n == Len(t)
<1>1. /\ Len(s \o t) = m + n /\ m \in Nat /\ n \in Nat
      /\ \A i \in 1 .. m : (s \o t)[i] = s[i]
      /\ \A i \in m + 1 .. m + n : (s \o t)[i] = t[i - m] /\ i - m \in 1 .. n
  BY ConcatElements
<1>2. ASSUME NEW i \in 1 .. m + n, NEW j \in 1 .. m + n, (s \o t)[i] = a, (s \o t)[j] = b
      PROVE  i < j
  <2>1. i \in 1 .. m \/ i \in m + 1 .. m + n
    BY <1>1
  <2>2. j \in 1 .. m \/ j \in m + 1 .. m + n
    BY <1>1
  <2>3. CASE i \in 1 .. m /\ j \in 1 .. m
    BY <1>1, <1>2, <2>3 DEF Before
  <2>4. CASE i \in 1 .. m /\ j \in m + 1 .. m + n
    BY <1>1, <2>4
  <2>5. CASE i \in m + 1 .. m + n /\ j \in 1 .. m
    BY <1>1, <1>2, <2>5 DEF Has
  <2>6. CASE i \in m + 1 .. m + n /\ j \in m + 1 .. m + n
    <3>1. i - m < j - m
      BY <1>1, <1>2, <2>6 DEF Before
    <3>. QED BY <1>1, <3>1
  <2>. QED BY <2>1, <2>2, <2>3, <2>4, <2>5, <2>6
<1>. QED BY <1>1, <1>2 DEF Before

LEMMA ConcatFollowed ==
  ASSUME NEW S, NEW s \in Seq(S), NEW t \in Seq(S), NEW a, NEW b, ~Has(t, a), Has(t, b)
  PROVE  Followed(s \o t, a, b)
<1>. DEFINE m == Len(s)
            n == Len(t)
<1>1. /\ Len(s \o t) = m + n /\ m \in Nat /\ n \in Nat
      /\ \A i \in m + 1 .. m + n : (s \o t)[i] = t[i - m] /\ i - m \in 1 .. n
  BY ConcatElements
<1>2. PICK k \in 1 .. n : t[k] = b
  BY DEF Has
<1>3. ASSUME NEW i \in 1 .. m + n, (s \o t)[i] = a
      PROVE  \E j \in i + 1 .. m + n : (s \o t)[j] = b
  <2>1. ~(i \in m + 1 .. m + n)
    BY <1>1, <1>3 DEF Has
  <2>2. m + k \in i + 1 .. m + n /\ m + k \in m + 1 .. m + n /\ (m + k) - m = k
    BY <1>1, <2>1
  <2>3. (s \o t)[m + k] = b
    BY <1>1, <1>2, <2>2
  <2>. QED BY <2>2, <2>3
<1>. QED BY <1>1, <1>3 DEF Followed

LEMMA ConcatEndsWith ==
  ASSUME NEW S, NEW s \in Seq(S), NEW t \in Seq(S), NEW step, ~Has(s, step), EndsWith(t, step)
  PROVE  EndsWith(s \o t, step)
<1>. DEFINE m == Len(s)
            n == Len(t)
<1>1. /\ Len(s \o t) = m + n /\ m \in Nat /\ n \in Nat
      /\ \A i \in 1 .. m : (s \o t)[i] = s[i]
      /\ \A i \in m + 1 .. m + n : (s \o t)[i] = t[i - m] /\ i - m \in 1 .. n
  BY ConcatElements
<1>0. n > 0 /\ t[n] = step /\ \A i \in 1 .. n : t[i] = step => i = n
  BY DEF EndsWith
<1>. HIDE DEF m, n
<1>2. n > 0 /\ m + n \in m + 1 .. m + n /\ (m + n) - m = n
  BY <1>1, <1>0
<1>3. (s \o t)[m + n] = step
  BY <1>1, <1>2, <1>0
<1>4. ASSUME NEW i \in 1 .. m + n, (s \o t)[i] = step PROVE i = m + n
  <2>1. i \in m + 1 .. m + n
    BY <1>1, <1>4 DEF Has, m
  <2>2. i - m = n
    BY <1>1, <1>4, <2>1, <1>0
  <2>. QED BY <1>1, <2>1, <2>2
<1>5. Len(s \o t) > 0
  BY <1>1, <1>0
<1>. QED BY <1>1, <1>3, <1>4, <1>5 DEF EndsWith

-----------------------------------------------------------------------------
(* The steps of an apply and of a recovery.                                 *)

Creating(k) == {"record", "create"} \X {k}

LEMMA CreationOrder ==
  ASSUME NEW k \in Kinds, NEW change \in Changes
  PROVE  /\ Creation(k, change) \in Seq(Creating(k)) /\ Creation(k, change) \in Seq(ApplyStepSet)
         /\ Before(Creation(k, change), <<"record", k>>, <<"create", k>>)
         /\ \A m \in Kinds : Has(Creation(k, change), <<"create", m>>) =>
              m = k /\ change[k] = "replace" /\ Has(Creation(k, change), <<"record", k>>)
<1>. DEFINE C == Creation(k, change)
            pair == << <<"record", k>>, <<"create", k>> >>
<1>0. <<"record", k>> \in Creating(k) /\ <<"create", k>> \in Creating(k) /\ Creating(k) \subseteq ApplyStepSet
  BY DEF Creating, ApplyStepSet
<1>1. CASE change[k] = "replace"
  <2>1. C = pair
    BY <1>1 DEF Creation
  <2>2. /\ pair \in Seq(Creating(k)) /\ pair \in Seq(ApplyStepSet) /\ Len(pair) = 2
        /\ pair[1] = <<"record", k>> /\ pair[2] = <<"create", k>>
    BY <1>0
  <2>. HIDE DEF pair, C
  <2>3. /\ C \in Seq(Creating(k)) /\ C \in Seq(ApplyStepSet) /\ Len(C) = 2
        /\ C[1] = <<"record", k>> /\ C[2] = <<"create", k>>
    BY <2>1, <2>2
  <2>4. \A i \in 1 .. 2 : i = 1 \/ i = 2
    OBVIOUS
  <2>5. Before(C, <<"record", k>>, <<"create", k>>)
    BY <2>3, <2>4 DEF Before
  <2>6. Has(C, <<"record", k>>)
    BY <2>3 DEF Has
  <2>7. \A m \in Kinds : Has(C, <<"create", m>>) => m = k
    BY <2>3, <2>4 DEF Has
  <2>. QED BY <1>1, <2>3, <2>5, <2>6, <2>7 DEF C
<1>2. CASE change[k] # "replace"
  <2>1. C = << >> /\ Len(C) = 0
    BY <1>2 DEF Creation
  <2>. HIDE DEF C
  <2>2. Before(C, <<"record", k>>, <<"create", k>>) /\ \A a : ~Has(C, a)
    BY <2>1 DEF Before, Has
  <2>3. C \in Seq(Creating(k)) /\ C \in Seq(ApplyStepSet)
    BY <2>1
  <2>. QED BY <2>2, <2>3 DEF C
<1>. QED BY <1>1, <1>2

(* A sequence over a set has no other step.                                 *)
LEMMA HasElement ==
  ASSUME NEW S, NEW seq \in Seq(S), NEW a, Has(seq, a)
  PROVE  a \in S
  BY DEF Has

LEMMA BeforeAbsent ==
  ASSUME NEW seq, NEW a, NEW b, ~Has(seq, a) \/ ~Has(seq, b)
  PROVE  Before(seq, a, b)
  BY DEF Before, Has

Domains == << <<"write", "connections">>, <<"write", "forwards">>, <<"write", "commands">>,
              <<"write", "settings">>, <<"write", "plugins">> >>

Saving == << <<"write", "settings">>, <<"write", "connections">>, <<"write", "auxiliary">>,
             <<"seal", "journal">>, <<"save", "record">>, <<"commit", "journal">> >>

Second == << <<"write", "connections">> >>

Changing(change) ==
  Creation("managed", change) \o Domains \o Creation("privilege", change) \o Second
    \o Creation("profile", change)

LEMMA FixedSteps ==
  /\ Domains \in Seq({"write"} \X (Stores \ {"auxiliary"}))
  /\ Second \in Seq({"write"} \X (Stores \ {"auxiliary"}))
  /\ Has(Domains, <<"write", "forwards">>) /\ Has(Domains, <<"write", "commands">>)
  /\ Has(Domains, <<"write", "plugins">>)
  /\ Saving \in Seq(ApplyStepSet) /\ EndsWith(Saving, CommitStep)
  /\ Has(Saving, <<"write", "settings">>) /\ Has(Saving, <<"write", "connections">>)
  /\ Has(Saving, <<"write", "auxiliary">>) /\ Has(Saving, <<"seal", "journal">>)
  /\ Has(Saving, <<"save", "record">>)
  /\ ~Has(Saving, <<"note", "auxiliary">>)
  /\ \A k \in Kinds : ~Has(Saving, <<"record", k>>) /\ ~Has(Saving, <<"create", k>>)
<1>. DEFINE D == Domains
            L == Saving
<1>1. /\ D \in Seq({"write"} \X (Stores \ {"auxiliary"})) /\ Len(D) = 5
      /\ D[2] = <<"write", "forwards">> /\ D[3] = <<"write", "commands">>
      /\ D[5] = <<"write", "plugins">>
  BY DEF Domains, Stores
<1>2. Second \in Seq({"write"} \X (Stores \ {"auxiliary"}))
  BY DEF Second, Stores
<1>3. /\ L \in Seq(ApplyStepSet) /\ Len(L) = 6
      /\ L[1] = <<"write", "settings">> /\ L[2] = <<"write", "connections">>
      /\ L[3] = <<"write", "auxiliary">> /\ L[4] = <<"seal", "journal">>
      /\ L[5] = <<"save", "record">> /\ L[6] = CommitStep
  BY DEF Saving, ApplyStepSet, Stores, CommitStep
<1>. HIDE DEF D, L
<1>4. \A i \in 1 .. 6 : i = 1 \/ i = 2 \/ i = 3 \/ i = 4 \/ i = 5 \/ i = 6
  OBVIOUS
<1>5. EndsWith(L, CommitStep)
  BY <1>3, <1>4 DEF EndsWith, CommitStep
<1>6. /\ Has(L, <<"write", "settings">>) /\ Has(L, <<"write", "connections">>)
      /\ Has(L, <<"write", "auxiliary">>) /\ Has(L, <<"seal", "journal">>)
      /\ Has(L, <<"save", "record">>)
  BY <1>3 DEF Has
<1>7. ~Has(L, <<"note", "auxiliary">>) /\ \A k \in Kinds : ~Has(L, <<"record", k>>) /\ ~Has(L, <<"create", k>>)
  BY <1>3, <1>4 DEF Has, CommitStep
<1>8. Has(D, <<"write", "forwards">>) /\ Has(D, <<"write", "commands">>) /\ Has(D, <<"write", "plugins">>)
  BY <1>1 DEF Has
<1>. QED BY <1>1, <1>2, <1>3, <1>5, <1>6, <1>7, <1>8 DEF D, L

LEMMA WiderSeq ==
  ASSUME NEW A, NEW B, A \subseteq B, NEW seq \in Seq(A)
  PROVE  seq \in Seq(B)
  OBVIOUS

LEMMA ChangingOrder ==
  ASSUME NEW change \in Changes
  PROVE  /\ Changing(change) \in Seq(ApplyStepSet \ {CommitStep})
         /\ ~Has(Changing(change), CommitStep)
         /\ ~Has(Changing(change), <<"note", "auxiliary">>)
         /\ ~Has(Changing(change), <<"write", "auxiliary">>)
         /\ \A s \in {"forwards", "commands", "plugins"} : Has(Changing(change), <<"write", s>>)
         /\ \A k \in Kinds :
              /\ Before(Changing(change), <<"record", k>>, <<"create", k>>)
              /\ Has(Changing(change), <<"create", k>>) =>
                   change[k] = "replace" /\ Has(Changing(change), <<"record", k>>)
<1>. DEFINE S == ApplyStepSet \ {CommitStep, <<"note", "auxiliary">>, <<"write", "auxiliary">>}
            W == {"write"} \X (Stores \ {"auxiliary"})
            C(k) == Creation(k, change)
            s2 == C("managed") \o Domains
            s3 == s2 \o C("privilege")
            s4 == s3 \o Second
            s5 == s4 \o C("profile")
<1>1. /\ "managed" \in Kinds /\ "privilege" \in Kinds /\ "profile" \in Kinds
      /\ \A k \in Kinds : k = "managed" \/ k = "privilege" \/ k = "profile"
  BY DEF Kinds
<1>2. W \subseteq S /\ \A k \in Kinds : Creating(k) \subseteq S
  BY DEF Creating, ApplyStepSet, CommitStep
<1>3. Domains \in Seq(W) /\ Second \in Seq(W)
  BY FixedSteps
<1>4. ASSUME NEW k \in Kinds
      PROVE  /\ C(k) \in Seq(Creating(k))
             /\ Before(C(k), <<"record", k>>, <<"create", k>>)
             /\ \A m \in Kinds : Has(C(k), <<"create", m>>) =>
                  m = k /\ change[k] = "replace" /\ Has(C(k), <<"record", k>>)
             /\ \A m \in Kinds : Has(C(k), <<"record", m>>) => m = k
  <2>1. C(k) \in Seq(Creating(k))
    BY CreationOrder
  <2>2. \A m \in Kinds : Has(C(k), <<"record", m>>) => <<"record", m>> \in Creating(k)
    BY <2>1, HasElement
  <2>. QED BY <2>1, <2>2, CreationOrder DEF Creating
<1>. HIDE DEF S, C
<1>5. /\ Domains \in Seq(S) /\ Second \in Seq(S) /\ C("managed") \in Seq(S)
      /\ C("privilege") \in Seq(S) /\ C("profile") \in Seq(S)
  <2>. HIDE DEF W
  <2>. QED BY <1>1, <1>2, <1>3, <1>4, WiderSeq
<1>6. s2 \in Seq(S) /\ s3 \in Seq(S) /\ s4 \in Seq(S) /\ s5 \in Seq(S)
  BY <1>5
<1>7. \A a : Has(s5, a) <=> \/ Has(C("managed"), a) \/ Has(Domains, a)
                            \/ Has(C("privilege"), a) \/ Has(Second, a) \/ Has(C("profile"), a)
  <2>. HIDE DEF s2, s3, s4
  <2>1. \A a : Has(s5, a) <=> Has(s4, a) \/ Has(C("profile"), a)
    BY <1>5, <1>6, ConcatHas
  <2>2. \A a : Has(s4, a) <=> Has(s3, a) \/ Has(Second, a)
    BY <1>5, <1>6, ConcatHas DEF s4
  <2>3. \A a : Has(s3, a) <=> Has(s2, a) \/ Has(C("privilege"), a)
    BY <1>5, <1>6, ConcatHas DEF s3
  <2>4. \A a : Has(s2, a) <=> Has(C("managed"), a) \/ Has(Domains, a)
    BY <1>5, <1>6, ConcatHas DEF s2
  <2>. QED BY <2>1, <2>2, <2>3, <2>4
<1>8. \A k \in Kinds : /\ ~Has(Domains, <<"record", k>>) /\ ~Has(Domains, <<"create", k>>)
                       /\ ~Has(Second, <<"record", k>>) /\ ~Has(Second, <<"create", k>>)
  <2>1. \A k \in Kinds : <<"record", k>> \notin W /\ <<"create", k>> \notin W
    OBVIOUS
  <2>. HIDE DEF W
  <2>. QED BY <1>3, <2>1, HasElement
<1>9. ASSUME NEW k \in Kinds
      PROVE  /\ Before(s5, <<"record", k>>, <<"create", k>>)
             /\ Has(s5, <<"create", k>>) => change[k] = "replace" /\ Has(s5, <<"record", k>>)
  <2>. DEFINE r == <<"record", k>>
              c == <<"create", k>>
  <2>1. \A m \in Kinds : Before(C(m), r, c) /\ (m # k => ~Has(C(m), r) /\ ~Has(C(m), c))
    BY <1>4, BeforeAbsent
  <2>2. /\ Before(Domains, r, c) /\ Before(Second, r, c)
        /\ ~Has(Domains, r) /\ ~Has(Domains, c) /\ ~Has(Second, r) /\ ~Has(Second, c)
    BY <1>8, BeforeAbsent
  <2>3. \A a : /\ Has(s2, a) <=> Has(C("managed"), a) \/ Has(Domains, a)
               /\ Has(s3, a) <=> Has(s2, a) \/ Has(C("privilege"), a)
               /\ Has(s4, a) <=> Has(s3, a) \/ Has(Second, a)
    <3>. HIDE DEF s2, s3
    <3>1. \A a : Has(s2, a) <=> Has(C("managed"), a) \/ Has(Domains, a)
      BY <1>5, ConcatHas DEF s2
    <3>2. \A a : Has(s3, a) <=> Has(s2, a) \/ Has(C("privilege"), a)
      BY <1>5, <1>6, ConcatHas DEF s3
    <3>3. \A a : Has(s4, a) <=> Has(s3, a) \/ Has(Second, a)
      BY <1>5, <1>6, ConcatHas
    <3>. QED BY <3>1, <3>2, <3>3
  <2>. HIDE DEF r, c
  <2>4. Before(s2, r, c)
    BY <1>1, <1>5, <2>1, <2>2, ConcatBefore
  <2>5. Before(s3, r, c)
    <3>1. ~Has(s2, c) \/ ~Has(C("privilege"), r)
      BY <1>1, <2>1, <2>2, <2>3
    <3>. HIDE DEF s2
    <3>. QED BY <1>1, <1>5, <1>6, <2>1, <2>4, <3>1, ConcatBefore DEF s3
  <2>6. Before(s4, r, c)
    <3>. HIDE DEF s3
    <3>. QED BY <1>5, <1>6, <2>2, <2>5, ConcatBefore DEF s4
  <2>7. Before(s5, r, c)
    <3>1. ~Has(s4, c) \/ ~Has(C("profile"), r)
      BY <1>1, <2>1, <2>2, <2>3
    <3>. HIDE DEF s4
    <3>. QED BY <1>1, <1>5, <1>6, <2>1, <2>6, <3>1, ConcatBefore DEF s5
  <2>8. Has(s5, c) => \E m \in Kinds : Has(C(m), c) /\ (Has(C(m), r) => Has(s5, r))
    BY <1>1, <1>7, <2>2
  <2>9. Has(s5, c) => change[k] = "replace" /\ Has(s5, r)
    BY <1>4, <2>8 DEF r, c
  <2>. QED BY <2>7, <2>9 DEF r, c
<1>10. Changing(change) = s5
  BY DEF Changing, C
<1>. HIDE DEF s5
<1>11. /\ ~Has(s5, CommitStep) /\ ~Has(s5, <<"note", "auxiliary">>)
       /\ ~Has(s5, <<"write", "auxiliary">>)
  <2>1. /\ CommitStep \notin S /\ <<"note", "auxiliary">> \notin S
        /\ <<"write", "auxiliary">> \notin S
    BY DEF S
  <2>. QED BY <1>6, <2>1, HasElement
<1>12. \A s \in {"forwards", "commands", "plugins"} : Has(s5, <<"write", s>>)
  BY <1>7, FixedSteps
<1>13. S \subseteq ApplyStepSet \ {CommitStep}
  BY DEF S
<1>14. s5 \in Seq(ApplyStepSet \ {CommitStep})
  BY <1>6, <1>13
<1>. QED BY <1>9, <1>10, <1>11, <1>12, <1>14

(* Where an apply starts.                                                   *)
LEMMA ApplyStepsOrder ==
  ASSUME NEW change \in Changes
  PROVE  /\ ApplyOrder(ApplySteps(change)) /\ ApplySteps(change) # << >>
         /\ \A s \in Stores : Has(ApplySteps(change), <<"write", s>>)
         /\ Has(ApplySteps(change), <<"note", "auxiliary">>)
         /\ Has(ApplySteps(change), <<"seal", "journal">>)
         /\ Has(ApplySteps(change), <<"save", "record">>)
         /\ \A k \in Kinds : Has(ApplySteps(change), <<"create", k>>) =>
              change[k] = "replace" /\ Has(ApplySteps(change), <<"record", k>>)
<1>. DEFINE N == << <<"note", "auxiliary">> >>
            M == Changing(change)
            L == Saving
            R == M \o L
            A == N \o R
            note == <<"note", "auxiliary">>
            aux == <<"write", "auxiliary">>
<1>1. ApplySteps(change) = A
  BY DEF ApplySteps, Writes, Changing, Domains, Second, Saving
<1>2. /\ N \in Seq(ApplyStepSet) /\ Len(N) = 1 /\ N[1] = note
  BY DEF ApplyStepSet
<1>3. \A a : Has(N, a) <=> a = note
  BY <1>2 DEF Has
<1>4. M \in Seq(ApplyStepSet) /\ L \in Seq(ApplyStepSet) /\ R \in Seq(ApplyStepSet)
  <2>1. M \in Seq(ApplyStepSet \ {CommitStep})
    BY ChangingOrder
  <2>2. M \in Seq(ApplyStepSet)
    BY <2>1
  <2>. QED BY <2>2, FixedSteps
<1>. HIDE DEF N, M, L
<1>5. \A a : Has(R, a) <=> Has(M, a) \/ Has(L, a)
  BY <1>4, ConcatHas
<1>. HIDE DEF R
<1>6. \A a : Has(A, a) <=> a = note \/ Has(M, a) \/ Has(L, a)
  BY <1>2, <1>3, <1>4, <1>5, ConcatHas
<1>7. A \in Seq(ApplyStepSet)
  BY <1>2, <1>4
<1>8. EndsWith(A, CommitStep)
  <2>1. EndsWith(R, CommitStep)
    BY <1>4, ConcatEndsWith, ChangingOrder, FixedSteps DEF M, L, R
  <2>2. ~Has(N, CommitStep)
    BY <1>3 DEF CommitStep
  <2>. QED BY <1>2, <1>4, <2>1, <2>2, ConcatEndsWith
<1>9. Before(A, note, aux)
  <2>1. ~Has(R, note)
    BY <1>5, ChangingOrder, FixedSteps DEF M, L
  <2>2. ~Has(N, aux)
    BY <1>3
  <2>3. Before(N, note, aux) /\ Before(R, note, aux)
    BY <2>1, <2>2, BeforeAbsent
  <2>. QED BY <1>2, <1>4, <2>1, <2>3, ConcatBefore
<1>10. ASSUME NEW k \in Kinds
       PROVE  /\ Before(A, <<"record", k>>, <<"create", k>>)
              /\ Followed(A, <<"create", k>>, <<"write", "connections">>)
              /\ Has(A, <<"create", k>>) => change[k] = "replace" /\ Has(A, <<"record", k>>)
  <2>. DEFINE r == <<"record", k>>
              c == <<"create", k>>
              w == <<"write", "connections">>
  <2>1. ~Has(L, r) /\ ~Has(L, c) /\ Has(L, w)
    BY FixedSteps DEF L
  <2>2. ~Has(N, r) /\ ~Has(N, c) /\ ~(c = note)
    BY <1>3
  <2>3. Before(M, r, c) /\ (Has(M, c) => change[k] = "replace" /\ Has(M, r))
    BY ChangingOrder DEF M
  <2>. HIDE DEF r, c, w
  <2>4. Before(L, r, c) /\ Before(N, r, c)
    BY <2>1, <2>2, BeforeAbsent
  <2>5. Before(R, r, c)
    BY <1>4, <2>1, <2>3, <2>4, ConcatBefore DEF R
  <2>6. Before(A, r, c)
    BY <1>2, <1>4, <2>2, <2>4, <2>5, ConcatBefore
  <2>7. Followed(A, c, w)
    <3>1. A = (N \o M) \o L
      BY <1>2, <1>4 DEF R
    <3>2. N \o M \in Seq(ApplyStepSet)
      BY <1>2, <1>4
    <3>. QED BY <1>4, <2>1, <3>1, <3>2, ConcatFollowed
  <2>8. Has(A, c) => change[k] = "replace" /\ Has(A, r)
    BY <1>6, <2>1, <2>2, <2>3
  <2>. QED BY <2>6, <2>7, <2>8 DEF r, c, w
<1>11. ASSUME NEW s \in Stores PROVE Has(A, <<"write", s>>)
  <2>1. s \in {"forwards", "commands", "plugins"} \/ s \in {"settings", "connections", "auxiliary"}
    BY DEF Stores
  <2>. QED BY <1>6, <2>1, ChangingOrder, FixedSteps DEF M, L
<1>12. Has(A, note) /\ Has(A, <<"seal", "journal">>) /\ Has(A, <<"save", "record">>)
  BY <1>6, FixedSteps DEF L
<1>13. A # << >>
  BY <1>7, <1>8, TailEndsWith
<1>. HIDE DEF A
<1>14. ApplyOrder(A)
  BY <1>7, <1>8, <1>9, <1>10 DEF ApplyOrder
<1>. QED BY <1>1, <1>10, <1>11, <1>12, <1>13, <1>14

(* Where a recovery starts.                                                 *)
LEMMA RollbackStepsOrder ==
  /\ RollbackOrder(RecoverySteps(FALSE)) /\ RecoverySteps(FALSE) # << >>
  /\ \A s \in Stores : Has(RecoverySteps(FALSE), <<"restore", s>>)
  /\ \A k \in Kinds : Has(RecoverySteps(FALSE), <<"remove", k>>)
  /\ Has(RecoverySteps(FALSE), <<"save", "replica">>)
<1>. DEFINE R == RecoverySteps(FALSE)
<1>1. /\ R \in Seq(RollbackStepSet) /\ Len(R) = 11
      /\ R[1] = <<"restore", "auxiliary">> /\ R[2] = <<"restore", "connections">>
      /\ R[3] = <<"restore", "settings">> /\ R[4] = <<"restore", "forwards">>
      /\ R[5] = <<"restore", "commands">> /\ R[6] = <<"restore", "plugins">>
      /\ R[7] = <<"remove", "profile">> /\ R[8] = <<"remove", "managed">>
      /\ R[9] = <<"remove", "privilege">> /\ R[10] = <<"save", "replica">> /\ R[11] = ClearStep
  BY DEF RecoverySteps, RollbackStepSet, ClearStep, Stores, Kinds
<1>. HIDE DEF R
<1>2. \A i \in 1 .. 11 : \/ i = 1 \/ i = 2 \/ i = 3 \/ i = 4 \/ i = 5 \/ i = 6 \/ i = 7 \/ i = 8
                        \/ i = 9 \/ i = 10 \/ i = 11
  OBVIOUS
<1>3. EndsWith(R, ClearStep)
  BY <1>1, <1>2 DEF EndsWith, ClearStep
<1>4. \A i \in 1 .. 11 : R[i] = <<"restore", "connections">> => i = 2
  BY <1>1, <1>2 DEF ClearStep
<1>5. ASSUME NEW k \in Kinds PROVE Before(R, <<"restore", "connections">>, <<"remove", k>>)
  <2>1. \A i \in 1 .. 11 : R[i] = <<"remove", k>> => i > 2
    BY <1>1, <1>2 DEF ClearStep
  <2>. QED BY <1>1, <1>4, <2>1 DEF Before
<1>6. \A s \in Stores : Has(R, <<"restore", s>>)
  BY <1>1 DEF Has, Stores
<1>7. \A k \in Kinds : Has(R, <<"remove", k>>)
  BY <1>1 DEF Has, Kinds
<1>8. Has(R, <<"save", "replica">>) /\ R # << >>
  BY <1>1 DEF Has
<1>. QED BY <1>1, <1>3, <1>5, <1>6, <1>7, <1>8 DEF R, RollbackOrder

LEMMA FinishStepsOrder ==
  /\ FinishOrder(RecoverySteps(TRUE)) /\ RecoverySteps(TRUE) # << >>
  /\ \A x \in Kinds \cup {"connections"} : Has(RecoverySteps(TRUE), <<"stale", x>>)
<1>. DEFINE R == RecoverySteps(TRUE)
<1>1. /\ R \in Seq(FinishStepSet) /\ Len(R) = 5
      /\ R[1] = <<"stale", "privilege">> /\ R[2] = <<"stale", "managed">>
      /\ R[3] = <<"stale", "connections">> /\ R[4] = <<"stale", "profile">> /\ R[5] = ClearStep
  BY DEF RecoverySteps, FinishStepSet, ClearStep
<1>. HIDE DEF R
<1>2. \A i \in 1 .. 5 : i = 1 \/ i = 2 \/ i = 3 \/ i = 4 \/ i = 5
  OBVIOUS
<1>3. EndsWith(R, ClearStep)
  BY <1>1, <1>2 DEF EndsWith, ClearStep
<1>4. \A x \in Kinds \cup {"connections"} : Has(R, <<"stale", x>>)
  BY <1>1 DEF Has, Kinds
<1>5. R # << >>
  BY <1>1
<1>. QED BY <1>1, <1>3, <1>4, <1>5 DEF R, FinishOrder

-----------------------------------------------------------------------------
(* Control.                                                                 *)

(* The step succeeds, and the next one is up.                               *)
Forward == todo' = Tail(todo) /\ UNCHANGED <<phase, reason, plan>>

LEMMA WhoseStep ==
  ASSUME PhaseInv, todo # << >>
  PROVE  /\ phase \in {"applying", "recovering"}
         /\ Head(todo) \in ApplyStepSet => phase = "applying"
         /\ Head(todo) \in RollbackStepSet \cup FinishStepSet => phase = "recovering"
         /\ Head(todo) \in RollbackStepSet \ {ClearStep} => ~journal.committed
         /\ Head(todo) \in FinishStepSet \ {ClearStep} => journal.committed
<1>1. phase \in {"applying", "recovering"}
  BY DEF PhaseInv
<1>2. phase = "applying" => Head(todo) \in ApplyStepSet
  BY TailElements DEF PhaseInv, ApplyOrder
<1>3. phase = "recovering" /\ ~journal.committed => Head(todo) \in RollbackStepSet
  BY TailElements DEF PhaseInv, RollbackOrder
<1>4. phase = "recovering" /\ journal.committed => Head(todo) \in FinishStepSet
  BY TailElements DEF PhaseInv, FinishOrder
<1>5. ApplyStepSet \cap (RollbackStepSet \cup FinishStepSet) = {}
  BY DEF ApplyStepSet, RollbackStepSet, FinishStepSet, CommitStep, ClearStep
<1>6. RollbackStepSet \cap FinishStepSet = {ClearStep}
  BY DEF RollbackStepSet, FinishStepSet, ClearStep
<1>. QED BY <1>1, <1>2, <1>3, <1>4, <1>5, <1>6

LEMMA LeftAfter ==
  ASSUME PhaseInv, todo # << >>
  PROVE  /\ Left(Head(todo))
         /\ \A a : Has(Tail(todo), a) => Left(a)
         /\ \A a : Left(a) /\ a # Head(todo) => Has(Tail(todo), a)
<1>1. \E S : todo \in Seq(S)
  BY WhoseStep DEF PhaseInv, ApplyOrder, RollbackOrder, FinishOrder
<1>. QED BY <1>1, TailHas DEF Left

(* The step that ends an apply or a recovery is the last.                   *)
LEMMA LastStep ==
  ASSUME PhaseInv, todo # << >>,
         Head(todo) = (IF phase = "applying" THEN CommitStep ELSE ClearStep)
  PROVE  \A a : a # Head(todo) => ~Left(a)
<1>1. \E S : todo \in Seq(S) /\ EndsWith(todo, Head(todo))
  BY WhoseStep DEF PhaseInv, ApplyOrder, RollbackOrder, FinishOrder
<1>. QED BY <1>1, TailEndsWith DEF Left

LEMMA ApplyTail ==
  ASSUME NEW seq, ApplyOrder(seq), Head(seq) # CommitStep
  PROVE  ApplyOrder(Tail(seq)) /\ Tail(seq) # << >>
<1>1. seq \in Seq(ApplyStepSet) /\ EndsWith(seq, CommitStep)
  BY DEF ApplyOrder
<1>2. seq # << >> /\ Tail(seq) # << >> /\ EndsWith(Tail(seq), CommitStep)
  BY <1>1, TailEndsWith
<1>3. Tail(seq) \in Seq(ApplyStepSet)
  BY <1>1, <1>2
<1>4. Before(Tail(seq), <<"note", "auxiliary">>, <<"write", "auxiliary">>)
  BY <1>1, <1>2, TailBefore DEF ApplyOrder
<1>5. ASSUME NEW k \in Kinds
      PROVE  /\ Before(Tail(seq), <<"record", k>>, <<"create", k>>)
             /\ Followed(Tail(seq), <<"create", k>>, <<"write", "connections">>)
  BY <1>1, <1>2, TailBefore, TailFollowed DEF ApplyOrder
<1>. QED BY <1>2, <1>3, <1>4, <1>5 DEF ApplyOrder

LEMMA RecoveryTail ==
  ASSUME NEW seq, Head(seq) # ClearStep
  PROVE  /\ RollbackOrder(seq) => RollbackOrder(Tail(seq)) /\ Tail(seq) # << >>
         /\ FinishOrder(seq) => FinishOrder(Tail(seq)) /\ Tail(seq) # << >>
<1>1. ASSUME RollbackOrder(seq) PROVE RollbackOrder(Tail(seq)) /\ Tail(seq) # << >>
  <2>1. seq \in Seq(RollbackStepSet) /\ EndsWith(seq, ClearStep)
    BY <1>1 DEF RollbackOrder
  <2>2. seq # << >> /\ Tail(seq) # << >> /\ EndsWith(Tail(seq), ClearStep)
    BY <2>1, TailEndsWith
  <2>3. Tail(seq) \in Seq(RollbackStepSet)
    BY <2>1, <2>2
  <2>4. \A k \in Kinds : Before(Tail(seq), <<"restore", "connections">>, <<"remove", k>>)
    BY <1>1, <2>1, <2>2, TailBefore DEF RollbackOrder
  <2>. QED BY <2>2, <2>3, <2>4 DEF RollbackOrder
<1>2. ASSUME FinishOrder(seq) PROVE FinishOrder(Tail(seq)) /\ Tail(seq) # << >>
  <2>1. seq \in Seq(FinishStepSet) /\ EndsWith(seq, ClearStep)
    BY <1>2 DEF FinishOrder
  <2>2. seq # << >> /\ Tail(seq) # << >> /\ EndsWith(Tail(seq), ClearStep)
    BY <2>1, TailEndsWith
  <2>3. Tail(seq) \in Seq(FinishStepSet)
    BY <2>1, <2>2
  <2>. QED BY <2>2, <2>3 DEF FinishOrder
<1>. QED BY <1>1, <1>2

(* What is first in its sequence comes before the rest.                     *)
LEMMA HeadBefore ==
  ASSUME NEW S, NEW seq \in Seq(S), seq # << >>, NEW a, NEW b,
         Before(seq, a, b), Head(seq) = b
  PROVE  ~Has(seq, a)
<1>1. Len(seq) \in Nat /\ Len(seq) >= 1 /\ seq[1] = b
  BY TailElements
<1>2. 1 \in 1 .. Len(seq)
  BY <1>1
<1>3. \A i \in 1 .. Len(seq) : seq[i] = a => i < 1
  BY <1>1, <1>2 DEF Before
<1>. QED BY <1>1, <1>3 DEF Has

LEMMA HeadFollowed ==
  ASSUME NEW S, NEW seq \in Seq(S), seq # << >>, NEW a, NEW b, a # b,
         Followed(seq, a, b), Head(seq) = a
  PROVE  Has(Tail(seq), b)
<1>1. Len(seq) \in Nat /\ Len(seq) >= 1 /\ seq[1] = a
  BY TailElements
<1>2. 1 \in 1 .. Len(seq)
  BY <1>1
<1>3. \E j \in 1 + 1 .. Len(seq) : seq[j] = b
  BY <1>1, <1>2 DEF Followed
<1>4. Has(seq, b)
  BY <1>1, <1>3 DEF Has
<1>. QED BY <1>4, TailHas

LEMMA PhaseForward ==
  ASSUME PhaseInv, todo # << >>, Head(todo) \notin {CommitStep, ClearStep}, Forward,
         local' = local, journal # None, journal' # None,
         journal'.committed = journal.committed
  PROVE  PhaseInv' /\ phase' \in {"applying", "recovering"}
<1>1. phase \in {"applying", "recovering"}
  BY WhoseStep
<1>2. CASE phase = "applying"
  <2>1. ApplyOrder(todo') /\ todo' # << >>
    BY <1>2, ApplyTail DEF PhaseInv, Forward
  <2>. QED BY <1>2, <2>1 DEF PhaseInv, Forward, Uncommitted
<1>3. CASE phase = "recovering"
  <2>1. /\ journal.committed => FinishOrder(todo') /\ todo' # << >>
        /\ ~journal.committed => RollbackOrder(todo') /\ todo' # << >>
    BY <1>3, RecoveryTail DEF PhaseInv, Forward
  <2>. QED BY <1>3, <2>1 DEF PhaseInv, Forward, Uncommitted
<1>. QED BY <1>1, <1>2, <1>3

LEMMA PhaseFail ==
  ASSUME TypeInv, PhaseInv, todo # << >>, Fail, local' = local, journal # None,
         \/ journal' = None /\ phase = "recovering"
         \/ /\ journal' # None
            /\ journal'.committed \in BOOLEAN
            /\ phase = "applying" \/ journal'.committed = journal.committed
  PROVE  /\ PhaseInv' /\ reason' \in {"none", "failed"} /\ plan' = None
         /\ phase = "applying" =>
              phase' = "recovering" /\ todo' = RecoverySteps(journal'.committed)
         /\ phase = "recovering" => phase' \in {"down", "applied", "idle"}
<1>1. phase \in {"applying", "recovering"}
  BY WhoseStep
<1>2. CASE phase = "applying"
  <2>1. /\ phase' = "recovering" /\ reason' = "failed" /\ plan' = None
        /\ todo' = RecoverySteps(journal'.committed) /\ journal' # None
    BY <1>2 DEF Fail
  <2>2. /\ todo' # << >>
        /\ IF journal'.committed THEN FinishOrder(todo') ELSE RollbackOrder(todo')
    BY <1>2, <2>1, RollbackStepsOrder, FinishStepsOrder
  <2>3. reason = "none" /\ local = None
    BY <1>2 DEF PhaseInv, TypeInv
  <2>. QED BY <1>2, <2>1, <2>2, <2>3 DEF PhaseInv, Uncommitted
<1>3. CASE phase = "recovering"
  <2>1. /\ reason = "applied" => phase' = "applied"
        /\ reason # "applied" => phase' \in {"down", "idle"}
        /\ reason' = "none" /\ todo' = << >> /\ plan' = plan
    BY <1>3 DEF Fail
  <2>2. plan = None /\ (local # None <=> reason = "applied")
    BY <1>3 DEF PhaseInv, TypeInv
  <2>3. reason = "applied" => ~Uncommitted'
    BY <1>3 DEF PhaseInv, Uncommitted
  <2>. QED BY <1>3, <2>1, <2>2, <2>3 DEF PhaseInv
<1>. QED BY <1>1, <1>2, <1>3

(* What a step leaves alone, for all that a recovery would leave.           *)
Same ==
  /\ Outcome.store' = Outcome.store /\ Outcome.refs' = Outcome.refs /\ Baseline' = Baseline
  /\ UNCHANGED <<view, uploaded, clock, edits>>

LEMMA CaptureSame ==
  ASSUME CaptureInv, Same, local' = local, local # None => record' = record,
         phase' # "planned", \A s \in Stores : store'[s] <= clock,
         journal' # None => journal # None /\ journal'.store = journal.store,
         ~Uncommitted' => SavedRefs' = refs'
  PROVE  CaptureInv'
  BY DEF CaptureInv, Same

LEMMA TypeTry ==
  ASSUME TypeInv, (Forward /\ tidy' = tidy) \/ Fail, UNCHANGED <<local, view, uploaded, clock>>,
         store' \in [Stores -> Nat], record' \in [Stores -> Nat],
         refs' \in [Kinds -> Slots \cup {None}],
         queue' \in SUBSET Slots, slots' \in SUBSET Slots, journal' \in Journals \cup {None},
         DOMAIN made' \subseteq Kinds, \A k \in DOMAIN made' : made'[k] \in Slots \cup {None}
  PROVE  TypeInv'
<1>1. phase' \in {"down", "idle", "planned", "applying", "recovering", "applied"}
      /\ reason' \in {"none", "start", "sync", "failed", "applied"}
      /\ plan' \in Changes \cup {None} /\ tidy' \in BOOLEAN
  <2>1. CASE Forward /\ tidy' = tidy
    BY <2>1 DEF Forward, TypeInv
  <2>2. CASE Fail
    BY <2>2 DEF Fail, TypeInv
  <2>. QED BY <2>1, <2>2
<1>. QED BY <1>1 DEF TypeInv

LEMMA JournalFields ==
  ASSUME NEW j \in Journals
  PROVE  /\ j.committed \in BOOLEAN /\ j.noted \in BOOLEAN
         /\ j.store \in [Stores -> Nat] /\ j.view \in [Stores -> Nat]
         /\ j.refs \in [Kinds -> Slots \cup {None}]
         /\ j.queue \in SUBSET Slots /\ j.created \in SUBSET Slots
         /\ j.stale \in SUBSET Slots /\ j.dropped \in SUBSET Slots
         /\ j # None
  BY ApplyJournalAssumption DEF Journals

(* A step of an apply other than its last: what is still to be shown of it. *)
LEMMA ApplyTry ==
  ASSUME Inv, todo # << >>, phase = "applying", Head(todo) # CommitStep,
         Forward \/ Fail, TypeInv', Same, local' = local,
         journal' # None, ~journal'.committed, journal'.store = journal.store,
         \A s \in Stores : store'[s] <= clock,
         Forward => WrittenInv'
  PROVE  Inv'
<1>. USE DEF Inv
<1>1. Uncommitted /\ Uncommitted' /\ local = None
  BY DEF PhaseInv, Uncommitted
<1>2. journal'.committed = journal.committed
  BY <1>1 DEF Uncommitted, TypeInv, Journals
<1>3. CASE Forward
  <2>1. Head(todo) \notin {CommitStep, ClearStep}
    BY WhoseStep DEF FinishStepSet, ClearStep
  <2>2. PhaseInv' /\ phase' = "applying"
    BY <1>1, <1>2, <1>3, <2>1, PhaseForward DEF Forward, Uncommitted
  <2>3. CaptureInv'
    BY <1>1, <2>2, CaptureSame DEF Uncommitted
  <2>4. RestoredInv'
    BY <2>2 DEF RestoredInv
  <2>. QED BY <1>3, <2>2, <2>3, <2>4
<1>4. CASE Fail
  <2>1. PhaseInv' /\ phase' = "recovering" /\ todo' = RecoverySteps(journal'.committed)
    BY <1>1, <1>2, <1>4, PhaseFail DEF Uncommitted, TypeInv, Journals
  <2>2. journal'.committed = FALSE
    BY <1>1, <1>2 DEF Uncommitted, TypeInv, Journals
  <2>3. CaptureInv'
    BY <1>1, <2>1, CaptureSame DEF Uncommitted
  <2>4. WrittenInv'
    BY <2>1 DEF WrittenInv
  <2>5. RestoredInv'
    <3>1. /\ \A s \in Stores : Has(todo', <<"restore", s>>)
          /\ Has(todo', <<"save", "replica">>)
      BY <2>1, <2>2, RollbackStepsOrder
    <3>2. Has(todo', <<"restore", "connections">>)
      BY <3>1 DEF Stores
    <3>. QED BY <3>1, <3>2 DEF RestoredInv, Left
  <2>. QED BY <2>1, <2>3, <2>4, <2>5
<1>. QED BY <1>3, <1>4

(* A step of a recovery other than its last.                                *)
LEMMA RecoveryTry ==
  ASSUME Inv, todo # << >>, phase = "recovering", Head(todo) # ClearStep,
         Forward \/ Fail, TypeInv', Same, local' = local, local # None => record' = record,
         journal' = journal, \A s \in Stores : store'[s] <= clock,
         ~Uncommitted => SavedRefs' = refs',
         Forward => RestoredInv'
  PROVE  Inv'
<1>. USE DEF Inv
<1>1. journal # None /\ (Uncommitted' <=> Uncommitted)
  BY DEF PhaseInv, Uncommitted
<1>2. CASE Forward
  <2>1. Head(todo) \notin {CommitStep, ClearStep}
    BY WhoseStep DEF ApplyStepSet
  <2>2. PhaseInv' /\ phase' = "recovering"
    BY <1>1, <1>2, <2>1, PhaseForward DEF Forward
  <2>3. CaptureInv'
    BY <1>1, <2>2, CaptureSame
  <2>4. WrittenInv'
    BY <2>2 DEF WrittenInv
  <2>. QED BY <1>2, <2>2, <2>3, <2>4
<1>3. CASE Fail
  <2>1. PhaseInv' /\ phase' \in {"down", "applied", "idle"}
    BY <1>1, <1>3, PhaseFail DEF TypeInv, Journals
  <2>2. CaptureInv'
    BY <1>1, <2>1, CaptureSame
  <2>3. WrittenInv' /\ RestoredInv'
    BY <2>1 DEF WrittenInv, RestoredInv
  <2>. QED BY <2>1, <2>2, <2>3
<1>. QED BY <1>2, <1>3

(* A pending rollback: what it would leave.                                 *)
Rollback(j, stored) ==
  [s \in Stores |-> IF s = "auxiliary" /\ ~j.noted THEN stored[s] ELSE j.store[s]]

LEMMA SamePending ==
  ASSUME Uncommitted, Uncommitted', UNCHANGED <<view, uploaded, clock, edits>>,
         Rollback(journal', store') = Rollback(journal, store),
         journal'.refs = journal.refs, journal'.view = journal.view
  PROVE  Same
<1>1. Outcome.store = Rollback(journal, store) /\ Outcome.refs = journal.refs
  BY DEF Outcome, Rollback
<1>2. Outcome.store' = Rollback(journal', store') /\ Outcome.refs' = journal'.refs
  BY DEF Outcome, Rollback
<1>3. Baseline' = Baseline
  BY DEF Baseline
<1>. QED BY <1>1, <1>2, <1>3 DEF Same

(* Another state: what it is.                                               *)
LEMMA SameSettled ==
  ASSUME ~Uncommitted, ~Uncommitted', UNCHANGED <<view, uploaded, clock, edits>>,
         store' = store, refs' = refs, record' = record
  PROVE  Same
  BY DEF Same, Outcome, Baseline

(* A step that is up is the one of an apply, under the journal.             *)
LEMMA ApplyStep ==
  ASSUME Inv, todo # << >>, Head(todo) \in ApplyStepSet
  PROVE  /\ phase = "applying" /\ Uncommitted /\ journal \in Journals
         /\ plan \in Changes /\ local = None /\ ApplyOrder(todo)
<1>1. phase = "applying"
  BY WhoseStep DEF Inv
<1>2. Uncommitted /\ plan # None /\ local = None /\ ApplyOrder(todo)
  BY <1>1 DEF Inv, PhaseInv
<1>3. journal \in Journals /\ plan \in Changes
  BY <1>2 DEF Inv, TypeInv, Uncommitted
<1>. QED BY <1>1, <1>2, <1>3

LEMMA NoteSteps ==
  ASSUME Inv, Note
  PROVE  Inv' /\ Same
<1>. DEFINE note == <<"note", "auxiliary">>
            marked == [journal EXCEPT !.noted = TRUE]
<1>1. todo # << >> /\ Head(todo) = note /\ note \in ApplyStepSet \ {CommitStep}
  BY DEF Note, Try, ApplyStepSet, CommitStep
<1>2. phase = "applying" /\ Uncommitted /\ journal \in Journals
  BY <1>1, ApplyStep
<1>3. /\ (Forward /\ tidy' = tidy /\ journal' = marked) \/ Fail
      /\ journal' = marked \/ journal' = journal
      /\ UNCHANGED <<store, refs, queue, slots, record, made, local, view, uploaded, clock, edits>>
  BY DEF Note, Try, Forward, files
<1>4. marked \in Journals
  BY <1>2 DEF Journals
<1>5. /\ marked.committed = journal.committed /\ marked.store = journal.store
      /\ marked.refs = journal.refs /\ marked.view = journal.view /\ marked.noted
  BY <1>2 DEF Journals
<1>. HIDE DEF marked
<1>6. /\ journal' \in Journals /\ journal' # None /\ ~journal'.committed
      /\ journal'.store = journal.store /\ journal'.refs = journal.refs
      /\ journal'.view = journal.view /\ (journal'.noted = journal.noted \/ journal'.noted)
  BY <1>2, <1>3, <1>4, <1>5, ApplyJournalAssumption DEF Uncommitted
<1>7. TypeInv'
  BY <1>3, <1>6, TypeTry DEF Inv, TypeInv
<1>8. Same
  <2>1. ~journal.noted => store["auxiliary"] = journal.store["auxiliary"]
    BY <1>2 DEF Inv, WrittenInv
  <2>2. Uncommitted'
    BY <1>6 DEF Uncommitted
  <2>3. Rollback(journal', store') = Rollback(journal, store)
    BY <1>3, <1>6, <2>1 DEF Rollback
  <2>. QED BY <1>2, <1>3, <1>6, <2>2, <2>3, SamePending
<1>9. ASSUME Forward PROVE WrittenInv'
  <2>1. journal'.noted
    BY <1>2, <1>3, <1>5, <1>9 DEF Forward, Fail
  <2>2. \A a : ~Has(todo', a) => ~Left(a) \/ a = note
    BY <1>1, <1>9, LeftAfter DEF Forward, Inv
  <2>3. SavedRefs' = SavedRefs
    BY <1>3 DEF SavedRefs
  <2>. QED BY <1>2, <1>3, <1>6, <2>1, <2>2, <2>3 DEF Inv, WrittenInv, Left
<1>10. \A s \in Stores : store'[s] <= clock
  BY <1>3 DEF Inv, CaptureInv
<1>. QED BY <1>1, <1>2, <1>3, <1>6, <1>7, <1>8, <1>9, <1>10, ApplyTry

(* What only the journal, slots or memory change.                           *)
LEMMA WrittenForward ==
  ASSUME Inv, todo # << >>, Head(todo) \in ApplyStepSet \ {CommitStep}, Forward,
         Head(todo)[1] \in {"record", "create", "seal"},
         UNCHANGED <<store, refs, record, clock>>,
         journal'.store = journal.store, journal'.noted = journal.noted,
         SavedRefs' = SavedRefs \/ Has(todo', <<"write", "connections">>)
  PROVE  WrittenInv'
<1>1. phase = "applying"
  BY ApplyStep
<1>2. \A a : ~Has(todo', a) => ~Left(a) \/ a = Head(todo)
  BY LeftAfter DEF Forward, Inv
<1>3. Head(todo) # <<"note", "auxiliary">> /\ Head(todo) # <<"save", "record">>
      /\ \A s \in Stores : Head(todo) # <<"write", s>>
  OBVIOUS
<1>. QED BY <1>1, <1>2, <1>3 DEF Inv, WrittenInv, Left

LEMMA RecordSlotSteps ==
  ASSUME Inv, NEW k \in Kinds, RecordSlot(k)
  PROVE  Inv' /\ Same
<1>. DEFINE named == [journal EXCEPT !.created = @ \cup {<<k, clock>>}]
<1>1. todo # << >> /\ Head(todo) = <<"record", k>> /\ Head(todo) \in ApplyStepSet \ {CommitStep}
  <2>1. todo # << >> /\ Head(todo) = <<"record", k>>
    BY DEF RecordSlot, Try
  <2>2. <<"record", k>> \in ApplyStepSet \ {CommitStep}
    BY DEF ApplyStepSet, CommitStep
  <2>. QED BY <2>1, <2>2
<1>2. phase = "applying" /\ Uncommitted /\ journal \in Journals
  BY <1>1, ApplyStep
<1>3. /\ (Forward /\ tidy' = tidy /\ journal' = named) \/ Fail
      /\ journal' = named \/ journal' = journal
      /\ UNCHANGED <<store, refs, queue, slots, record, made, local, view, uploaded, clock, edits>>
  BY DEF RecordSlot, Try, Forward, files
<1>4. named \in Journals
  <2>1. <<k, clock>> \in Slots
    BY DEF Inv, TypeInv, Slots
  <2>. QED BY <1>2, <2>1 DEF Journals
<1>5. /\ named.committed = journal.committed /\ named.store = journal.store
      /\ named.refs = journal.refs /\ named.view = journal.view /\ named.noted = journal.noted
  BY <1>2 DEF Journals
<1>. HIDE DEF named
<1>6. /\ journal' \in Journals /\ journal' # None /\ ~journal'.committed
      /\ journal'.store = journal.store /\ journal'.refs = journal.refs
      /\ journal'.view = journal.view /\ journal'.noted = journal.noted
  BY <1>2, <1>3, <1>4, <1>5, ApplyJournalAssumption DEF Uncommitted
<1>7. TypeInv'
  BY <1>3, <1>6, TypeTry DEF Inv, TypeInv
<1>8. Same
  BY <1>2, <1>3, <1>6, SamePending DEF Uncommitted, Rollback
<1>9. ASSUME Forward PROVE WrittenInv'
  BY <1>1, <1>3, <1>6, <1>9, WrittenForward DEF SavedRefs
<1>10. \A s \in Stores : store'[s] <= clock
  BY <1>3 DEF Inv, CaptureInv
<1>. QED BY <1>1, <1>2, <1>3, <1>6, <1>7, <1>8, <1>9, <1>10, ApplyTry

LEMMA CreateSlotSteps ==
  ASSUME Inv, NEW k \in Kinds, CreateSlot(k)
  PROVE  Inv' /\ Same
<1>1. todo # << >> /\ Head(todo) = <<"create", k>> /\ Head(todo) \in ApplyStepSet \ {CommitStep}
  BY DEF CreateSlot, Try, ApplyStepSet, CommitStep
<1>2. phase = "applying" /\ Uncommitted /\ journal \in Journals /\ ApplyOrder(todo)
  BY <1>1, ApplyStep
<1>3. /\ (Forward /\ tidy' = tidy) \/ Fail
      /\ slots' \in {slots, slots \cup {<<k, clock>>}}
      /\ made' \in {made, Made(k, <<k, clock>>)}
      /\ UNCHANGED <<store, refs, queue, record, journal, local, view, uploaded, clock, edits>>
  BY DEF CreateSlot, Try, Forward, files
<1>4. <<k, clock>> \in Slots
  BY DEF Inv, TypeInv, Slots
<1>5. DOMAIN made' \subseteq Kinds /\ \A m \in DOMAIN made' : made'[m] \in Slots \cup {None}
  BY <1>3, <1>4 DEF Made, Inv, TypeInv
<1>6. journal # None /\ ~journal.committed
  BY <1>2 DEF Uncommitted
<1>7. TypeInv'
  BY <1>2, <1>3, <1>4, <1>5, TypeTry DEF Inv, TypeInv
<1>8. Same
  BY <1>2, <1>3, SamePending DEF Uncommitted, Rollback
<1>9. ASSUME Forward PROVE WrittenInv'
  <2>1. Has(Tail(todo), <<"write", "connections">>)
    <3>1. todo \in Seq(ApplyStepSet) /\ Followed(todo, <<"create", k>>, <<"write", "connections">>)
      BY <1>2 DEF ApplyOrder
    <3>. QED BY <1>1, <3>1, HeadFollowed
  <2>. QED BY <1>1, <1>3, <1>9, <2>1, WrittenForward DEF Forward
<1>10. \A s \in Stores : store'[s] <= clock
  BY <1>3 DEF Inv, CaptureInv
<1>. QED BY <1>1, <1>2, <1>3, <1>6, <1>7, <1>8, <1>9, <1>10, ApplyTry

LEMMA SealSteps ==
  ASSUME Inv, Seal
  PROVE  Inv' /\ Same
<1>. DEFINE sealed == [journal EXCEPT !.stale = Obsolete("replace"), !.dropped = Obsolete("drop")]
<1>1. todo # << >> /\ Head(todo) = <<"seal", "journal">> /\ Head(todo) \in ApplyStepSet \ {CommitStep}
  <2>1. todo # << >> /\ Head(todo) = <<"seal", "journal">>
    BY DEF Seal, Try
  <2>2. <<"seal", "journal">> \in ApplyStepSet \ {CommitStep}
    BY DEF ApplyStepSet, CommitStep
  <2>. QED BY <2>1, <2>2
<1>2. phase = "applying" /\ Uncommitted /\ journal \in Journals
  BY <1>1, ApplyStep
<1>3. /\ (Forward /\ tidy' = tidy /\ journal' = sealed) \/ Fail
      /\ journal' = sealed \/ journal' = journal
      /\ UNCHANGED <<store, refs, queue, slots, record, made, local, view, uploaded, clock, edits>>
  BY DEF Seal, Try, Forward, files
<1>4. sealed \in Journals
  <2>1. Obsolete("replace") \in SUBSET Slots /\ Obsolete("drop") \in SUBSET Slots
    BY <1>2, JournalFields DEF Obsolete
  <2>. QED BY <1>2, <2>1 DEF Journals
<1>5. /\ sealed.committed = journal.committed /\ sealed.store = journal.store
      /\ sealed.refs = journal.refs /\ sealed.view = journal.view /\ sealed.noted = journal.noted
  BY <1>2 DEF Journals
<1>. HIDE DEF sealed
<1>6. /\ journal' \in Journals /\ journal' # None /\ ~journal'.committed
      /\ journal'.store = journal.store /\ journal'.refs = journal.refs
      /\ journal'.view = journal.view /\ journal'.noted = journal.noted
  BY <1>2, <1>3, <1>4, <1>5, ApplyJournalAssumption DEF Uncommitted
<1>7. TypeInv'
  BY <1>3, <1>6, TypeTry DEF Inv, TypeInv
<1>8. Same
  BY <1>2, <1>3, <1>6, SamePending DEF Uncommitted, Rollback
<1>9. ASSUME Forward PROVE WrittenInv'
  BY <1>1, <1>3, <1>6, <1>9, WrittenForward DEF SavedRefs
<1>10. \A s \in Stores : store'[s] <= clock
  BY <1>3 DEF Inv, CaptureInv
<1>. QED BY <1>1, <1>2, <1>3, <1>6, <1>7, <1>8, <1>9, <1>10, ApplyTry

LEMMA SaveNextSteps ==
  ASSUME Inv, SaveNext
  PROVE  Inv' /\ Same
<1>. DEFINE next == [s \in Stores |-> clock]
            save == <<"save", "record">>
<1>1. todo # << >> /\ Head(todo) = save /\ save \in ApplyStepSet \ {CommitStep}
  BY DEF SaveNext, Try, ApplyStepSet, CommitStep
<1>2. phase = "applying" /\ Uncommitted /\ journal \in Journals /\ journal # None
      /\ ~journal.committed
  BY <1>1, ApplyStep DEF Uncommitted
<1>3. /\ (Forward /\ tidy' = tidy /\ record' = next) \/ Fail
      /\ record' = next \/ record' = record
      /\ UNCHANGED <<store, refs, queue, slots, journal, made, local, view, uploaded, clock, edits>>
  BY DEF SaveNext, Try, Forward, files
<1>4. next \in [Stores -> Nat]
  BY DEF Inv, TypeInv
<1>5. TypeInv'
  BY <1>2, <1>3, <1>4, TypeTry DEF Inv, TypeInv
<1>6. Same
  BY <1>2, <1>3, SamePending DEF Uncommitted, Rollback
<1>7. ASSUME Forward PROVE WrittenInv'
  <2>1. record' = next
    BY <1>2, <1>3, <1>7 DEF Forward, Fail
  <2>2. \A a : ~Has(todo', a) => ~Left(a) \/ a = save
    BY <1>1, <1>7, LeftAfter DEF Forward, Inv
  <2>3. SavedRefs' = SavedRefs
    BY <1>3 DEF SavedRefs
  <2>. QED BY <1>2, <1>3, <2>1, <2>2, <2>3 DEF Inv, WrittenInv, Left
<1>8. \A s \in Stores : store'[s] <= clock
  BY <1>3 DEF Inv, CaptureInv
<1>. QED BY <1>1, <1>2, <1>3, <1>5, <1>6, <1>7, <1>8, ApplyTry

LEMMA SavedTyped ==
  ASSUME TypeInv
  PROVE  SavedRefs \in [Kinds -> Slots \cup {None}]
  BY DEF TypeInv, SavedRefs

LEMMA WriteSteps ==
  ASSUME Inv, NEW s \in Stores, Write(s)
  PROVE  Inv' /\ Same
<1>. DEFINE written == [store EXCEPT ![s] = clock]
            saved == IF s = "connections" THEN SavedRefs ELSE refs
            write == <<"write", s>>
<1>1. todo # << >> /\ Head(todo) = write /\ write \in ApplyStepSet \ {CommitStep}
  BY DEF Write, Try, ApplyStepSet, CommitStep
<1>2. phase = "applying" /\ Uncommitted /\ journal \in Journals /\ journal # None
      /\ ~journal.committed /\ ApplyOrder(todo)
  BY <1>1, ApplyStep DEF Uncommitted
<1>3. /\ (Forward /\ tidy' = tidy /\ store' = written /\ refs' = saved) \/ Fail
      /\ (store' = written /\ refs' = saved) \/ (store' = store /\ refs' = refs)
      /\ UNCHANGED <<queue, slots, record, journal, made, local, view, uploaded, clock, edits>>
  BY DEF Write, Try, Forward, files
<1>4. /\ store \in [Stores -> Nat] /\ clock \in Nat /\ saved \in [Kinds -> Slots \cup {None}]
      /\ refs \in [Kinds -> Slots \cup {None}]
  BY SavedTyped DEF Inv, TypeInv
<1>5. store' \in [Stores -> Nat] /\ \A o \in Stores : store'[o] <= clock
  BY <1>3, <1>4 DEF Inv, CaptureInv
<1>6. TypeInv'
  <2>1. refs' \in [Kinds -> Slots \cup {None}]
    BY <1>3, <1>4
  <2>. HIDE DEF written, saved
  <2>. QED BY <1>2, <1>3, <1>5, <2>1, TypeTry DEF Inv, TypeInv
<1>7. Same
  <2>1. s = "auxiliary" => journal.noted
    <3>1. s = "auxiliary" => ~Left(<<"note", "auxiliary">>)
      BY <1>1, <1>2, HeadBefore DEF ApplyOrder, Left
    <3>. QED BY <1>2, <3>1 DEF Inv, WrittenInv
  <2>2. \A o \in Stores : o = s \/ store'[o] = store[o]
    BY <1>3, <1>4
  <2>3. Rollback(journal', store') = Rollback(journal, store)
    BY <1>3, <2>1, <2>2 DEF Rollback
  <2>4. Uncommitted'
    BY <1>2, <1>3 DEF Uncommitted
  <2>. HIDE DEF written, saved
  <2>. QED BY <1>2, <1>3, <2>3, <2>4, SamePending
<1>8. ASSUME Forward PROVE WrittenInv'
  <2>1. store' = written /\ refs' = saved
    BY <1>2, <1>3, <1>8 DEF Forward, Fail
  <2>2. \A a : ~Has(todo', a) => ~Left(a) \/ a = write
    BY <1>1, <1>8, LeftAfter DEF Forward, Inv
  <2>3. store'[s] = clock /\ \A o \in Stores : o = s \/ store'[o] = store[o]
    BY <1>4, <2>1
  <2>4. ~journal'.noted => store'["auxiliary"] = journal'.store["auxiliary"]
    <3>1. "auxiliary" \in Stores
      BY DEF Stores
    <3>2. s = "auxiliary" => journal.noted
      BY <1>1, <1>2, HeadBefore DEF ApplyOrder, Left, Inv, WrittenInv
    <3>3. ~journal.noted => store["auxiliary"] = journal.store["auxiliary"]
      BY <1>2 DEF Inv, WrittenInv
    <3>. QED BY <1>3, <2>3, <3>1, <3>2, <3>3
  <2>5. ~Has(todo', <<"write", "connections">>) => SavedRefs' = refs'
    <3>1. s = "connections" => SavedRefs' = refs'
      BY <1>3, <1>4, <2>1 DEF SavedRefs
    <3>2. s # "connections" => SavedRefs' = SavedRefs /\ refs' = refs
      BY <1>3, <2>1 DEF SavedRefs
    <3>3. ~Left(<<"write", "connections">>) => SavedRefs = refs
      BY <1>2 DEF Inv, WrittenInv
    <3>. QED BY <2>2, <3>1, <3>2, <3>3
  <2>6. \A o \in Stores : ~Has(todo', <<"write", o>>) => store'[o] = clock
    <3>1. \A o \in Stores : ~Left(<<"write", o>>) => store[o] = clock
      BY <1>2 DEF Inv, WrittenInv
    <3>. QED BY <2>2, <2>3, <3>1
  <2>7. /\ \A o \in Stores : journal.store[o] < clock
        /\ ~Has(todo', <<"note", "auxiliary">>) => journal.noted
        /\ ~Has(todo', <<"save", "record">>) => record = [o \in Stores |-> clock]
    BY <1>2, <2>2 DEF Inv, WrittenInv
  <2>. HIDE DEF written, saved
  <2>. QED BY <1>3, <2>4, <2>5, <2>6, <2>7 DEF WrittenInv, Left
<1>. HIDE DEF written, saved
<1>. QED BY <1>1, <1>2, <1>3, <1>5, <1>6, <1>7, <1>8, ApplyTry

(* The steps of a recovery.                                                 *)
LEMMA RollbackStep ==
  ASSUME Inv, todo # << >>, Head(todo) \in RollbackStepSet \ {ClearStep}
  PROVE  /\ phase = "recovering" /\ Uncommitted /\ ~journal.committed /\ journal # None
         /\ journal \in Journals /\ local = None /\ RollbackOrder(todo)
<1>1. phase = "recovering" /\ ~journal.committed
  BY WhoseStep DEF Inv
<1>. QED BY <1>1 DEF Inv, PhaseInv, TypeInv, Uncommitted

LEMMA FinishStep ==
  ASSUME Inv, todo # << >>, Head(todo) \in FinishStepSet \ {ClearStep}
  PROVE  /\ phase = "recovering" /\ ~Uncommitted /\ journal.committed /\ journal # None
         /\ journal \in Journals /\ SavedRefs = refs
<1>1. phase = "recovering" /\ journal.committed
  BY WhoseStep DEF Inv
<1>. QED BY <1>1 DEF Inv, PhaseInv, TypeInv, Uncommitted, CaptureInv

LEMMA RestoreSteps ==
  ASSUME Inv, NEW s \in Stores, Restore(s)
  PROVE  Inv' /\ Same
<1>. DEFINE back == [store EXCEPT ![s] =
                       IF s # "auxiliary" \/ journal.noted THEN journal.store[s] ELSE @]
            conn == s = "connections"
            refsBack == IF conn THEN journal.refs ELSE refs
            queueBack == IF conn THEN journal.queue ELSE queue
            madeBack == IF conn THEN NothingMade ELSE made
            restore == <<"restore", s>>
<1>1. todo # << >> /\ Head(todo) = restore /\ restore \in RollbackStepSet \ {ClearStep}
  <2>1. todo # << >> /\ Head(todo) = restore
    BY DEF Restore, Try
  <2>2. restore \in RollbackStepSet \ {ClearStep}
    BY DEF RollbackStepSet, ClearStep
  <2>. QED BY <2>1, <2>2
<1>2. /\ phase = "recovering" /\ Uncommitted /\ journal \in Journals /\ journal # None
      /\ ~journal.committed /\ local = None
  BY <1>1, RollbackStep
<1>3. /\ \/ /\ Forward /\ tidy' = tidy
            /\ store' = back /\ refs' = refsBack /\ queue' = queueBack /\ made' = madeBack
         \/ Fail /\ made' = made
      /\ \/ store' = back /\ refs' = refsBack /\ queue' = queueBack
         \/ store' = store /\ refs' = refs /\ queue' = queue
      /\ UNCHANGED <<slots, record, journal, local, view, uploaded, clock, edits>>
  BY DEF Restore, Try, Forward, files
<1>4. /\ store \in [Stores -> Nat] /\ clock \in Nat /\ journal.store \in [Stores -> Nat]
      /\ refsBack \in [Kinds -> Slots \cup {None}] /\ refs \in [Kinds -> Slots \cup {None}]
      /\ queueBack \in SUBSET Slots /\ queue \in SUBSET Slots
  BY <1>2, JournalFields DEF Inv, TypeInv
<1>5. /\ store' \in [Stores -> Nat]
      /\ \A o \in Stores : o = s \/ store'[o] = store[o]
      /\ (s = "auxiliary" /\ ~journal.noted) => store'[s] = store[s]
  BY <1>3, <1>4
<1>6. \A o \in Stores : store'[o] <= clock
  <2>1. store'[s] = store[s] \/ store'[s] = journal.store[s]
    BY <1>3, <1>4
  <2>. QED BY <1>2, <1>5, <2>1 DEF Inv, CaptureInv
<1>7. TypeInv'
  <2>1. DOMAIN made' \subseteq Kinds /\ \A k \in DOMAIN made' : made'[k] \in Slots \cup {None}
    <3>1. made' \in {made, NothingMade}
      BY <1>3
    <3>. QED BY <3>1 DEF NothingMade, Inv, TypeInv
  <2>2. refs' \in [Kinds -> Slots \cup {None}] /\ queue' \in SUBSET Slots
    BY <1>3, <1>4
  <2>3. record' \in [Stores -> Nat] /\ slots' \in SUBSET Slots
        /\ journal' \in Journals \cup {None}
    BY <1>2, <1>3 DEF Inv, TypeInv
  <2>4. /\ (Forward /\ tidy' = tidy) \/ Fail
        /\ UNCHANGED <<local, view, uploaded, clock>> /\ TypeInv
    BY <1>3 DEF Inv
  <2>. HIDE DEF back, refsBack, queueBack, madeBack
  <2>. QED BY <1>5, <2>1, <2>2, <2>3, <2>4, TypeTry
<1>8. Same
  <2>1. Rollback(journal', store') = Rollback(journal, store)
    BY <1>3, <1>5 DEF Rollback
  <2>2. Uncommitted'
    BY <1>2, <1>3 DEF Uncommitted
  <2>. HIDE DEF back, refsBack, queueBack, madeBack
  <2>. QED BY <1>2, <1>3, <2>1, <2>2, SamePending
<1>9. ASSUME Forward PROVE RestoredInv'
  <2>1. /\ store' = back /\ refs' = refsBack /\ queue' = queueBack /\ made' = madeBack
        /\ phase' = "recovering"
    BY <1>2, <1>3, <1>9 DEF Forward, Fail
  <2>2. \A a : ~Has(todo', a) => ~Left(a) \/ a = restore
    BY <1>1, <1>9, LeftAfter DEF Forward, Inv
  <2>3. Outcome.store' = Outcome.store
    BY <1>8 DEF Same
  <2>4. store'[s] = Outcome.store[s]
    BY <1>2, <1>4, <2>1 DEF Outcome
  <2>5. \A o \in Stores : ~Has(todo', <<"restore", o>>) => store'[o] = Outcome.store'[o]
    <3>1. \A o \in Stores : ~Left(<<"restore", o>>) => store[o] = Outcome.store[o]
      BY <1>2 DEF Inv, RestoredInv
    <3>2. \A o \in Stores : <<"restore", o>> = restore => o = s
      OBVIOUS
    <3>. HIDE DEF restore
    <3>. QED BY <1>5, <2>2, <2>3, <2>4, <3>1, <3>2
  <2>6. ~Has(todo', <<"restore", "connections">>) =>
          refs' = journal'.refs /\ queue' = journal'.queue /\ made' = NothingMade
    <3>1. CASE conn
      BY <1>3, <2>1, <3>1
    <3>2. CASE ~conn
      <4>1. ~Has(todo', <<"restore", "connections">>) => ~Left(<<"restore", "connections">>)
        BY <2>2, <3>2
      <4>. QED BY <1>2, <1>3, <2>1, <3>2, <4>1 DEF Inv, RestoredInv
    <3>. QED BY <3>1, <3>2
  <2>7. ~Has(todo', <<"save", "replica">>) => record' = journal'.view
    BY <1>2, <1>3, <2>2 DEF Inv, RestoredInv
  <2>. HIDE DEF back, refsBack, queueBack, madeBack
  <2>. QED BY <2>5, <2>6, <2>7 DEF RestoredInv, Left
<1>. HIDE DEF back, refsBack, queueBack, madeBack
<1>10. /\ Inv /\ todo # << >> /\ phase = "recovering" /\ Head(todo) # ClearStep
       /\ Forward \/ Fail
       /\ local' = local /\ (local # None => record' = record) /\ journal' = journal
       /\ ~Uncommitted => SavedRefs' = refs'
  BY <1>1, <1>2, <1>3
<1>. QED BY <1>6, <1>7, <1>8, <1>9, <1>10, RecoveryTry

LEMMA RemoveCreatedSteps ==
  ASSUME Inv, NEW k \in Kinds, RemoveCreated(k)
  PROVE  Inv' /\ Same
<1>. DEFINE remove == <<"remove", k>>
<1>1. todo # << >> /\ Head(todo) = remove /\ remove \in RollbackStepSet \ {ClearStep}
  <2>1. todo # << >> /\ Head(todo) = remove
    BY DEF RemoveCreated, Try
  <2>2. remove \in RollbackStepSet \ {ClearStep}
    BY DEF RollbackStepSet, ClearStep
  <2>. QED BY <2>1, <2>2
<1>2. /\ phase = "recovering" /\ Uncommitted /\ journal \in Journals /\ journal # None
      /\ ~journal.committed
  BY <1>1, RollbackStep
<1>3. /\ (Forward /\ tidy' = tidy) \/ Fail
      /\ slots' \subseteq slots
      /\ UNCHANGED <<store, refs, queue, record, journal, made, local, view, uploaded, clock, edits>>
  BY DEF RemoveCreated, Try, Forward, files
<1>4. TypeInv'
  BY <1>2, <1>3, TypeTry DEF Inv, TypeInv
<1>5. Same
  BY <1>2, <1>3, SamePending DEF Uncommitted, Rollback
<1>6. ASSUME Forward PROVE RestoredInv'
  <2>1. \A a : ~Has(todo', a) => ~Left(a) \/ a = remove
    BY <1>1, <1>6, LeftAfter DEF Forward, Inv
  <2>2. Outcome.store' = Outcome.store
    BY <1>5 DEF Same
  <2>. QED BY <1>2, <1>3, <2>1, <2>2 DEF Inv, RestoredInv, Left
<1>7. \A o \in Stores : store'[o] <= clock
  BY <1>3 DEF Inv, CaptureInv
<1>. QED BY <1>1, <1>2, <1>3, <1>4, <1>5, <1>6, <1>7, RecoveryTry

LEMMA RestoreRecordSteps ==
  ASSUME Inv, RestoreRecord
  PROVE  Inv' /\ Same
<1>. DEFINE save == <<"save", "replica">>
<1>1. todo # << >> /\ Head(todo) = save /\ save \in RollbackStepSet \ {ClearStep}
  <2>1. todo # << >> /\ Head(todo) = save
    BY DEF RestoreRecord, Try
  <2>2. save \in RollbackStepSet \ {ClearStep}
    BY DEF RollbackStepSet, ClearStep
  <2>. QED BY <2>1, <2>2
<1>2. /\ phase = "recovering" /\ Uncommitted /\ journal \in Journals /\ journal # None
      /\ ~journal.committed /\ local = None
  BY <1>1, RollbackStep
<1>3. /\ (Forward /\ tidy' = tidy /\ record' = journal.view) \/ Fail
      /\ record' \in {record, journal.view}
      /\ UNCHANGED <<store, refs, queue, slots, journal, made, local, view, uploaded, clock, edits>>
  BY DEF RestoreRecord, Try, Forward, files
<1>4. TypeInv'
  <2>1. record' \in [Stores -> Nat]
    BY <1>2, <1>3, JournalFields DEF Inv, TypeInv
  <2>. QED BY <1>2, <1>3, <2>1, TypeTry DEF Inv, TypeInv
<1>5. Same
  BY <1>2, <1>3, SamePending DEF Uncommitted, Rollback
<1>6. ASSUME Forward PROVE RestoredInv'
  <2>1. record' = journal.view
    BY <1>2, <1>3, <1>6 DEF Forward, Fail
  <2>2. \A a : ~Has(todo', a) => ~Left(a) \/ a = save
    BY <1>1, <1>6, LeftAfter DEF Forward, Inv
  <2>3. Outcome.store' = Outcome.store
    BY <1>5 DEF Same
  <2>. QED BY <1>2, <1>3, <2>1, <2>2, <2>3 DEF Inv, RestoredInv, Left
<1>7. \A o \in Stores : store'[o] <= clock
  BY <1>3 DEF Inv, CaptureInv
<1>. QED BY <1>1, <1>2, <1>3, <1>4, <1>5, <1>6, <1>7, RecoveryTry

(* The steps of a cleanup change slots and their queue only.                *)
LEMMA CleanupTry ==
  ASSUME Inv, todo # << >>, Head(todo) \in FinishStepSet \ {ClearStep},
         (Forward /\ tidy' = tidy) \/ Fail,
         slots' \subseteq slots, queue' \in SUBSET Slots,
         UNCHANGED <<store, refs, record, journal, made, local, view, uploaded, clock, edits>>
  PROVE  Inv' /\ Same
<1>1. /\ phase = "recovering" /\ ~Uncommitted /\ journal.committed /\ journal # None
      /\ SavedRefs = refs
  BY FinishStep
<1>2. TypeInv'
  BY <1>1, TypeTry DEF Inv, TypeInv
<1>3. Same
  BY <1>1, SameSettled DEF Uncommitted
<1>4. Forward => RestoredInv'
  BY <1>1 DEF RestoredInv
<1>5. \A o \in Stores : store'[o] <= clock
  BY DEF Inv, CaptureInv
<1>6. SavedRefs' = refs'
  BY <1>1 DEF SavedRefs
<1>. QED BY <1>1, <1>2, <1>3, <1>4, <1>5, <1>6, RecoveryTry

LEMMA CleanupSteps ==
  ASSUME Inv, FinalizeCleanup \/ CommitCredentials \/ (\E k \in Kinds : RemoveStale(k))
  PROVE  Inv' /\ Same
<1>1. CASE FinalizeCleanup
  <2>1. todo # << >> /\ Head(todo) = <<"stale", "connections">>
        /\ Head(todo) \in FinishStepSet \ {ClearStep}
    <3>1. todo # << >> /\ Head(todo) = <<"stale", "connections">>
      BY <1>1 DEF FinalizeCleanup
    <3>2. <<"stale", "connections">> \in FinishStepSet \ {ClearStep}
      BY DEF FinishStepSet, ClearStep
    <3>. QED BY <3>1, <3>2
  <2>2. journal \in Journals
    BY <2>1, FinishStep
  <2>3. /\ (Forward /\ tidy' = tidy) \/ Fail
        /\ slots' \subseteq slots
        /\ UNCHANGED <<store, refs, record, journal, made, local, view, uploaded, clock, edits>>
    BY <1>1 DEF FinalizeCleanup, Forward
  <2>4. queue' \in SUBSET Slots
    BY <1>1, <2>2, JournalFields DEF FinalizeCleanup, Inv, TypeInv
  <2>. QED BY <2>1, <2>3, <2>4, CleanupTry
<1>2. CASE CommitCredentials
  <2>1. todo # << >> /\ Head(todo) = <<"stale", "profile">>
        /\ Head(todo) \in FinishStepSet \ {ClearStep}
    <3>1. todo # << >> /\ Head(todo) = <<"stale", "profile">>
      BY <1>2 DEF CommitCredentials
    <3>2. <<"stale", "profile">> \in FinishStepSet \ {ClearStep}
      BY DEF FinishStepSet, ClearStep
    <3>. QED BY <3>1, <3>2
  <2>2. journal \in Journals
    BY <2>1, FinishStep
  <2>3. /\ (Forward /\ tidy' = tidy) \/ Fail
        /\ slots' \subseteq slots
        /\ UNCHANGED <<store, refs, record, journal, made, local, view, uploaded, clock, edits>>
    BY <1>2 DEF CommitCredentials, Forward
  <2>4. queue' \in SUBSET Slots
    BY <1>2, <2>2, JournalFields DEF CommitCredentials, OfKind, Inv, TypeInv
  <2>. QED BY <2>1, <2>3, <2>4, CleanupTry
<1>3. ASSUME NEW k \in Kinds, RemoveStale(k) PROVE Inv' /\ Same
  <2>1. todo # << >> /\ Head(todo) = <<"stale", k>> /\ Head(todo) \in FinishStepSet \ {ClearStep}
    <3>1. todo # << >> /\ Head(todo) = <<"stale", k>>
      BY <1>3 DEF RemoveStale, Try
    <3>2. <<"stale", k>> \in FinishStepSet \ {ClearStep}
      BY DEF FinishStepSet, ClearStep, Kinds
    <3>. QED BY <3>1, <3>2
  <2>2. /\ (Forward /\ tidy' = tidy) \/ Fail
        /\ slots' \subseteq slots /\ queue' = queue
        /\ UNCHANGED <<store, refs, record, journal, made, local, view, uploaded, clock, edits>>
    BY <1>3 DEF RemoveStale, Try, Forward, files
  <2>3. queue' \in SUBSET Slots
    BY <2>2 DEF Inv, TypeInv
  <2>. QED BY <2>1, <2>2, <2>3, CleanupTry
<1>. QED BY <1>1, <1>2, <1>3

-----------------------------------------------------------------------------
(* The ends of an apply and of a recovery, and the program.                 *)

AtomicVars == <<Outcome.store, Outcome.refs, Baseline, view, edits>>

AtomicStep == [Atomic!Next]_AtomicVars

LEMMA SameStep ==
  ASSUME Same
  PROVE  AtomicStep
  BY DEF Same, AtomicStep, AtomicVars

LEMMA NothingMadeSaved ==
  ASSUME TypeInv
  PROVE  [k \in Kinds |-> IF k \in DOMAIN NothingMade THEN NothingMade[k] ELSE refs[k]] = refs
<1>1. DOMAIN NothingMade = {}
  BY DEF NothingMade
<1>. QED BY <1>1 DEF TypeInv

LEMMA ClearSteps ==
  ASSUME Inv, Clear
  PROVE  Inv' /\ AtomicStep
<1>. USE DEF Inv
<1>1. todo # << >> /\ Head(todo) = ClearStep /\ ClearStep \in FinishStepSet
  BY DEF Clear, ClearStep, FinishStepSet
<1>2. phase = "recovering" /\ journal # None /\ journal \in Journals
  BY <1>1, WhoseStep DEF PhaseInv, TypeInv
<1>3. /\ \/ /\ journal' = None /\ todo' = << >> /\ reason' = "none"
            /\ phase' = IF reason = "applied" THEN "applied" ELSE "idle"
            /\ UNCHANGED <<plan, tidy>>
         \/ Fail
      /\ journal' = journal \/ journal' = None
      /\ UNCHANGED <<store, refs, queue, slots, record, made, local, view, uploaded, clock, edits>>
  BY DEF Clear
<1>4. PhaseInv' /\ phase' \in {"down", "applied", "idle"}
  <2>1. CASE Fail
    BY <1>1, <1>2, <1>3, <2>1, PhaseFail, JournalFields
  <2>2. CASE /\ journal' = None /\ todo' = << >> /\ reason' = "none"
             /\ phase' = IF reason = "applied" THEN "applied" ELSE "idle"
             /\ UNCHANGED <<plan, tidy>>
    BY <1>2, <1>3, <2>2 DEF PhaseInv, Uncommitted
  <2>. QED BY <1>3, <2>1, <2>2
<1>5. TypeInv'
  <2>1. /\ phase' \in {"down", "idle", "planned", "applying", "recovering", "applied"}
        /\ reason' \in {"none", "start", "sync", "failed", "applied"}
        /\ plan' \in Changes \cup {None} /\ tidy' \in BOOLEAN
    <3>1. CASE Fail
      BY <1>2, <3>1 DEF Fail, TypeInv
    <3>2. CASE reason' = "none" /\ UNCHANGED <<plan, tidy>>
      BY <1>4, <3>2 DEF TypeInv
    <3>. QED BY <1>3, <3>1, <3>2
  <2>. QED BY <1>2, <1>3, <2>1 DEF TypeInv
<1>6. ~journal.committed => /\ \A s \in Stores : store[s] = Outcome.store[s]
                            /\ refs = journal.refs /\ made = NothingMade /\ record = journal.view
  <2>1. \A a : a # ClearStep => ~Left(a)
    BY <1>1, <1>2, LastStep
  <2>2. \A s \in Stores : <<"restore", s>> # ClearStep
    BY DEF ClearStep
  <2>3. <<"restore", "connections">> # ClearStep /\ <<"save", "replica">> # ClearStep
    BY DEF ClearStep
  <2>. QED BY <1>2, <2>1, <2>2, <2>3 DEF RestoredInv
<1>7. Same
  <2>1. CASE ~Uncommitted
    <3>1. ~Uncommitted'
      BY <1>3, <2>1 DEF Uncommitted
    <3>. QED BY <1>3, <2>1, <3>1, SameSettled
  <2>2. CASE Uncommitted /\ journal' = journal
    BY <1>3, <2>2, SamePending DEF Uncommitted, Rollback
  <2>3. CASE Uncommitted /\ journal' = None
    <3>1. Outcome.store' = store /\ Outcome.refs' = refs /\ Baseline' = record
      BY <1>3, <2>3 DEF Outcome, Baseline, Uncommitted
    <3>2. Outcome.store = Rollback(journal, store) /\ Outcome.refs = journal.refs
          /\ Baseline = journal.view
      BY <2>3 DEF Outcome, Rollback, Baseline
    <3>3. Outcome.store = store
      BY <1>6, <2>3, <3>2 DEF Rollback, TypeInv, Uncommitted
    <3>. QED BY <1>3, <1>6, <2>3, <3>1, <3>2, <3>3 DEF Same, Uncommitted
  <2>. QED BY <1>3, <2>1, <2>2, <2>3
<1>8. CaptureInv'
  <2>1. ~Uncommitted' => SavedRefs' = refs'
    <3>1. CASE ~Uncommitted
      BY <1>3, <3>1 DEF CaptureInv, SavedRefs
    <3>2. CASE Uncommitted
      BY <1>3, <1>6, <3>2, NothingMadeSaved DEF Uncommitted, SavedRefs
    <3>. QED BY <3>1, <3>2
  <2>2. \A s \in Stores : store'[s] <= clock
    BY <1>3 DEF CaptureInv
  <2>. QED BY <1>2, <1>3, <1>4, <1>7, <2>1, <2>2, CaptureSame
<1>9. WrittenInv' /\ RestoredInv'
  BY <1>4 DEF WrittenInv, RestoredInv
<1>. QED BY <1>4, <1>5, <1>7, <1>8, <1>9, SameStep

(* Where a recovery begins, it has nothing done.                            *)
LEMMA RecoveryBegins ==
  ASSUME journal' \in Journals, todo' = RecoverySteps(journal'.committed)
  PROVE  /\ RestoredInv' /\ todo' # << >>
         /\ IF journal'.committed THEN FinishOrder(todo') ELSE RollbackOrder(todo')
<1>1. journal'.committed = TRUE \/ journal'.committed = FALSE
  BY JournalFields
<1>2. ~journal'.committed =>
        /\ \A s \in Stores : Has(todo', <<"restore", s>>)
        /\ Has(todo', <<"restore", "connections">>) /\ Has(todo', <<"save", "replica">>)
  BY <1>1, RollbackStepsOrder DEF Stores
<1>3. RestoredInv'
  BY <1>2 DEF RestoredInv, Left
<1>. QED BY <1>1, <1>3, RollbackStepsOrder, FinishStepsOrder

LEMMA MarkCommittedSteps ==
  ASSUME Inv, MarkCommitted
  PROVE  Inv' /\ AtomicStep
<1>. USE DEF Inv
<1>. DEFINE marked == [journal EXCEPT !.committed = TRUE]
            next == [s \in Stores |-> clock]
<1>1. todo # << >> /\ Head(todo) = CommitStep /\ CommitStep \in ApplyStepSet
  BY DEF MarkCommitted, CommitStep, ApplyStepSet
<1>2. /\ phase = "applying" /\ Uncommitted /\ journal \in Journals /\ journal # None
      /\ ~journal.committed /\ local = None
  BY <1>1, ApplyStep DEF Uncommitted
<1>3. /\ \/ /\ journal' = marked /\ phase' = "recovering" /\ reason' = "applied"
            /\ todo' = RecoverySteps(TRUE) /\ made' = NothingMade /\ plan' = None
            /\ local' = next /\ tidy' = tidy
         \/ /\ Fail
            /\ journal' = marked \/ journal' = journal
            /\ UNCHANGED <<made, local>>
      /\ UNCHANGED <<store, refs, queue, slots, record, view, uploaded, clock, edits>>
  BY DEF MarkCommitted, files
<1>4. marked \in Journals /\ marked.committed = TRUE
  BY <1>2 DEF Journals
<1>. HIDE DEF marked
<1>5. journal' \in Journals /\ journal' # None
  BY <1>2, <1>3, <1>4, ApplyJournalAssumption
<1>6. /\ journal.noted /\ \A s \in Stores : store[s] = clock /\ journal.store[s] < clock
      /\ record = next /\ SavedRefs = refs
  <2>1. \A a : a # CommitStep => ~Left(a)
    BY <1>1, <1>2, LastStep
  <2>2. /\ <<"note", "auxiliary">> # CommitStep /\ <<"save", "record">> # CommitStep
        /\ <<"write", "connections">> # CommitStep /\ \A s \in Stores : <<"write", s>> # CommitStep
    BY DEF CommitStep
  <2>. QED BY <1>2, <2>1, <2>2 DEF WrittenInv
<1>7. next \in [Stores -> Nat] /\ next # None
  BY ApplyJournalAssumption DEF TypeInv
<1>8. TypeInv'
  <2>1. /\ phase' \in {"down", "idle", "planned", "applying", "recovering", "applied"}
        /\ reason' \in {"none", "start", "sync", "failed", "applied"}
        /\ plan' \in Changes \cup {None} /\ tidy' \in BOOLEAN
    <3>1. CASE Fail
      BY <1>2, <3>1 DEF Fail, TypeInv
    <3>. QED BY <1>3, <3>1 DEF TypeInv
  <2>2. DOMAIN made' \subseteq Kinds /\ \A k \in DOMAIN made' : made'[k] \in Slots \cup {None}
    BY <1>3 DEF TypeInv, NothingMade
  <2>3. local' \in [Stores -> Nat] \cup {None}
    BY <1>3, <1>7 DEF TypeInv
  <2>. QED BY <1>3, <1>5, <2>1, <2>2, <2>3 DEF TypeInv
<1>9. todo' = RecoverySteps(journal'.committed) /\ phase' = "recovering"
  BY <1>2, <1>3, <1>4 DEF Fail
<1>10. PhaseInv'
  <2>1. CASE Fail
    <3>1. journal'.committed \in BOOLEAN
      BY <1>5, JournalFields
    <3>2. local' = local
      BY <1>2, <1>3, <2>1 DEF Fail, PhaseInv
    <3>. QED BY <1>1, <1>2, <1>5, <2>1, <3>1, <3>2, PhaseFail
  <2>2. CASE /\ journal' = marked /\ phase' = "recovering" /\ reason' = "applied"
             /\ todo' = RecoverySteps(TRUE) /\ plan' = None /\ local' = next
    BY <1>4, <1>5, <1>7, <2>2, FinishStepsOrder DEF PhaseInv, Uncommitted
  <2>. QED BY <1>3, <2>1, <2>2
<1>11. WrittenInv' /\ RestoredInv'
  BY <1>5, <1>9, RecoveryBegins DEF WrittenInv
<1>12. CASE journal' = journal
  <2>0. UNCHANGED <<made, local>>
    BY <1>2, <1>3, <1>4, <1>12
  <2>1. Same
    BY <1>2, <1>3, <1>12, SamePending DEF Uncommitted, Rollback
  <2>2. CaptureInv'
    BY <1>2, <1>3, <1>9, <1>12, <2>0, <2>1, CaptureSame DEF Uncommitted, CaptureInv
  <2>. QED BY <1>8, <1>10, <1>11, <2>1, <2>2, SameStep
<1>13. CASE journal' = marked
  <2>1. ~Uncommitted'
    BY <1>4, <1>13 DEF Uncommitted
  <2>2. Outcome.store' = store /\ Outcome.refs' = refs /\ Baseline' = next
    BY <1>3, <1>6, <2>1 DEF Outcome, Baseline
  <2>3. Baseline = journal.view /\ \A s \in Stores : Outcome.store[s] = journal.store[s]
    BY <1>2, <1>6 DEF Outcome, Baseline
  <2>4. store = next
    BY <1>6 DEF TypeInv
  <2>5. /\ uploaded \in [Stores -> Nat] /\ clock \in Nat /\ journal.store \in [Stores -> Nat]
        /\ journal.view \in [Stores -> Nat]
    BY <1>2, JournalFields DEF TypeInv
  <2>6. \A s \in Stores : uploaded[s] <= clock
    <3>1. \A s \in Stores : uploaded[s] <= journal.view[s] /\ journal.view[s] <= journal.store[s]
      BY <2>3 DEF CaptureInv
    <3>. QED BY <1>6, <2>5, <3>1
  <2>7. SavedRefs' = refs'
    <3>1. CASE made' = made
      BY <1>3, <1>6, <3>1 DEF SavedRefs
    <3>2. CASE made' = NothingMade
      BY <1>3, <3>2, NothingMadeSaved DEF SavedRefs
    <3>. QED BY <1>3, <3>1, <3>2
  <2>8. \A s \in Stores : journal'.store[s] <= clock
    <3>1. journal'.store = journal.store
      BY <1>2, <1>13 DEF marked, Journals
    <3>. QED BY <1>6, <2>5, <3>1
  <2>9. local' # None => local' = next
    BY <1>2, <1>3
  <2>10. CaptureInv'
    <3>1. \A s \in Stores : store'[s] = clock' /\ Baseline'[s] = clock /\ Outcome.store'[s] = clock
      BY <1>3, <1>6, <2>2
    <3>2. \A s \in Stores : store'[s] <= clock' /\ uploaded'[s] <= Baseline'[s]
                            /\ Baseline'[s] <= Outcome.store'[s]
      BY <1>3, <2>5, <2>6, <3>1
    <3>. QED BY <1>3, <1>6, <1>9, <2>7, <2>8, <2>9, <3>2 DEF CaptureInv
  <2>11. Atomic!Commit
    <3>1. \A s, t \in Stores : Outcome.store'[s] = Outcome.store'[t]
                               /\ Outcome.store'[s] > Outcome.store[s]
      BY <1>6, <2>2, <2>3, <2>5
    <3>2. \A s, t \in Stores : Outcome.store'[s] = Outcome.store'[t]
                               /\ Outcome.store'[s] > Outcome.store[t]
      BY <1>6, <2>2, <2>3, <2>5
    <3>3. DOMAIN Outcome.refs' = Kinds
      BY <2>2 DEF TypeInv
    <3>4. Baseline' = Outcome.store' /\ UNCHANGED <<view, edits>>
      BY <1>3, <2>2, <2>4
    <3>. QED BY <3>2, <3>3, <3>4 DEF Atomic!Commit
  <2>. QED BY <1>8, <1>10, <1>11, <2>10, <2>11 DEF AtomicStep, Atomic!Next
<1>. QED BY <1>3, <1>12, <1>13

-----------------------------------------------------------------------------
(* The program between applies and recoveries.                              *)

LEMMA StartSteps ==
  ASSUME Inv, Start
  PROVE  Inv' /\ Same
<1>. USE DEF Inv
<1>1. phase = "down" /\ todo = << >> /\ plan = None /\ reason = "none" /\ local = None
  BY DEF PhaseInv, Start, TypeInv
<1>2. /\ UNCHANGED <<store, refs, record, journal, plan, made, local, tidy, view, uploaded, clock, edits>>
      /\ slots' \subseteq slots /\ queue' \subseteq queue
      /\ IF journal = None THEN phase' = "idle" /\ UNCHANGED <<reason, todo>>
         ELSE /\ phase' = "recovering" /\ reason' = "start"
              /\ todo' = RecoverySteps(journal'.committed)
  BY DEF Start, Recover
<1>3. TypeInv'
  BY <1>1, <1>2 DEF TypeInv
<1>4. Same
  <2>1. CASE Uncommitted
    BY <1>2, <2>1, SamePending DEF Uncommitted, Rollback
  <2>2. CASE ~Uncommitted
    BY <1>2, <2>2, SameSettled DEF Uncommitted
  <2>. QED BY <2>1, <2>2
<1>5. SavedRefs' = SavedRefs /\ (Uncommitted' <=> Uncommitted)
  BY <1>2 DEF SavedRefs, Uncommitted
<1>6. CaptureInv'
  BY <1>2, <1>4, <1>5, CaptureSame DEF CaptureInv
<1>7. CASE journal = None
  <2>1. PhaseInv'
    BY <1>1, <1>2, <1>7 DEF PhaseInv, Uncommitted
  <2>2. WrittenInv' /\ RestoredInv'
    BY <1>2, <1>7 DEF WrittenInv, RestoredInv
  <2>. QED BY <1>3, <1>4, <1>6, <2>1, <2>2
<1>8. CASE journal # None
  <2>1. journal' \in Journals
    BY <1>2, <1>8 DEF TypeInv
  <2>2. RestoredInv' /\ todo' # << >>
        /\ IF journal'.committed THEN FinishOrder(todo') ELSE RollbackOrder(todo')
    BY <1>2, <1>8, <2>1, RecoveryBegins
  <2>3. PhaseInv'
    BY <1>1, <1>2, <1>8, <2>2 DEF PhaseInv, Uncommitted
  <2>4. WrittenInv'
    BY <1>2, <1>8 DEF WrittenInv
  <2>. QED BY <1>3, <1>4, <1>6, <2>2, <2>3, <2>4
<1>. QED BY <1>7, <1>8

LEMMA RecoverPendingSteps ==
  ASSUME Inv, RecoverPending
  PROVE  Inv' /\ Same
<1>. USE DEF Inv
<1>1. phase = "idle" /\ todo = << >> /\ plan = None /\ reason = "none" /\ local = None
      /\ journal # None
  BY DEF PhaseInv, RecoverPending, TypeInv
<1>2. /\ UNCHANGED <<store, refs, queue, slots, record, journal, plan, made, local, tidy, view,
                     uploaded, clock, edits>>
      /\ phase' = "recovering" /\ reason' = "sync" /\ todo' = RecoverySteps(journal'.committed)
  BY DEF RecoverPending, Recover, files, bounds
<1>3. TypeInv'
  BY <1>1, <1>2 DEF TypeInv
<1>4. Same
  <2>1. CASE Uncommitted
    BY <1>2, <2>1, SamePending DEF Uncommitted, Rollback
  <2>2. CASE ~Uncommitted
    BY <1>2, <2>2, SameSettled DEF Uncommitted
  <2>. QED BY <2>1, <2>2
<1>5. SavedRefs' = SavedRefs /\ (Uncommitted' <=> Uncommitted)
  BY <1>2 DEF SavedRefs, Uncommitted
<1>6. CaptureInv'
  BY <1>2, <1>4, <1>5, CaptureSame DEF CaptureInv
<1>7. journal' \in Journals
  BY <1>1, <1>2 DEF TypeInv
<1>8. RestoredInv' /\ todo' # << >>
      /\ IF journal'.committed THEN FinishOrder(todo') ELSE RollbackOrder(todo')
  BY <1>2, <1>7, RecoveryBegins
<1>9. PhaseInv'
  BY <1>1, <1>2, <1>8 DEF PhaseInv, Uncommitted
<1>10. WrittenInv'
  BY <1>2 DEF WrittenInv
<1>. QED BY <1>3, <1>4, <1>6, <1>8, <1>9, <1>10

LEMMA CancelSteps ==
  ASSUME Inv, Cancel
  PROVE  Inv' /\ Same
<1>. USE DEF Inv
<1>1. phase = "planned" /\ todo = << >> /\ journal = None /\ reason = "none" /\ local = None
  BY DEF PhaseInv, Cancel, TypeInv
<1>2. /\ UNCHANGED <<store, refs, queue, slots, record, journal, todo, reason, made, local, tidy,
                     view, uploaded, clock, edits>>
      /\ phase' = "idle" /\ plan' = None
  BY DEF Cancel, files, bounds
<1>3. TypeInv' /\ WrittenInv' /\ RestoredInv'
  BY <1>2 DEF TypeInv, WrittenInv, RestoredInv
<1>4. Same
  BY <1>1, <1>2, SameSettled DEF Uncommitted
<1>5. SavedRefs' = SavedRefs /\ ~Uncommitted
  BY <1>1, <1>2 DEF SavedRefs, Uncommitted
<1>6. CaptureInv'
  BY <1>2, <1>4, <1>5, CaptureSame DEF CaptureInv
<1>7. PhaseInv'
  BY <1>1, <1>2 DEF PhaseInv, Uncommitted
<1>. QED BY <1>3, <1>4, <1>6, <1>7

LEMMA CrashSteps ==
  ASSUME Inv, Crash
  PROVE  Inv' /\ Same
<1>. USE DEF Inv
<1>1. /\ UNCHANGED <<store, refs, queue, slots, record, journal, view, uploaded, clock, edits>>
      /\ phase' = "down" /\ todo' = << >> /\ reason' = "none" /\ plan' = None
      /\ made' = NothingMade /\ local' = None /\ tidy' = TRUE
  BY DEF Crash, files
<1>2. TypeInv'
  BY <1>1 DEF TypeInv, NothingMade
<1>3. PhaseInv' /\ WrittenInv' /\ RestoredInv'
  BY <1>1 DEF PhaseInv, WrittenInv, RestoredInv
<1>4. Same
  <2>1. CASE Uncommitted
    BY <1>1, <2>1, SamePending DEF Uncommitted, Rollback
  <2>2. CASE ~Uncommitted
    BY <1>1, <2>2, SameSettled DEF Uncommitted
  <2>. QED BY <2>1, <2>2
<1>5. SavedRefs' = refs'
  BY <1>1, NothingMadeSaved DEF SavedRefs
<1>6. CaptureInv'
  BY <1>1, <1>4, <1>5 DEF CaptureInv, Same
<1>. QED BY <1>2, <1>3, <1>4, <1>6

LEMMA PlanSteps ==
  ASSUME Inv, NEW change \in Plans, Plan(change)
  PROVE  Inv' /\ AtomicStep
<1>. USE DEF Inv
<1>1. phase = "idle" /\ todo = << >> /\ journal = None /\ reason = "none" /\ local = None
      /\ change \in Changes /\ change # None
  BY ApplyJournalAssumption DEF PhaseInv, Plan, TypeInv
<1>2. /\ UNCHANGED <<store, refs, queue, slots, record, journal, todo, reason, made, local,
                     uploaded, clock, edits>>
      /\ phase' = "planned" /\ plan' = change /\ view' = store /\ tidy' = TRUE
  BY DEF Plan, files
<1>3. TypeInv' /\ WrittenInv' /\ RestoredInv'
  BY <1>1, <1>2 DEF TypeInv, WrittenInv, RestoredInv
<1>4. PhaseInv'
  BY <1>1, <1>2 DEF PhaseInv, Uncommitted
<1>5. /\ Outcome.store' = store /\ Outcome.refs' = refs /\ Baseline' = record
      /\ Outcome.store = store /\ Outcome.refs = refs /\ Baseline = record
      /\ SavedRefs' = SavedRefs /\ ~Uncommitted
  BY <1>1, <1>2 DEF Outcome, Baseline, Uncommitted, SavedRefs
<1>6. CaptureInv'
  <2>1. \A s \in Stores : store[s] \in Nat
    BY DEF TypeInv
  <2>. QED BY <1>1, <1>2, <1>5, <2>1 DEF CaptureInv
<1>7. Atomic!Plan
  BY <1>2, <1>5 DEF Atomic!Plan
<1>. QED BY <1>3, <1>4, <1>6, <1>7 DEF AtomicStep, Atomic!Next
(* A plan that changes nothing is recorded: what the baseline is after.     *)
LEMMA ApplyUnchangedSteps ==
  ASSUME Inv, ApplyUnchanged
  PROVE  Inv' /\ AtomicStep
<1>. USE DEF Inv
<1>1. phase = "planned" /\ todo = << >> /\ journal = None /\ reason = "none" /\ local = None
  BY DEF PhaseInv, ApplyUnchanged, TypeInv
<1>2. /\ plan' = None
      /\ \/ record' = store /\ local' = store /\ phase' = "applied"
         \/ record' \in {record, store} /\ local' = local /\ phase' = "idle"
      /\ UNCHANGED <<store, refs, queue, slots, journal, todo, reason, made, tidy, view, uploaded,
                     clock, edits>>
  BY DEF ApplyUnchanged
<1>3. store # None /\ store \in [Stores -> Nat]
  BY ApplyJournalAssumption DEF TypeInv
<1>4. TypeInv'
  <2>1. record' \in [Stores -> Nat] /\ local' \in [Stores -> Nat] \cup {None}
    BY <1>2, <1>3 DEF TypeInv
  <2>. QED BY <1>2, <2>1 DEF TypeInv
<1>5. WrittenInv' /\ RestoredInv'
  BY <1>2 DEF WrittenInv, RestoredInv
<1>6. PhaseInv'
  BY <1>1, <1>2, <1>3 DEF PhaseInv, Uncommitted
<1>7. /\ Outcome.store' = store /\ Outcome.refs' = refs /\ Baseline' = record'
      /\ Outcome.store = store /\ Outcome.refs = refs /\ Baseline = record
      /\ SavedRefs' = SavedRefs /\ ~Uncommitted
  BY <1>1, <1>2 DEF Outcome, Baseline, Uncommitted, SavedRefs
<1>8. CaptureInv'
  <2>1. \A s \in Stores : store[s] \in Nat /\ record[s] \in Nat /\ uploaded[s] \in Nat
    BY DEF TypeInv
  <2>2. \A s \in Stores : uploaded[s] <= record[s] /\ record[s] <= store[s]
    BY <1>7 DEF CaptureInv
  <2>3. \A s \in Stores : uploaded[s] <= record'[s] /\ record'[s] <= store[s]
    BY <1>2, <2>1, <2>2
  <2>4. local' # None => local' = record'
    BY <1>1, <1>2
  <2>5. \A s \in Stores : store'[s] <= clock'
    BY <1>2 DEF CaptureInv
  <2>6. SavedRefs' = refs' /\ journal' = None /\ phase' # "planned"
    BY <1>1, <1>2, <1>7 DEF CaptureInv
  <2>. QED BY <1>2, <1>7, <2>3, <2>4, <2>5, <2>6 DEF CaptureInv
<1>9. AtomicStep
  <2>1. CASE record' = record
    BY <1>2, <1>7, <2>1 DEF AtomicStep, AtomicVars
  <2>2. CASE record' = store
    BY <1>2, <1>7, <2>2 DEF AtomicStep, Atomic!Next, Atomic!Settle
  <2>. QED BY <1>2, <2>1, <2>2
<1>. QED BY <1>4, <1>5, <1>6, <1>8, <1>9

LEMMA PublishSteps ==
  ASSUME Inv, Publish
  PROVE  Inv' /\ AtomicStep
<1>. USE DEF Inv
<1>1. phase = "applied" /\ todo = << >> /\ plan = None /\ reason = "none" /\ local # None
      /\ local = record /\ ~Uncommitted
  BY DEF PhaseInv, CaptureInv, Publish
<1>2. /\ record' = record /\ uploaded' \in {uploaded, record}
      /\ UNCHANGED <<store, refs, queue, slots, journal, todo, reason, plan, made, tidy, view,
                     clock, edits>>
      /\ phase' = "idle" /\ local' = None
  BY <1>1 DEF Publish, bounds
<1>3. TypeInv' /\ WrittenInv' /\ RestoredInv'
  BY <1>2 DEF TypeInv, WrittenInv, RestoredInv
<1>4. PhaseInv'
  BY <1>1, <1>2 DEF PhaseInv, Uncommitted
<1>5. /\ Outcome.store' = store /\ Outcome.refs' = refs /\ Baseline' = record
      /\ Outcome.store = store /\ Outcome.refs = refs /\ Baseline = record
      /\ SavedRefs' = SavedRefs /\ ~Uncommitted'
  BY <1>1, <1>2 DEF Outcome, Baseline, Uncommitted, SavedRefs
<1>6. CaptureInv'
  <2>1. \A s \in Stores : record[s] \in Nat /\ uploaded[s] \in Nat
    BY DEF TypeInv
  <2>2. \A s \in Stores : uploaded'[s] <= record[s]
    BY <1>2, <1>5, <2>1 DEF CaptureInv
  <2>. QED BY <1>1, <1>2, <1>5, <2>2 DEF CaptureInv
<1>7. AtomicStep
  BY <1>2, <1>5 DEF AtomicStep, AtomicVars
<1>. QED BY <1>3, <1>4, <1>6, <1>7

(* The checkpoint: nothing is done yet, and the plan's baseline is kept.    *)
LEMMA BeginSteps ==
  ASSUME Inv, Begin
  PROVE  Inv' /\ AtomicStep
<1>. USE DEF Inv
<1>1. phase = "planned" /\ todo = << >> /\ journal = None /\ reason = "none" /\ local = None
      /\ plan \in Changes /\ plan # None
  BY DEF PhaseInv, Begin, TypeInv
<1>2. /\ \/ /\ journal' = Checkpoint /\ phase' = "applying" /\ todo' = ApplySteps(plan)
            /\ made' = [k \in {m \in Kinds : plan[m] = "drop"} |-> None] /\ plan' = plan
         \/ /\ journal' \in {None, Checkpoint} /\ phase' = "idle" /\ plan' = None
            /\ UNCHANGED <<todo, made>>
      /\ clock' = clock + 1
      /\ UNCHANGED <<store, refs, queue, slots, record, reason, local, tidy, view, uploaded, edits>>
  BY DEF Begin
<1>3. Checkpoint \in Journals
  BY DEF Checkpoint, Journals, TypeInv
<1>4. /\ Checkpoint # None /\ Checkpoint.committed = FALSE /\ Checkpoint.noted = FALSE
      /\ Checkpoint.store = store /\ Checkpoint.refs = refs /\ Checkpoint.view = view
  BY <1>3, ApplyJournalAssumption DEF Checkpoint
<1>. HIDE DEF Checkpoint
<1>5. TypeInv'
  <2>1. journal' \in Journals \cup {None}
    BY <1>2, <1>3
  <2>2. DOMAIN made' \subseteq Kinds /\ \A k \in DOMAIN made' : made'[k] \in Slots \cup {None}
    BY <1>2 DEF TypeInv
  <2>. QED BY <1>2, <2>1, <2>2 DEF TypeInv
<1>6. /\ Outcome.store = store /\ Outcome.refs = refs /\ Baseline = record /\ ~Uncommitted
  BY <1>1 DEF Outcome, Baseline, Uncommitted
<1>7. journal' = None => Outcome.store' = store /\ Outcome.refs' = refs /\ Baseline' = record
                         /\ ~Uncommitted'
  BY <1>2 DEF Outcome, Baseline, Uncommitted
<1>8. journal' = Checkpoint =>
        Outcome.store' = store /\ Outcome.refs' = refs /\ Baseline' = view /\ Uncommitted'
  <2>1. ASSUME journal' = Checkpoint PROVE Uncommitted'
    BY <1>4, <2>1 DEF Uncommitted
  <2>2. ASSUME journal' = Checkpoint PROVE Outcome.refs' = refs /\ Baseline' = view
    BY <1>2, <1>4, <2>1, <2>2 DEF Outcome, Baseline
  <2>3. ASSUME journal' = Checkpoint PROVE Outcome.store' = store
    <3>1. Outcome.store' = [s \in Stores |-> IF s = "auxiliary" /\ ~journal'.noted
                                             THEN store'[s] ELSE journal'.store[s]]
      BY <2>1, <2>3 DEF Outcome
    <3>2. store = [s \in Stores |-> store[s]]
      BY DEF TypeInv
    <3>. QED BY <1>2, <1>4, <2>3, <3>1, <3>2
  <2>. QED BY <2>1, <2>2, <2>3
<1>9. AtomicStep
  <2>1. CASE journal' = None
    BY <1>2, <1>6, <1>7, <2>1 DEF AtomicStep, AtomicVars
  <2>2. CASE journal' = Checkpoint
    BY <1>2, <1>6, <1>8, <2>2 DEF AtomicStep, Atomic!Next, Atomic!Capture
  <2>. QED BY <1>2, <2>1, <2>2
<1>10. \A s \in Stores : store[s] \in Nat /\ record[s] \in Nat /\ uploaded[s] \in Nat
                         /\ view[s] \in Nat /\ store[s] <= clock /\ clock \in Nat
                         /\ uploaded[s] <= record[s] /\ record[s] <= view[s] /\ view[s] <= store[s]
  BY <1>1, <1>6 DEF TypeInv, CaptureInv
<1>11. CaptureInv'
  <2>1. SavedRefs = refs
    BY <1>6 DEF CaptureInv
  <2>2. ~Uncommitted' => SavedRefs' = refs'
    BY <1>2, <1>8, <2>1 DEF SavedRefs
  <2>3. Baseline' \in {record, view} /\ Outcome.store' = store
    BY <1>2, <1>7, <1>8
  <2>4. journal' # None => journal'.store = store
    BY <1>2, <1>4
  <2>5. \A s \in Stores : uploaded[s] <= Baseline'[s] /\ Baseline'[s] <= store[s]
    BY <1>10, <2>3
  <2>6. \A s \in Stores : store[s] <= clock + 1
    BY <1>10
  <2>. QED BY <1>1, <1>2, <2>2, <2>3, <2>4, <2>5, <2>6 DEF CaptureInv
<1>12. PhaseInv' /\ WrittenInv' /\ RestoredInv'
  <2>1. CASE phase' = "idle"
    BY <1>1, <1>2, <2>1 DEF PhaseInv, WrittenInv, RestoredInv
  <2>2. CASE phase' = "applying"
    <3>1. journal' = Checkpoint /\ todo' = ApplySteps(plan) /\ plan' = plan
      BY <1>2, <2>2
    <3>2. PhaseInv'
      BY <1>1, <1>2, <1>8, <2>2, <3>1, ApplyStepsOrder DEF PhaseInv
    <3>3. WrittenInv'
      <4>1. /\ \A s \in Stores : Has(todo', <<"write", s>>)
            /\ Has(todo', <<"note", "auxiliary">>) /\ Has(todo', <<"save", "record">>)
        BY <1>1, <3>1, ApplyStepsOrder
      <4>2. Has(todo', <<"write", "connections">>)
        BY <4>1 DEF Stores
      <4>3. \A s \in Stores : journal'.store[s] < clock'
        BY <1>2, <1>4, <1>10, <3>1
      <4>4. store'["auxiliary"] = journal'.store["auxiliary"]
        BY <1>2, <1>4, <3>1
      <4>. QED BY <4>1, <4>2, <4>3, <4>4 DEF WrittenInv, Left
    <3>4. RestoredInv'
      BY <2>2 DEF RestoredInv
    <3>. QED BY <3>2, <3>3, <3>4
  <2>. QED BY <1>2, <2>1, <2>2
<1>. QED BY <1>5, <1>9, <1>11, <1>12
(* The user's edits, of one store and at most one credential.               *)
LEMMA EditTry ==
  ASSUME Inv, NEW s \in Stores, NEW what, Editing(what),
         store' = [store EXCEPT ![s] = clock + 1],
         refs' \in [Kinds -> Slots \cup {None}], slots' \in SUBSET Slots, queue' \in SUBSET Slots,
         DOMAIN made' \subseteq Kinds, \A k \in DOMAIN made' : made'[k] \in Slots \cup {None},
         ~Uncommitted => SavedRefs' = refs',
         ~Uncommitted => \/ refs' = refs
                         \/ s = "connections"
                            /\ \E k \in Kinds : refs' = [refs EXCEPT ![k] = refs'[k]]
  PROVE  Inv' /\ AtomicStep
<1>. USE DEF Inv
<1>1. /\ phase \in {"idle", "planned", "applied"} /\ edits' = edits + 1 /\ clock' = clock + 1
      /\ UNCHANGED <<record, journal, phase, todo, reason, plan, local, tidy, view, uploaded>>
  BY DEF Editing
<1>2. /\ store \in [Stores -> Nat] /\ clock \in Nat /\ \A o \in Stores : store[o] <= clock
      /\ journal \in Journals \cup {None}
  BY DEF TypeInv, CaptureInv
<1>3. store' \in [Stores -> Nat] /\ \A o \in Stores : store[o] <= store'[o] /\ store'[o] <= clock'
  BY <1>1, <1>2
<1>4. TypeInv' /\ PhaseInv' /\ WrittenInv' /\ RestoredInv'
  <2>1. TypeInv'
    BY <1>1, <1>3 DEF TypeInv
  <2>2. PhaseInv'
    BY <1>1 DEF PhaseInv, Uncommitted
  <2>. QED BY <1>1, <2>1, <2>2 DEF WrittenInv, RestoredInv
<1>5. Baseline' = Baseline /\ (Uncommitted' <=> Uncommitted)
  BY <1>1 DEF Baseline, Uncommitted
<1>6. /\ Outcome.store \in [Stores -> Nat]
      /\ \A o \in Stores : Outcome.store[o] <= Outcome.store'[o]
      /\ Outcome.store' = [Outcome.store EXCEPT ![s] = Outcome.store'[s]]
  <2>1. CASE ~Uncommitted
    <3>1. Outcome.store = store /\ Outcome.store' = store'
      BY <1>5, <2>1 DEF Outcome
    <3>. QED BY <1>2, <1>3, <3>1
  <2>2. CASE Uncommitted
    <3>1. journal \in Journals /\ journal.store \in [Stores -> Nat]
      BY <1>2, <2>2, JournalFields DEF Uncommitted
    <3>2. Outcome.store = Rollback(journal, store) /\ Outcome.store' = Rollback(journal, store')
      BY <1>1, <1>5, <2>2 DEF Outcome, Rollback
    <3>3. Rollback(journal, store) \in [Stores -> Nat]
      BY <1>2, <3>1 DEF Rollback
    <3>4. \A o \in Stores : Rollback(journal, store)[o] <= Rollback(journal, store')[o]
      BY <1>2, <1>3, <3>1 DEF Rollback
    <3>5. \A o \in Stores \ {s} : Rollback(journal, store')[o] = Rollback(journal, store)[o]
      BY <1>2 DEF Rollback
    <3>6. DOMAIN Rollback(journal, store') = Stores
          /\ Rollback(journal, store') = [o \in Stores |-> Rollback(journal, store')[o]]
      BY DEF Rollback
    <3>. DEFINE before == Rollback(journal, store)
                after == Rollback(journal, store')
    <3>. HIDE DEF before, after
    <3>7. after = [before EXCEPT ![s] = after[s]]
      BY <3>3, <3>5, <3>6 DEF before, after
    <3>8. /\ before \in [Stores -> Nat] /\ \A o \in Stores : before[o] <= after[o]
          /\ Outcome.store = before /\ Outcome.store' = after
      BY <3>2, <3>3, <3>4 DEF before, after
    <3>. QED BY <3>7, <3>8
  <2>. QED BY <2>1, <2>2
<1>7. CaptureInv'
  <2>1. \A o \in Stores : Baseline[o] \in Nat
    <3>1. record \in [Stores -> Nat]
      BY DEF TypeInv
    <3>2. Uncommitted => journal.view \in [Stores -> Nat]
      BY <1>2, JournalFields DEF Uncommitted
    <3>. QED BY <3>1, <3>2 DEF Baseline
  <2>2. \A o \in Stores : Outcome.store[o] \in Nat /\ Outcome.store'[o] \in Nat
    <3>1. Outcome.store' \in [Stores -> Nat]
      <4>1. CASE ~Uncommitted
        BY <1>3, <1>5, <4>1 DEF Outcome
      <4>2. CASE Uncommitted
        <5>1. journal.store \in [Stores -> Nat]
          BY <1>2, <4>2, JournalFields DEF Uncommitted
        <5>. QED BY <1>1, <1>3, <1>5, <4>2, <5>1 DEF Outcome
      <4>. QED BY <4>1, <4>2
    <3>. QED BY <1>6, <3>1
  <2>3. \A o \in Stores : uploaded'[o] <= Baseline'[o] /\ Baseline'[o] <= Outcome.store'[o]
    BY <1>1, <1>5, <1>6, <2>1, <2>2 DEF CaptureInv
  <2>4. journal' # None => \A o \in Stores : journal'.store[o] <= clock'
    <3>1. journal # None => journal.store \in [Stores -> Nat]
      BY <1>2, JournalFields
    <3>. QED BY <1>1, <1>2, <3>1 DEF CaptureInv
  <2>5. phase' = "planned" => \A o \in Stores : record'[o] <= view'[o] /\ view'[o] <= store'[o]
    <3>1. \A o \in Stores : view[o] \in Nat
      BY DEF TypeInv
    <3>. QED BY <1>1, <1>2, <1>3, <3>1 DEF CaptureInv
  <2>. QED BY <1>1, <1>3, <1>5, <2>3, <2>4, <2>5 DEF CaptureInv
<1>8. Outcome.refs' = Outcome.refs
      \/ (s = "connections" /\ \E k \in Kinds : Outcome.refs' = [Outcome.refs EXCEPT ![k] = Outcome.refs'[k]])
  <2>1. CASE ~Uncommitted
    <3>1. Outcome.refs = refs /\ Outcome.refs' = refs'
      BY <1>5, <2>1 DEF Outcome
    <3>. QED BY <2>1, <3>1
  <2>2. CASE Uncommitted
    BY <1>1, <1>5, <2>2 DEF Outcome
  <2>. QED BY <2>1, <2>2
<1>9. Atomic!Edit
  <2>1. Outcome.store'[s] >= Outcome.store[s]
    <3>1. Outcome.store[s] <= Outcome.store'[s]
      BY <1>6
    <3>. QED BY <3>1
  <2>. QED BY <1>1, <1>5, <1>6, <1>8, <2>1 DEF Atomic!Edit
<1>. QED BY <1>4, <1>7, <1>9 DEF AtomicStep, Atomic!Next

LEMMA EditValueSteps ==
  ASSUME Inv, NEW s \in Stores, EditValue(s)
  PROVE  Inv' /\ AtomicStep
<1>1. /\ Editing("value") /\ store' = [store EXCEPT ![s] = clock + 1]
      /\ UNCHANGED <<queue, slots>>
      /\ \/ s = "connections" /\ refs' = SavedRefs /\ made' = NothingMade
         \/ UNCHANGED <<refs, made>>
  BY DEF EditValue
<1>2. SavedRefs \in [Kinds -> Slots \cup {None}] /\ refs \in [Kinds -> Slots \cup {None}]
      /\ slots' \in SUBSET Slots /\ queue' \in SUBSET Slots
  BY <1>1, SavedTyped DEF Inv, TypeInv
<1>3. ~Uncommitted => refs' = refs
  BY <1>1 DEF Inv, CaptureInv
<1>4. refs' \in [Kinds -> Slots \cup {None}]
  BY <1>1, <1>2
<1>5. DOMAIN made' \subseteq Kinds /\ \A k \in DOMAIN made' : made'[k] \in Slots \cup {None}
  BY <1>1 DEF Inv, TypeInv, NothingMade
<1>6. ~Uncommitted => SavedRefs' = refs'
  <2>1. CASE made' = NothingMade /\ ~Uncommitted
    BY <1>3, <2>1, NothingMadeSaved DEF SavedRefs, Inv
  <2>2. CASE UNCHANGED <<refs, made>>
    BY <2>2 DEF SavedRefs, Inv, CaptureInv
  <2>. QED BY <1>1, <2>1, <2>2
<1>. QED BY <1>1, <1>2, <1>3, <1>4, <1>5, <1>6, EditTry

LEMMA EditCredentialSteps ==
  ASSUME Inv, NEW k \in Kinds, EditCredential(k)
  PROVE  Inv' /\ AtomicStep
<1>. DEFINE slot == <<k, clock + 1>>
            old == {SavedRefs[k]} \ {None}
<1>1. /\ Editing("credential") /\ store' = [store EXCEPT !["connections"] = clock + 1]
      /\ refs' = [SavedRefs EXCEPT ![k] = slot] /\ made' = NothingMade
      /\ \/ slots' = (slots \cup {slot}) \ old /\ queue' = queue
         \/ slots' = slots \cup {slot} /\ queue' = queue \cup old
  BY DEF EditCredential
<1>2. SavedRefs \in [Kinds -> Slots \cup {None}] /\ slots \in SUBSET Slots /\ queue \in SUBSET Slots
  BY SavedTyped DEF Inv, TypeInv
<1>3. slot \in Slots
  BY DEF Inv, TypeInv, Slots
<1>4. old \subseteq Slots
  BY <1>2
<1>. HIDE DEF slot, old
<1>5. slots' \in SUBSET Slots /\ queue' \in SUBSET Slots
  BY <1>1, <1>2, <1>3, <1>4
<1>6. refs' \in [Kinds -> Slots \cup {None}]
  BY <1>1, <1>2, <1>3
<1>7. DOMAIN made' \subseteq Kinds /\ \A m \in DOMAIN made' : made'[m] \in Slots \cup {None}
  BY <1>1 DEF NothingMade
<1>8. SavedRefs' = refs'
  <2>1. DOMAIN made' = {}
    BY <1>1 DEF NothingMade
  <2>. QED BY <1>6, <2>1 DEF SavedRefs
<1>9. ~Uncommitted => refs' = [refs EXCEPT ![k] = refs'[k]]
  <2>1. ~Uncommitted => SavedRefs = refs
    BY DEF Inv, CaptureInv
  <2>2. refs'[k] = slot
    BY <1>1, <1>2
  <2>. QED BY <1>1, <2>1, <2>2
<1>10. "connections" \in Stores
  BY DEF Stores
<1>. QED BY <1>1, <1>5, <1>6, <1>7, <1>8, <1>9, <1>10, EditTry
-----------------------------------------------------------------------------
(* The specification.                                                       *)

LEMMA InvInit ==
  ASSUME Init
  PROVE  Inv /\ Atomic!Init
<1>1. /\ store = [s \in Stores |-> 0] /\ record = store /\ view = store /\ uploaded = store
      /\ refs = [k \in Kinds |-> <<k, 0>>] /\ queue = {} /\ slots = Live(refs)
      /\ journal = None /\ phase = "idle" /\ todo = << >> /\ reason = "none" /\ plan = None
      /\ made = NothingMade /\ local = None /\ tidy = TRUE /\ clock = 0 /\ edits = 0
  BY DEF Init
<1>2. Slots = Kinds \X Nat /\ refs \in [Kinds -> Slots \cup {None}]
  BY <1>1 DEF Slots
<1>3. slots \subseteq Slots
  BY <1>1, <1>2 DEF Live
<1>4. TypeInv
  BY <1>1, <1>2, <1>3 DEF TypeInv, NothingMade
<1>5. ~Uncommitted /\ Outcome.store = store /\ Outcome.refs = refs /\ Baseline = record
  BY <1>1 DEF Uncommitted, Outcome, Baseline
<1>6. PhaseInv
  BY <1>1, <1>5 DEF PhaseInv
<1>7. SavedRefs = refs
  BY <1>1, <1>4, NothingMadeSaved DEF SavedRefs
<1>8. CaptureInv
  BY <1>1, <1>5, <1>7 DEF CaptureInv
<1>9. WrittenInv /\ RestoredInv
  BY <1>1 DEF WrittenInv, RestoredInv
<1>10. Atomic!Init
  BY <1>1, <1>2, <1>5 DEF Atomic!Init
<1>. QED BY <1>4, <1>6, <1>8, <1>9, <1>10 DEF Inv

LEMMA IdleStep ==
  ASSUME Inv, UNCHANGED vars
  PROVE  Inv' /\ Same
<1>1. UNCHANGED <<store, refs, queue, slots, record, journal, phase, todo, reason, view, plan, made,
                  local, tidy, uploaded, clock, edits>>
  BY DEF vars, files, memory, bounds
<1>2. TypeInv'
  BY <1>1 DEF Inv, TypeInv
<1>3. UNCHANGED Uncommitted /\ UNCHANGED Outcome /\ UNCHANGED Baseline /\ UNCHANGED SavedRefs
  BY <1>1 DEF Uncommitted, Outcome, Baseline, SavedRefs
<1>4. PhaseInv'
  BY <1>1, <1>3 DEF Inv, PhaseInv
<1>5. CaptureInv'
  BY <1>1, <1>3 DEF Inv, CaptureInv
<1>6. WrittenInv' /\ RestoredInv'
  BY <1>1, <1>3 DEF Inv, WrittenInv, RestoredInv, Left
<1>7. Same
  BY <1>1, <1>3 DEF Same
<1>. QED BY <1>2, <1>4, <1>5, <1>6, <1>7 DEF Inv

LEMMA InvStep ==
  ASSUME Inv, [Next]_vars
  PROVE  Inv' /\ AtomicStep
<1>1. CASE UNCHANGED vars
  BY <1>1, IdleStep, SameStep
<1>2. CASE Apply
  <2>1. CASE Note \/ Seal \/ SaveNext \/ MarkCommitted
    BY <2>1, NoteSteps, SealSteps, SaveNextSteps, MarkCommittedSteps, SameStep
  <2>2. ASSUME NEW k \in Kinds, RecordSlot(k) \/ CreateSlot(k) PROVE Inv' /\ AtomicStep
    BY <2>2, RecordSlotSteps, CreateSlotSteps, SameStep
  <2>3. ASSUME NEW s \in Stores, Write(s) PROVE Inv' /\ AtomicStep
    BY <2>3, WriteSteps, SameStep
  <2>. QED BY <1>2, <2>1, <2>2, <2>3 DEF Apply
<1>3. CASE Recovery
  <2>1. CASE RestoreRecord \/ FinalizeCleanup \/ CommitCredentials \/ Clear
    BY <2>1, RestoreRecordSteps, CleanupSteps, ClearSteps, SameStep
  <2>2. ASSUME NEW s \in Stores, Restore(s) PROVE Inv' /\ AtomicStep
    BY <2>2, RestoreSteps, SameStep
  <2>3. ASSUME NEW k \in Kinds, RemoveCreated(k) \/ RemoveStale(k) PROVE Inv' /\ AtomicStep
    BY <2>3, RemoveCreatedSteps, CleanupSteps, SameStep
  <2>. QED BY <1>3, <2>1, <2>2, <2>3 DEF Recovery
<1>4. CASE \/ Start \/ RecoverPending \/ Cancel \/ ApplyUnchanged \/ Begin \/ Publish \/ Crash
  BY <1>4, StartSteps, RecoverPendingSteps, CancelSteps, ApplyUnchangedSteps, BeginSteps,
     PublishSteps, CrashSteps, SameStep
<1>5. ASSUME NEW change \in Plans, Plan(change) PROVE Inv' /\ AtomicStep
  BY <1>5, PlanSteps
<1>6. ASSUME NEW s \in Stores, EditValue(s) PROVE Inv' /\ AtomicStep
  BY <1>6, EditValueSteps
<1>7. ASSUME NEW k \in Kinds, EditCredential(k) PROVE Inv' /\ AtomicStep
  BY <1>7, EditCredentialSteps
<1>. QED BY <1>1, <1>2, <1>3, <1>4, <1>5, <1>6, <1>7 DEF Next

(* However the writes of an apply and of its recovery fail and wherever the *)
(* program ends, in any order and number, the journal on disk and the steps *)
(* left agree about what has been done to the stores (recovery.rs).         *)
THEOREM JournalInvariant == Spec => []Inv
<1>1. Init => Inv
  BY InvInit
<1>2. Inv /\ [Next]_vars => Inv'
  BY InvStep
<1>. QED BY <1>1, <1>2, PTL DEF Spec

(* Every variable keeps its type; an apply and a recovery always have their *)
(* journal on disk, and no plan is made while one is pending                *)
(* (RecoveryJournal::recover_pending).                                      *)
THEOREM TypeCorrect == Spec => []TypeOK
<1>1. ASSUME Inv PROVE TypeOK
  <2>1. journal # None =>
          /\ journal.refs \in [Kinds -> Slots \cup {None}] /\ journal.created \subseteq Slots
          /\ journal.stale \cup journal.dropped \cup journal.queue \subseteq Slots
    <3>. SUFFICES ASSUME journal # None
                  PROVE  /\ journal.refs \in [Kinds -> Slots \cup {None}]
                         /\ journal.created \subseteq Slots
                         /\ journal.stale \cup journal.dropped \cup journal.queue \subseteq Slots
      OBVIOUS
    <3>1. journal \in Journals
      BY <1>1 DEF Inv, TypeInv
    <3>. QED BY <3>1, JournalFields
  <2>2. /\ phase \in {"applying", "recovering"} <=> todo # << >>
        /\ phase \in {"applying", "recovering"} => journal # None
        /\ phase = "planned" => journal = None
        /\ local # None <=> phase = "applied" \/ reason = "applied"
        /\ plan # None <=> phase \in {"planned", "applying"}
    BY <1>1 DEF Inv, PhaseInv, Uncommitted
  <2>. QED BY <1>1, <2>1, <2>2 DEF TypeOK, Inv, TypeInv
<1>. QED BY <1>1, JournalInvariant, PTL

(* A baseline that was uploaded is never taken back by a recovery: the mark *)
(* of the commit is on disk before anything is published (commit, publish). *)
THEOREM PublishedStays == Spec => []NothingPublishedIsUndone
<1>1. ASSUME Inv PROVE NothingPublishedIsUndone
  BY <1>1 DEF Inv, CaptureInv, NothingPublishedIsUndone
<1>. QED BY <1>1, JournalInvariant, PTL

(* The apply with its journal and its recovery implements the atomic apply: *)
(* for what a recovery would leave of the stores, the references and the    *)
(* baseline, every step is one of AtomicApply or none.                      *)
THEOREM JournalImplementsAtomic == Spec => AtomicSpec
<1>1. Init => Atomic!Init
  BY InvInit
<1>2. Inv /\ [Next]_vars => [Atomic!Next]_(Atomic!vars)
  BY InvStep DEF AtomicStep, AtomicVars, Atomic!vars
<1>. QED BY <1>1, <1>2, JournalInvariant, PTL DEF Spec, AtomicSpec, Atomic!Spec
-----------------------------------------------------------------------------
(* The slots.  What a step does to them is stated for the files, and for    *)
(* the steps left.                                                          *)

LEMMA LiveElement ==
  ASSUME NEW r
  PROVE  /\ \A k \in Kinds : r[k] # None => r[k] \in Live(r)
         /\ \A x \in Live(r) : x # None /\ \E k \in Kinds : r[k] = x
  BY DEF Live

LEMMA NamedKept ==
  ASSUME NamedInv, clock \in Nat, clock' \in {clock, clock + 1}, slots \in SUBSET Slots,
         queue \in SUBSET Slots, TypeInv,
         AsOf(slots', clock'), AsOf(queue', clock'),
         refs' = refs \/ refs' = SavedRefs,
         made' = made \/ made' = NothingMade,
         journal' = None \/ journal' = journal
  PROVE  NamedInv'
<1>1. \A n \in Nat : n <= clock => n <= clock'
  OBVIOUS
<1>2. ASSUME NEW S \in SUBSET Slots, AsOf(S, clock) PROVE AsOf(S, clock')
  BY <1>1, <1>2 DEF AsOf, Slots
<1>3. AsOf(Live(refs'), clock') /\ OwnKind(refs')
  <2>1. CASE refs' = refs
    <3>1. Live(refs) \in SUBSET Slots
      BY DEF TypeInv, Live
    <3>. QED BY <1>2, <2>1, <3>1 DEF NamedInv
  <2>2. CASE refs' = SavedRefs
    <3>1. ASSUME NEW k \in Kinds, SavedRefs[k] # None
          PROVE  SavedRefs[k] \in Slots /\ SavedRefs[k][1] = k /\ SavedRefs[k][2] <= clock
      <4>1. CASE k \in DOMAIN made
        BY <3>1, <4>1 DEF SavedRefs, NamedInv, TypeInv
      <4>2. CASE k \notin DOMAIN made
        <5>1. SavedRefs[k] = refs[k] /\ refs[k] \in Live(refs) /\ refs[k] \in Slots
          BY <3>1, <4>2 DEF SavedRefs, Live, TypeInv
        <5>. QED BY <3>1, <5>1 DEF NamedInv, AsOf, OwnKind
      <4>. QED BY <4>1, <4>2
    <3>2. AsOf(Live(SavedRefs), clock) /\ OwnKind(SavedRefs) /\ Live(SavedRefs) \in SUBSET Slots
      BY <3>1, LiveElement DEF AsOf, OwnKind
    <3>. QED BY <1>2, <2>2, <3>2
  <2>. QED BY <2>1, <2>2
<1>4. \A k \in DOMAIN made' : made'[k] # None => made'[k][1] = k /\ made'[k][2] <= clock'
  <2>1. CASE made' = made
    <3>1. \A k \in DOMAIN made : made[k] # None => made[k][2] \in Nat
      BY DEF TypeInv, Slots
    <3>. QED BY <1>1, <2>1, <3>1 DEF NamedInv
  <2>2. CASE made' = NothingMade
    BY <2>2 DEF NothingMade
  <2>. QED BY <2>1, <2>2
<1>5. ASSUME journal' # None
      PROVE  /\ AsOf(Live(journal'.refs), clock') /\ AsOf(journal'.queue, clock')
             /\ AsOf(journal'.created, clock') /\ AsOf(journal'.stale, clock')
             /\ AsOf(journal'.dropped, clock') /\ OwnKind(journal'.refs)
  <2>1. journal' = journal /\ journal # None /\ journal \in Journals
    BY <1>5 DEF TypeInv
  <2>2. /\ journal.queue \in SUBSET Slots /\ journal.created \in SUBSET Slots
        /\ journal.stale \in SUBSET Slots /\ journal.dropped \in SUBSET Slots
        /\ Live(journal.refs) \in SUBSET Slots
    BY <2>1, JournalFields DEF Live
  <2>. QED BY <1>2, <2>1, <2>2 DEF NamedInv
<1>. QED BY <1>3, <1>4, <1>5 DEF NamedInv

(* Where a recovery begins, no slot has been removed yet.                   *)
LEMMA RecoveryBeginsSecret ==
  ASSUME journal' \in Journals, todo' = RecoverySteps(journal'.committed), phase' = "recovering"
  PROVE  MadeInv' /\ RemovedInv' /\ CleanedInv'
<1>1. journal'.committed = TRUE \/ journal'.committed = FALSE
  BY JournalFields
<1>2. ~journal'.committed => \A k \in Kinds : Has(todo', <<"remove", k>>)
  BY <1>1, RollbackStepsOrder
<1>3. journal'.committed => /\ \A k \in Kinds : Has(todo', <<"stale", k>>)
                            /\ Has(todo', <<"stale", "connections">>)
  BY <1>1, FinishStepsOrder
<1>. QED BY <1>2, <1>3 DEF MadeInv, RemovedInv, CleanedInv, Left

LEMMA RestingSecret ==
  ASSUME phase' \notin {"applying", "recovering"}
  PROVE  MadeInv' /\ RemovedInv' /\ CleanedInv'
  BY DEF MadeInv, RemovedInv, CleanedInv

(* A step of an apply, and one of a recovery: what is to be shown of it.    *)
LEMMA ApplySecret ==
  ASSUME Inv', phase = "applying", Forward \/ Fail, SlotInv', Forward => MadeInv'
  PROVE  SecretInv'
<1>1. CASE Forward
  <2>1. phase' = "applying"
    BY <1>1 DEF Forward
  <2>. QED BY <1>1, <2>1 DEF SecretInv, RemovedInv, CleanedInv
<1>2. CASE Fail
  <2>1. phase' = "recovering" /\ todo' = RecoverySteps(journal'.committed)
    BY <1>2 DEF Fail
  <2>2. journal' \in Journals
    BY <2>1 DEF Inv, TypeInv, PhaseInv
  <2>. QED BY <2>1, <2>2, RecoveryBeginsSecret DEF SecretInv
<1>. QED BY <1>1, <1>2

LEMMA RecoverySecret ==
  ASSUME phase = "recovering", Forward \/ Fail, SlotInv', Forward => RemovedInv' /\ CleanedInv'
  PROVE  SecretInv'
<1>1. CASE Forward
  <2>1. phase' = "recovering"
    BY <1>1 DEF Forward
  <2>. QED BY <1>1, <2>1 DEF SecretInv, MadeInv
<1>2. CASE Fail
  <2>1. phase' \in {"down", "applied", "idle"}
    BY <1>2 DEF Fail
  <2>. QED BY <2>1, RestingSecret DEF SecretInv
<1>. QED BY <1>1, <1>2
-----------------------------------------------------------------------------
LEMMA MadeForward ==
  ASSUME Inv, SlotInv, MadeInv, todo # << >>, phase = "applying", Forward,
         Head(todo) # <<"seal", "journal">>, \A k \in Kinds : Head(todo) # <<"record", k>>,
         UNCHANGED <<queue, slots, made, clock>>, refs' = refs \/ refs' = SavedRefs,
         journal'.refs = journal.refs, journal'.queue = journal.queue,
         journal'.created = journal.created,
         journal'.stale = journal.stale, journal'.dropped = journal.dropped
  PROVE  MadeInv'
<1>1. /\ \A a : Left(a)' => Left(a)
      /\ \A a : Left(a) /\ a # Head(todo) => Left(a)'
  BY LeftAfter DEF Inv, Forward, Left
<1>2. plan' = plan /\ \A way : Obsolete(way)' = Obsolete(way)
  BY DEF Forward, Obsolete
<1>3. ASSUME NEW k \in Kinds
      PROVE  refs'[k] = journal.refs[k] \/ (k \in DOMAIN made /\ refs'[k] = made[k])
  <2>1. refs[k] = journal.refs[k] \/ (k \in DOMAIN made /\ refs[k] = made[k])
    BY DEF MadeInv
  <2>. QED BY <2>1 DEF SavedRefs
<1>4. /\ queue' = journal'.queue
      /\ AsOf(Live(journal'.refs), clock' - 1) /\ AsOf(journal'.queue, clock' - 1)
      /\ journal'.created \subseteq Kinds \X {clock'}
  BY DEF MadeInv
<1>5. ASSUME NEW k \in Kinds
      PROVE  /\ plan'[k] = "drop" => k \in DOMAIN made'
             /\ Left(<<"create", k>>)' => plan'[k] = "replace"
             /\ Left(<<"create", k>>)' /\ ~Left(<<"record", k>>)'
                  => <<k, clock'>> \in journal'.created
             /\ <<k, clock'>> \in slots' => k \in DOMAIN made' /\ made'[k] = <<k, clock'>>
             /\ refs'[k] = journal'.refs[k] \/ (k \in DOMAIN made' /\ refs'[k] = made'[k])
  <2>1. Left(<<"create", k>>)' => Left(<<"create", k>>)
    BY <1>1
  <2>2. ~Left(<<"record", k>>)' => ~Left(<<"record", k>>)
    BY <1>1
  <2>. QED BY <1>2, <1>3, <2>1, <2>2 DEF MadeInv
<1>6. \A k \in DOMAIN made' :
         \/ plan'[k] = "drop" /\ made'[k] = None
         \/ /\ plan'[k] = "replace" /\ made'[k] = <<k, clock'>>
            /\ <<k, clock'>> \in slots' \cap journal'.created
  BY <1>2 DEF MadeInv
<1>7. ~Left(<<"seal", "journal">>)' =>
         journal'.stale = Obsolete("replace")' /\ journal'.dropped = Obsolete("drop")'
  BY <1>1, <1>2 DEF MadeInv
<1>. QED BY <1>4, <1>5, <1>6, <1>7 DEF MadeInv

LEMMA JournalStepsSecret ==
  ASSUME Inv, SecretInv, Note \/ SaveNext \/ \E s \in Stores : Write(s)
  PROVE  SecretInv'
<1>1. Inv'
  BY NoteSteps, SaveNextSteps, WriteSteps
<1>2. todo # << >> /\ Head(todo) \in ApplyStepSet
      /\ Head(todo) # <<"seal", "journal">> /\ \A k \in Kinds : Head(todo) # <<"record", k>>
  <2>1. CASE Note
    <3>1. todo # << >> /\ Head(todo) = <<"note", "auxiliary">>
      BY <2>1 DEF Note, Try
    <3>2. <<"note", "auxiliary">> \in ApplyStepSet
      BY DEF ApplyStepSet
    <3>. QED BY <3>1, <3>2
  <2>2. CASE SaveNext
    <3>1. todo # << >> /\ Head(todo) = <<"save", "record">>
      BY <2>2 DEF SaveNext, Try
    <3>2. <<"save", "record">> \in ApplyStepSet
      BY DEF ApplyStepSet
    <3>. QED BY <3>1, <3>2
  <2>3. ASSUME NEW s \in Stores, Write(s)
        PROVE  todo # << >> /\ Head(todo) \in ApplyStepSet /\ Head(todo) # <<"seal", "journal">>
               /\ \A k \in Kinds : Head(todo) # <<"record", k>>
    <3>1. todo # << >> /\ Head(todo) = <<"write", s>>
      BY <2>3 DEF Write, Try
    <3>2. <<"write", s>> \in ApplyStepSet
      BY DEF ApplyStepSet
    <3>. QED BY <3>1, <3>2
  <2>. QED BY <2>1, <2>2, <2>3
<1>3. phase = "applying" /\ Uncommitted /\ journal \in Journals /\ journal # None
  BY <1>2, ApplyStep DEF Uncommitted
<1>4. /\ Forward \/ Fail
      /\ UNCHANGED <<queue, slots, made, clock>> /\ (refs' = refs \/ refs' = SavedRefs)
      /\ journal' = journal \/ journal' = [journal EXCEPT !.noted = TRUE]
  <2>1. CASE Note
    BY <2>1 DEF Note, Try, Forward, files
  <2>2. CASE SaveNext
    BY <2>2 DEF SaveNext, Try, Forward, files
  <2>3. ASSUME NEW s \in Stores, Write(s)
        PROVE  /\ Forward \/ Fail
               /\ UNCHANGED <<queue, slots, made, clock>> /\ (refs' = refs \/ refs' = SavedRefs)
               /\ journal' = journal
    BY <2>3 DEF Write, Try, Forward, files
  <2>. QED BY <2>1, <2>2, <2>3
<1>5. journal' # None
  BY <1>1, <1>3, <1>4 DEF Forward, Fail, Inv, PhaseInv, Uncommitted
<1>6. /\ journal'.committed = journal.committed /\ journal'.refs = journal.refs
      /\ journal'.queue = journal.queue /\ journal'.created = journal.created
      /\ journal'.stale = journal.stale /\ journal'.dropped = journal.dropped
  BY <1>3, <1>4 DEF Journals
<1>7. SlotInv'
  <2>1. Uncommitted'
    BY <1>3, <1>5, <1>6 DEF Uncommitted
  <2>2. PendingInv' /\ SettledInv'
    BY <1>3, <1>4, <1>6, <2>1 DEF SecretInv, SlotInv, PendingInv, SettledInv
  <2>3. NamedInv'
    <3>1. AsOf(Live(refs'), clock) /\ OwnKind(refs')
      <4>1. ASSUME NEW k \in Kinds, refs'[k] # None
            PROVE  refs'[k][1] = k /\ refs'[k][2] <= clock
        <5>1. CASE k \in DOMAIN made /\ refs' = SavedRefs
          BY <4>1, <5>1 DEF SavedRefs, SecretInv, SlotInv, NamedInv
        <5>2. CASE k \notin DOMAIN made \/ refs' = refs
          <6>1. refs'[k] = refs[k] /\ refs[k] \in Live(refs)
            BY <1>4, <4>1, <5>2, LiveElement DEF SavedRefs
          <6>. QED BY <4>1, <6>1 DEF SecretInv, SlotInv, NamedInv, AsOf, OwnKind
        <5>. QED BY <1>4, <5>1, <5>2
      <4>. QED BY <4>1, LiveElement DEF AsOf, OwnKind
    <3>. QED BY <1>3, <1>4, <1>6, <3>1 DEF SecretInv, SlotInv, NamedInv
  <2>. QED BY <2>2, <2>3 DEF SlotInv
<1>8. Forward => MadeInv'
  BY <1>2, <1>3, <1>4, <1>6, MadeForward DEF SecretInv
<1>. QED BY <1>1, <1>3, <1>4, <1>7, <1>8, ApplySecret
LEMMA RecordSlotSecret ==
  ASSUME Inv, SecretInv, NEW k \in Kinds, RecordSlot(k)
  PROVE  SecretInv'
<1>. DEFINE slot == <<k, clock>>
            named == [journal EXCEPT !.created = @ \cup {slot}]
<1>0. Inv'
  BY RecordSlotSteps
<1>1. todo # << >> /\ Head(todo) = <<"record", k>> /\ Head(todo) \in ApplyStepSet
  <2>1. todo # << >> /\ Head(todo) = <<"record", k>>
    BY DEF RecordSlot, Try
  <2>2. <<"record", k>> \in ApplyStepSet
    BY DEF ApplyStepSet
  <2>. QED BY <2>1, <2>2
<1>2. phase = "applying" /\ Uncommitted /\ journal \in Journals /\ journal # None
      /\ clock \in Nat /\ ~journal.committed
  BY <1>1, ApplyStep DEF Uncommitted, Inv, TypeInv
<1>3. /\ (Forward /\ journal' = named) \/ Fail
      /\ journal' = named \/ journal' = journal
      /\ UNCHANGED <<store, refs, queue, slots, record, made, clock>>
  BY DEF RecordSlot, Try, Forward, files
<1>4. /\ named.committed = journal.committed /\ named.refs = journal.refs
      /\ named.queue = journal.queue /\ named.created = journal.created \cup {slot}
      /\ named.stale = journal.stale /\ named.dropped = journal.dropped
  BY <1>2 DEF Journals
<1>. HIDE DEF named
<1>5. journal' # None
  BY <1>0, <1>2, <1>3 DEF Forward, Fail, Inv, PhaseInv, Uncommitted
<1>6. /\ journal'.committed = journal.committed /\ journal'.refs = journal.refs
      /\ journal'.queue = journal.queue
      /\ journal'.stale = journal.stale /\ journal'.dropped = journal.dropped
      /\ journal'.created \in {journal.created, journal.created \cup {slot}}
  BY <1>3, <1>4
<1>7. slot \notin Live(journal.refs)
  <2>1. AsOf(Live(journal.refs), clock - 1)
    BY <1>2 DEF SecretInv, MadeInv
  <2>2. slot[2] = clock
    OBVIOUS
  <2>3. ~(clock <= clock - 1)
    BY <1>2
  <2>. QED BY <2>1, <2>2, <2>3 DEF AsOf
<1>8. SlotInv'
  <2>1. Uncommitted'
    BY <1>2, <1>5, <1>6 DEF Uncommitted
  <2>2. PendingInv' /\ SettledInv'
    BY <1>2, <1>3, <1>6, <1>7, <2>1 DEF SecretInv, SlotInv, PendingInv, SettledInv
  <2>3. AsOf(journal'.created, clock)
    <3>1. slot[2] <= clock
      BY <1>2
    <3>. QED BY <1>2, <1>6, <3>1 DEF SecretInv, SlotInv, NamedInv, AsOf
  <2>4. NamedInv'
    BY <1>2, <1>3, <1>6, <2>3 DEF SecretInv, SlotInv, NamedInv
  <2>. QED BY <2>2, <2>4 DEF SlotInv
<1>9. ASSUME Forward PROVE MadeInv'
  <2>1. journal'.created = journal.created \cup {slot}
    BY <1>2, <1>3, <1>4, <1>9 DEF Forward, Fail
  <2>2. /\ \A a : Left(a)' => Left(a)
        /\ \A a : Left(a) /\ a # <<"record", k>> => Left(a)'
    BY <1>1, <1>9, LeftAfter DEF Inv, Forward, Left
  <2>3. plan' = plan /\ \A way : Obsolete(way)' = Obsolete(way)
    BY <1>6, <1>9 DEF Forward, Obsolete
  <2>4. /\ queue' = journal'.queue
        /\ AsOf(Live(journal'.refs), clock' - 1) /\ AsOf(journal'.queue, clock' - 1)
        /\ journal'.created \subseteq Kinds \X {clock'}
    BY <1>2, <1>3, <1>6, <2>1 DEF SecretInv, MadeInv
  <2>5. ASSUME NEW m \in Kinds
        PROVE  /\ plan'[m] = "drop" => m \in DOMAIN made'
               /\ Left(<<"create", m>>)' => plan'[m] = "replace"
               /\ Left(<<"create", m>>)' /\ ~Left(<<"record", m>>)'
                    => <<m, clock'>> \in journal'.created
               /\ <<m, clock'>> \in slots' => m \in DOMAIN made' /\ made'[m] = <<m, clock'>>
               /\ refs'[m] = journal'.refs[m] \/ (m \in DOMAIN made' /\ refs'[m] = made'[m])
    <3>1. Left(<<"create", m>>)' => Left(<<"create", m>>)
      BY <2>2
    <3>2. ~Left(<<"record", m>>)' => ~Left(<<"record", m>>) \/ m = k
      BY <2>2
    <3>. QED BY <1>2, <1>3, <1>6, <2>1, <2>3, <3>1, <3>2 DEF SecretInv, MadeInv
  <2>6. \A m \in DOMAIN made' :
           \/ plan'[m] = "drop" /\ made'[m] = None
           \/ /\ plan'[m] = "replace" /\ made'[m] = <<m, clock'>>
              /\ <<m, clock'>> \in slots' \cap journal'.created
    BY <1>2, <1>3, <2>1, <2>3 DEF SecretInv, MadeInv
  <2>7. ~Left(<<"seal", "journal">>)' =>
           journal'.stale = Obsolete("replace")' /\ journal'.dropped = Obsolete("drop")'
    BY <1>2, <1>6, <2>2, <2>3 DEF SecretInv, MadeInv
  <2>. QED BY <2>4, <2>5, <2>6, <2>7 DEF MadeInv
<1>. QED BY <1>0, <1>2, <1>3, <1>8, <1>9, ApplySecret

(* The name of a slot is in the journal before the slot is made.            *)
LEMMA CreateSlotSecret ==
  ASSUME Inv, SecretInv, NEW k \in Kinds, CreateSlot(k)
  PROVE  SecretInv'
<1>. DEFINE slot == <<k, clock>>
<1>0. Inv'
  BY CreateSlotSteps
<1>1. todo # << >> /\ Head(todo) = <<"create", k>> /\ Head(todo) \in ApplyStepSet
  <2>1. todo # << >> /\ Head(todo) = <<"create", k>>
    BY DEF CreateSlot, Try
  <2>2. <<"create", k>> \in ApplyStepSet
    BY DEF ApplyStepSet
  <2>. QED BY <2>1, <2>2
<1>2. phase = "applying" /\ Uncommitted /\ journal \in Journals /\ journal # None
      /\ clock \in Nat /\ ~journal.committed /\ ApplyOrder(todo)
  BY <1>1, ApplyStep DEF Uncommitted, Inv, TypeInv
<1>3. /\ (Forward /\ slots' = slots \cup {slot} /\ made' = Made(k, slot)) \/ (Fail /\ made' = made)
      /\ slots' \in {slots, slots \cup {slot}}
      /\ UNCHANGED <<refs, queue, journal, clock>>
  BY DEF CreateSlot, Try, Forward, files
<1>4. Left(<<"create", k>>) /\ ~Left(<<"record", k>>)
  <2>1. Left(<<"create", k>>)
    BY <1>1, LeftAfter DEF Inv
  <2>2. todo \in Seq(ApplyStepSet) /\ Before(todo, <<"record", k>>, <<"create", k>>)
    BY <1>2 DEF ApplyOrder
  <2>3. ~Has(todo, <<"record", k>>)
    BY <1>1, <2>2, HeadBefore
  <2>. QED BY <2>1, <2>3 DEF Left
<1>5. slot \in journal.created /\ plan[k] = "replace"
  BY <1>2, <1>4 DEF SecretInv, MadeInv
<1>6. /\ DOMAIN Made(k, slot) = DOMAIN made \cup {k} /\ Made(k, slot)[k] = slot
      /\ \A m \in DOMAIN made : m # k => Made(k, slot)[m] = made[m]
  BY DEF Made
<1>7. SlotInv'
  <2>1. Uncommitted'
    BY <1>2, <1>3 DEF Uncommitted
  <2>2. PendingInv' /\ SettledInv'
    BY <1>2, <1>3, <1>5, <2>1 DEF SecretInv, SlotInv, PendingInv, SettledInv
  <2>3. slot[1] = k /\ slot[2] = clock /\ clock <= clock
    BY <1>2
  <2>4. AsOf(slots', clock)
    BY <1>3, <2>3 DEF SecretInv, SlotInv, NamedInv, AsOf
  <2>5. \A m \in DOMAIN made' : made'[m] # None => made'[m][1] = m /\ made'[m][2] <= clock
    <3>1. CASE made' = made
      BY <3>1 DEF SecretInv, SlotInv, NamedInv
    <3>2. CASE made' = Made(k, slot)
      <4>1. ASSUME NEW m \in DOMAIN made', made'[m] # None
            PROVE  made'[m][1] = m /\ made'[m][2] <= clock
        <5>1. CASE m = k
          BY <1>6, <2>3, <3>2, <5>1
        <5>2. CASE m # k
          <6>1. m \in DOMAIN made /\ made'[m] = made[m]
            BY <1>6, <3>2, <4>1, <5>2
          <6>. QED BY <4>1, <6>1 DEF SecretInv, SlotInv, NamedInv
        <5>. QED BY <5>1, <5>2
      <4>. QED BY <4>1
    <3>. QED BY <1>3, <3>1, <3>2
  <2>6. NamedInv'
    BY <1>2, <1>3, <2>4, <2>5 DEF SecretInv, SlotInv, NamedInv
  <2>. QED BY <2>2, <2>6 DEF SlotInv
<1>8. ASSUME Forward PROVE MadeInv'
  <2>1. slots' = slots \cup {slot} /\ made' = Made(k, slot)
    BY <1>2, <1>3, <1>8 DEF Forward, Fail
  <2>2. /\ \A a : Left(a)' => Left(a)
        /\ \A a : Left(a) /\ a # <<"create", k>> => Left(a)'
    BY <1>1, <1>8, LeftAfter DEF Inv, Forward, Left
  <2>3. plan' = plan /\ \A way : Obsolete(way)' = Obsolete(way)
    BY <1>3, <1>8 DEF Forward, Obsolete
  <2>4. /\ queue' = journal'.queue
        /\ AsOf(Live(journal'.refs), clock' - 1) /\ AsOf(journal'.queue, clock' - 1)
        /\ journal'.created \subseteq Kinds \X {clock'}
    BY <1>2, <1>3 DEF SecretInv, MadeInv
  <2>5. k \in DOMAIN made => made[k] = slot
    BY <1>2, <1>5 DEF SecretInv, MadeInv
  <2>6. /\ DOMAIN made' = DOMAIN made \cup {k} /\ made'[k] = slot
        /\ \A m \in DOMAIN made : made'[m] = made[m]
    BY <1>6, <2>1, <2>5
  <2>7. ASSUME NEW m \in Kinds
        PROVE  /\ plan'[m] = "drop" => m \in DOMAIN made'
               /\ Left(<<"create", m>>)' => plan'[m] = "replace"
               /\ Left(<<"create", m>>)' /\ ~Left(<<"record", m>>)'
                    => <<m, clock'>> \in journal'.created
               /\ <<m, clock'>> \in slots' => m \in DOMAIN made' /\ made'[m] = <<m, clock'>>
               /\ refs'[m] = journal'.refs[m] \/ (m \in DOMAIN made' /\ refs'[m] = made'[m])
    <3>1. Left(<<"create", m>>)' => Left(<<"create", m>>)
      BY <2>2
    <3>2. ~Left(<<"record", m>>)' => ~Left(<<"record", m>>)
      BY <2>2
    <3>3. <<m, clock>> \in slots' => <<m, clock>> \in slots \/ m = k
      BY <2>1
    <3>. QED BY <1>2, <1>3, <2>3, <2>6, <3>1, <3>2, <3>3 DEF SecretInv, MadeInv
  <2>8. ASSUME NEW m \in DOMAIN made'
        PROVE  \/ plan'[m] = "drop" /\ made'[m] = None
               \/ /\ plan'[m] = "replace" /\ made'[m] = <<m, clock'>>
                  /\ <<m, clock'>> \in slots' \cap journal'.created
    <3>1. CASE m = k
      BY <1>3, <1>5, <2>1, <2>3, <2>6, <3>1
    <3>2. CASE m # k
      <4>1. m \in DOMAIN made /\ made'[m] = made[m]
        BY <2>6, <3>2
      <4>. QED BY <1>2, <1>3, <2>1, <2>3, <4>1 DEF SecretInv, MadeInv
    <3>. QED BY <3>1, <3>2
  <2>9. ~Left(<<"seal", "journal">>)' =>
           journal'.stale = Obsolete("replace")' /\ journal'.dropped = Obsolete("drop")'
    BY <1>2, <1>3, <2>2, <2>3 DEF SecretInv, MadeInv
  <2>. QED BY <2>4, <2>7, <2>8, <2>9 DEF MadeInv
<1>. QED BY <1>0, <1>2, <1>3, <1>7, <1>8, ApplySecret
LEMMA ObsoleteSlots ==
  ASSUME NEW way
  PROVE  Obsolete(way) \subseteq Live(journal.refs)
  BY DEF Obsolete, Live

LEMMA SealSecret ==
  ASSUME Inv, SecretInv, Seal
  PROVE  SecretInv'
<1>. DEFINE stale == Obsolete("replace")
            dropped == Obsolete("drop")
            sealed == [journal EXCEPT !.stale = stale, !.dropped = dropped]
<1>0. Inv'
  BY SealSteps
<1>1. todo # << >> /\ Head(todo) = <<"seal", "journal">> /\ Head(todo) \in ApplyStepSet
  <2>1. todo # << >> /\ Head(todo) = <<"seal", "journal">>
    BY DEF Seal, Try
  <2>2. <<"seal", "journal">> \in ApplyStepSet
    BY DEF ApplyStepSet
  <2>. QED BY <2>1, <2>2
<1>2. phase = "applying" /\ Uncommitted /\ journal \in Journals /\ journal # None
      /\ clock \in Nat /\ ~journal.committed
  BY <1>1, ApplyStep DEF Uncommitted, Inv, TypeInv
<1>3. /\ (Forward /\ journal' = sealed) \/ Fail
      /\ journal' = sealed \/ journal' = journal
      /\ UNCHANGED <<refs, queue, slots, made, clock>>
  BY DEF Seal, Try, Forward, files
<1>4. /\ stale \subseteq Live(journal.refs) /\ dropped \subseteq Live(journal.refs)
  BY ObsoleteSlots
<1>. HIDE DEF stale, dropped
<1>5. /\ sealed.committed = journal.committed /\ sealed.refs = journal.refs
      /\ sealed.queue = journal.queue /\ sealed.created = journal.created
      /\ sealed.stale = stale /\ sealed.dropped = dropped
  BY <1>2 DEF Journals
<1>. HIDE DEF sealed
<1>6. journal' # None
  BY <1>0, <1>2, <1>3 DEF Forward, Fail, Inv, PhaseInv, Uncommitted
<1>7. /\ journal'.committed = journal.committed /\ journal'.refs = journal.refs
      /\ journal'.queue = journal.queue /\ journal'.created = journal.created
      /\ journal'.stale \in {journal.stale, stale}
      /\ journal'.dropped \in {journal.dropped, dropped}
  BY <1>3, <1>5
<1>8. SlotInv'
  <2>1. Uncommitted'
    BY <1>2, <1>6, <1>7 DEF Uncommitted
  <2>2. PendingInv' /\ SettledInv'
    BY <1>2, <1>3, <1>7, <2>1 DEF SecretInv, SlotInv, PendingInv, SettledInv
  <2>3. AsOf(stale, clock) /\ AsOf(dropped, clock)
    BY <1>2, <1>4 DEF SecretInv, SlotInv, NamedInv, AsOf
  <2>4. NamedInv'
    BY <1>2, <1>3, <1>7, <2>3 DEF SecretInv, SlotInv, NamedInv
  <2>. QED BY <2>2, <2>4 DEF SlotInv
<1>9. ASSUME Forward PROVE MadeInv'
  <2>1. journal' = sealed
    BY <1>2, <1>3, <1>9 DEF Forward, Fail
  <2>2. /\ \A a : Left(a)' => Left(a)
        /\ \A a : Left(a) /\ a # <<"seal", "journal">> => Left(a)'
    BY <1>1, <1>9, LeftAfter DEF Inv, Forward, Left
  <2>3. plan' = plan /\ \A way : Obsolete(way)' = Obsolete(way)
    BY <1>7, <1>9 DEF Forward, Obsolete
  <2>4. /\ queue' = journal'.queue
        /\ AsOf(Live(journal'.refs), clock' - 1) /\ AsOf(journal'.queue, clock' - 1)
        /\ journal'.created \subseteq Kinds \X {clock'}
    BY <1>2, <1>3, <1>7 DEF SecretInv, MadeInv
  <2>5. ASSUME NEW m \in Kinds
        PROVE  /\ plan'[m] = "drop" => m \in DOMAIN made'
               /\ Left(<<"create", m>>)' => plan'[m] = "replace"
               /\ Left(<<"create", m>>)' /\ ~Left(<<"record", m>>)'
                    => <<m, clock'>> \in journal'.created
               /\ <<m, clock'>> \in slots' => m \in DOMAIN made' /\ made'[m] = <<m, clock'>>
               /\ refs'[m] = journal'.refs[m] \/ (m \in DOMAIN made' /\ refs'[m] = made'[m])
    <3>1. Left(<<"create", m>>)' => Left(<<"create", m>>)
      BY <2>2
    <3>2. ~Left(<<"record", m>>)' => ~Left(<<"record", m>>)
      BY <2>2
    <3>. QED BY <1>2, <1>3, <1>7, <2>3, <3>1, <3>2 DEF SecretInv, MadeInv
  <2>6. \A m \in DOMAIN made' :
           \/ plan'[m] = "drop" /\ made'[m] = None
           \/ /\ plan'[m] = "replace" /\ made'[m] = <<m, clock'>>
              /\ <<m, clock'>> \in slots' \cap journal'.created
    BY <1>2, <1>3, <1>7, <2>3 DEF SecretInv, MadeInv
  <2>7. journal'.stale = Obsolete("replace")' /\ journal'.dropped = Obsolete("drop")'
    BY <1>5, <2>1, <2>3 DEF stale, dropped
  <2>. QED BY <2>4, <2>5, <2>6, <2>7 DEF MadeInv
<1>. QED BY <1>0, <1>2, <1>3, <1>8, <1>9, ApplySecret

(* The commit: what was to be taken back is now in use, and what was in use *)
(* is obsolete.                                                             *)
LEMMA CommitSettles ==
  ASSUME Inv, SecretInv, phase = "applying", clock \in Nat, \A a : a # CommitStep => ~Left(a)
  PROVE  /\ Live(refs) \subseteq slots
         /\ slots \subseteq Live(refs) \cup queue \cup journal.stale \cup journal.dropped
         /\ queue \cap Live(refs) = {} /\ journal.dropped \cap Live(refs) = {}
<1>1. Uncommitted /\ journal \in Journals /\ plan \in Changes
  BY DEF Inv, PhaseInv, TypeInv, Uncommitted
<1>2. /\ <<"seal", "journal">> # CommitStep /\ <<"write", "connections">> # CommitStep
  BY DEF CommitStep
<1>3. /\ SavedRefs = refs
      /\ journal.stale = Obsolete("replace") /\ journal.dropped = Obsolete("drop")
  BY <1>2 DEF Inv, WrittenInv, SecretInv, MadeInv
<1>4. \A k \in DOMAIN made : k \in Kinds /\ refs[k] = made[k]
  BY <1>3 DEF Inv, TypeInv, SavedRefs
<1>5. /\ \A k \in Kinds : k \notin DOMAIN made => refs[k] = journal.refs[k]
      /\ \A k \in DOMAIN made :
           \/ plan[k] = "drop" /\ made[k] = None
           \/ plan[k] = "replace" /\ made[k] = <<k, clock>> /\ made[k] \in slots
      /\ \A k \in Kinds : <<k, clock>> \in slots => k \in DOMAIN made /\ made[k] = <<k, clock>>
      /\ \A k \in Kinds : plan[k] = "drop" => k \in DOMAIN made
      /\ journal.created \subseteq Kinds \X {clock} /\ queue = journal.queue
  BY DEF SecretInv, MadeInv
<1>6. /\ Live(journal.refs) \subseteq slots
      /\ slots \subseteq Live(journal.refs) \cup journal.queue \cup journal.created
      /\ journal.queue \cap Live(journal.refs) = {}
  BY <1>1 DEF SecretInv, SlotInv, PendingInv
<1>7. ASSUME NEW x \in Live(refs)
      PROVE  x \in slots /\ x \notin queue /\ x \notin journal.dropped
  <2>1. PICK k \in Kinds : refs[k] = x /\ x # None
    BY LiveElement
  <2>2. CASE k \in DOMAIN made
    <3>1. x = <<k, clock>> /\ x \in slots
      BY <1>4, <1>5, <2>1, <2>2
    <3>2. AsOf(journal.queue, clock - 1) /\ AsOf(Live(journal.refs), clock - 1)
      BY DEF SecretInv, MadeInv
    <3>3. ~(x[2] <= clock - 1)
      BY <3>1
    <3>4. x \notin journal.queue /\ x \notin Live(journal.refs)
      BY <3>2, <3>3 DEF AsOf
    <3>. QED BY <1>3, <1>5, <3>1, <3>4, ObsoleteSlots
  <2>3. CASE k \notin DOMAIN made
    <3>1. x = journal.refs[k] /\ x \in Live(journal.refs)
      BY <1>5, <2>1, <2>3, LiveElement
    <3>2. x \notin journal.dropped
      <4>1. SUFFICES ASSUME x \in Obsolete("drop") PROVE FALSE
        BY <1>3
      <4>2. PICK m \in Kinds : plan[m] = "drop" /\ journal.refs[m] = x
        BY <4>1 DEF Obsolete
      <4>3. x[1] = k /\ x[1] = m
        BY <1>1, <2>1, <3>1, <4>2 DEF SecretInv, SlotInv, NamedInv, OwnKind, Uncommitted
      <4>. QED BY <1>5, <2>3, <4>2, <4>3
    <3>. QED BY <1>5, <1>6, <3>1, <3>2
  <2>. QED BY <2>2, <2>3
<1>8. ASSUME NEW x \in slots
      PROVE  x \in Live(refs) \cup queue \cup journal.stale \cup journal.dropped
  <2>1. CASE x \in Live(journal.refs)
    <3>1. PICK k \in Kinds : journal.refs[k] = x /\ x # None
      BY <2>1, LiveElement
    <3>2. plan[k] = "replace" => x \in Obsolete("replace")
      BY <3>1 DEF Obsolete
    <3>3. plan[k] = "drop" => x \in Obsolete("drop")
      BY <3>1 DEF Obsolete
    <3>4. plan[k] \notin {"replace", "drop"} => refs[k] = x
      BY <1>5, <3>1
    <3>. QED BY <1>3, <3>1, <3>2, <3>3, <3>4, LiveElement
  <2>2. CASE x \in journal.queue
    BY <1>5, <2>2
  <2>3. CASE x \in journal.created
    <3>1. PICK k \in Kinds : x = <<k, clock>>
      BY <1>5, <2>3
    <3>2. refs[k] = x
      BY <1>4, <1>5, <3>1
    <3>3. x # None
      <4>1. x \in Slots
        BY DEF Inv, TypeInv
      <4>. QED BY <4>1, ApplyJournalAssumption
    <3>. QED BY <3>2, <3>3, LiveElement
  <2>. QED BY <1>6, <2>1, <2>2, <2>3
<1>. QED BY <1>7, <1>8

LEMMA MarkCommittedSecret ==
  ASSUME Inv, SecretInv, MarkCommitted
  PROVE  SecretInv'
<1>. DEFINE marked == [journal EXCEPT !.committed = TRUE]
<1>0. Inv'
  BY MarkCommittedSteps
<1>1. todo # << >> /\ Head(todo) = CommitStep /\ CommitStep \in ApplyStepSet
  BY DEF MarkCommitted, CommitStep, ApplyStepSet
<1>2. phase = "applying" /\ Uncommitted /\ journal \in Journals /\ journal # None
      /\ clock \in Nat /\ ~journal.committed
  BY <1>1, ApplyStep DEF Uncommitted, Inv, TypeInv
<1>3. /\ \/ /\ journal' = marked /\ phase' = "recovering"
            /\ todo' = RecoverySteps(TRUE) /\ made' = NothingMade
         \/ /\ Fail
            /\ journal' = marked \/ journal' = journal
            /\ made' = made
      /\ UNCHANGED <<refs, queue, slots, clock>>
  BY DEF MarkCommitted, files
<1>4. /\ marked.committed = TRUE /\ marked.refs = journal.refs
      /\ marked.queue = journal.queue /\ marked.created = journal.created
      /\ marked.stale = journal.stale /\ marked.dropped = journal.dropped
  BY <1>2 DEF Journals
<1>. HIDE DEF marked
<1>5. phase' = "recovering" /\ todo' = RecoverySteps(journal'.committed)
  BY <1>2, <1>3, <1>4 DEF Fail
<1>6. journal' \in Journals /\ journal' # None
  BY <1>0, <1>5 DEF Inv, TypeInv, PhaseInv
<1>7. MadeInv' /\ RemovedInv' /\ CleanedInv'
  BY <1>5, <1>6, RecoveryBeginsSecret
<1>8. PendingInv' /\ SettledInv'
  <2>1. CASE journal' = journal
    <3>1. Uncommitted'
      BY <1>2, <2>1 DEF Uncommitted
    <3>. QED BY <1>2, <1>3, <2>1, <3>1 DEF SecretInv, SlotInv, PendingInv, SettledInv
  <2>2. CASE journal' = marked
    <3>1. ~Uncommitted'
      BY <1>4, <2>2 DEF Uncommitted
    <3>2. \A a : a # CommitStep => ~Left(a)
      BY <1>1, <1>2, LastStep DEF Inv
    <3>3. /\ Live(refs) \subseteq slots
          /\ slots \subseteq Live(refs) \cup queue \cup journal.stale \cup journal.dropped
          /\ queue \cap Live(refs) = {} /\ journal.dropped \cap Live(refs) = {}
      BY <1>2, <3>2, CommitSettles
    <3>. QED BY <1>3, <1>4, <1>6, <2>2, <3>1, <3>3 DEF PendingInv, SettledInv
  <2>. QED BY <1>3, <2>1, <2>2
<1>9. NamedInv'
  <2>1. /\ journal'.refs = journal.refs /\ journal'.queue = journal.queue
        /\ journal'.created = journal.created
        /\ journal'.stale = journal.stale /\ journal'.dropped = journal.dropped
    BY <1>3, <1>4
  <2>2. \A k \in DOMAIN made' : made'[k] # None => made'[k][1] = k /\ made'[k][2] <= clock
    <3>1. CASE made' = made
      BY <3>1 DEF SecretInv, SlotInv, NamedInv
    <3>2. CASE made' = NothingMade
      BY <3>2 DEF NothingMade
    <3>. QED BY <1>3, <3>1, <3>2
  <2>. QED BY <1>2, <1>3, <2>1, <2>2 DEF SecretInv, SlotInv, NamedInv
<1>. QED BY <1>7, <1>8, <1>9 DEF SecretInv, SlotInv
-----------------------------------------------------------------------------
(* The steps of a rollback.                                                 *)

(* A failed recovery is over.                                               *)
LEMMA RecoveryForward ==
  ASSUME phase = "recovering", Forward
  PROVE  ~Fail
<1>1. phase' = "recovering"
  BY DEF Forward
<1>. QED BY <1>1 DEF Fail

LEMMA RollbackSecret ==
  ASSUME Inv, SecretInv, Inv', todo # << >>, Head(todo) \in RollbackStepSet \ {ClearStep},
         Forward \/ Fail, UNCHANGED <<journal, clock>>, slots' \subseteq slots,
         Live(journal.refs) \subseteq slots',
         made' = made \/ made' = NothingMade,
         \/ UNCHANGED <<refs, queue>>
         \/ refs' = journal.refs /\ queue' = journal.queue,
         \A k \in Kinds : Head(todo) = <<"remove", k>> /\ Forward
                            => OfKind(journal.created, k) \cap slots' = {}
  PROVE  SecretInv'
<1>1. phase = "recovering" /\ Uncommitted /\ ~journal.committed /\ journal # None
      /\ journal \in Journals
  BY RollbackStep
<1>2. Uncommitted'
  BY <1>1 DEF Uncommitted
<1>3. PendingInv' /\ SettledInv'
  BY <1>1, <1>2 DEF SecretInv, SlotInv, PendingInv, SettledInv
<1>4. NamedInv'
  <2>1. AsOf(slots', clock)
    BY DEF SecretInv, SlotInv, NamedInv, AsOf
  <2>2. \A k \in DOMAIN made' : made'[k] # None => made'[k][1] = k /\ made'[k][2] <= clock
    <3>1. CASE made' = made
      BY <3>1 DEF SecretInv, SlotInv, NamedInv
    <3>2. CASE made' = NothingMade
      BY <3>2 DEF NothingMade
    <3>. QED BY <3>1, <3>2
  <2>. QED BY <1>1, <2>1, <2>2 DEF SecretInv, SlotInv, NamedInv
<1>5. ASSUME Forward PROVE RemovedInv' /\ CleanedInv'
  <2>1. \A a : Left(a) /\ a # Head(todo) => Left(a)'
    BY <1>5, LeftAfter DEF Inv, Forward, Left
  <2>2. ASSUME NEW k \in Kinds, ~Left(<<"remove", k>>)'
        PROVE  OfKind(journal.created, k) \cap slots' = {}
    <3>1. CASE Head(todo) = <<"remove", k>>
      BY <1>5, <3>1
    <3>2. CASE Head(todo) # <<"remove", k>>
      <4>1. OfKind(journal.created, k) \cap slots = {}
        BY <1>1, <2>1, <2>2, <3>2 DEF SecretInv, RemovedInv
      <4>. QED BY <4>1
    <3>. QED BY <3>1, <3>2
  <2>. QED BY <1>1, <2>2 DEF RemovedInv, CleanedInv
<1>. QED BY <1>1, <1>3, <1>4, <1>5, RecoverySecret DEF SlotInv

LEMMA RestoreSecret ==
  ASSUME Inv, SecretInv, RestoreRecord \/ \E s \in Stores : Restore(s)
  PROVE  SecretInv'
<1>0. Inv'
  BY RestoreRecordSteps, RestoreSteps
<1>1. todo # << >> /\ Head(todo) \in RollbackStepSet \ {ClearStep}
      /\ \A k \in Kinds : Head(todo) # <<"remove", k>>
  <2>1. CASE RestoreRecord
    <3>1. todo # << >> /\ Head(todo) = <<"save", "replica">>
      BY <2>1 DEF RestoreRecord, Try
    <3>2. <<"save", "replica">> \in RollbackStepSet \ {ClearStep}
      BY DEF RollbackStepSet, ClearStep
    <3>. QED BY <3>1, <3>2
  <2>2. ASSUME NEW s \in Stores, Restore(s)
        PROVE  todo # << >> /\ Head(todo) \in RollbackStepSet \ {ClearStep}
               /\ \A k \in Kinds : Head(todo) # <<"remove", k>>
    <3>1. todo # << >> /\ Head(todo) = <<"restore", s>>
      BY <2>2 DEF Restore, Try
    <3>2. <<"restore", s>> \in RollbackStepSet \ {ClearStep}
      BY DEF RollbackStepSet, ClearStep
    <3>. QED BY <3>1, <3>2
  <2>. QED BY <2>1, <2>2
<1>2. /\ Forward \/ Fail
      /\ UNCHANGED <<journal, clock, slots>>
      /\ made' = made \/ made' = NothingMade
      /\ UNCHANGED <<refs, queue>> \/ (refs' = journal.refs /\ queue' = journal.queue)
  <2>1. CASE RestoreRecord
    BY <2>1 DEF RestoreRecord, Try, Forward, files
  <2>2. ASSUME NEW s \in Stores, Restore(s)
        PROVE  /\ Forward \/ Fail
               /\ UNCHANGED <<journal, clock, slots>>
               /\ made' = made \/ made' = NothingMade
               /\ UNCHANGED <<refs, queue>> \/ (refs' = journal.refs /\ queue' = journal.queue)
    BY <2>2 DEF Restore, Try, Forward, files
  <2>. QED BY <2>1, <2>2
<1>3. Live(journal.refs) \subseteq slots
  BY <1>1, RollbackStep DEF SecretInv, SlotInv, PendingInv
<1>. QED BY <1>0, <1>1, <1>2, <1>3, RollbackSecret

(* The references are put back before the slots are removed: a slot that    *)
(* was made is not in use then.                                             *)
LEMMA RemoveCreatedSecret ==
  ASSUME Inv, SecretInv, NEW k \in Kinds, RemoveCreated(k)
  PROVE  SecretInv'
<1>. DEFINE kept == IF k = "profile" THEN {} ELSE Live(refs)
            gone == OfKind(journal.created, k) \ kept
<1>0. Inv'
  BY RemoveCreatedSteps
<1>1. todo # << >> /\ Head(todo) = <<"remove", k>> /\ Head(todo) \in RollbackStepSet \ {ClearStep}
  <2>1. todo # << >> /\ Head(todo) = <<"remove", k>>
    BY DEF RemoveCreated, Try
  <2>2. <<"remove", k>> \in RollbackStepSet \ {ClearStep}
    BY DEF RollbackStepSet, ClearStep
  <2>. QED BY <2>1, <2>2
<1>2. phase = "recovering" /\ Uncommitted /\ ~journal.committed /\ RollbackOrder(todo)
  BY <1>1, RollbackStep
<1>3. /\ (Forward /\ slots' = slots \ gone) \/ Fail
      /\ slots' \in {slots, slots \ gone}
      /\ UNCHANGED <<journal, clock, made, refs, queue>>
  BY DEF RemoveCreated, Try, Forward, files
<1>4. Live(journal.refs) \subseteq slots /\ journal.created \cap Live(journal.refs) = {}
  BY <1>2 DEF SecretInv, SlotInv, PendingInv
<1>5. refs = journal.refs
  <2>1. todo \in Seq(RollbackStepSet) /\ Before(todo, <<"restore", "connections">>, <<"remove", k>>)
    BY <1>2 DEF RollbackOrder
  <2>2. ~Has(todo, <<"restore", "connections">>)
    BY <1>1, <2>1, HeadBefore
  <2>. QED BY <1>2, <2>2 DEF Inv, RestoredInv, Left
<1>6. gone = OfKind(journal.created, k) /\ gone \cap Live(journal.refs) = {}
  BY <1>4, <1>5 DEF OfKind
<1>. HIDE DEF gone
<1>7. slots' \subseteq slots /\ Live(journal.refs) \subseteq slots'
  BY <1>3, <1>4, <1>6
<1>8. Forward => OfKind(journal.created, k) \cap slots' = {}
  <2>1. ASSUME Forward PROVE slots' = slots \ gone
    BY <1>2, <1>3, <2>1, RecoveryForward
  <2>. QED BY <1>6, <2>1
<1>9. \A m \in Kinds : Head(todo) = <<"remove", m>> => m = k
  BY <1>1
<1>. QED BY <1>0, <1>1, <1>3, <1>7, <1>8, <1>9, RollbackSecret
-----------------------------------------------------------------------------
(* The steps of a cleanup.  What leaves the queue is removed, or in use.    *)

LEMMA CleanupSecret ==
  ASSUME Inv, SecretInv, Inv', todo # << >>, Head(todo) \in FinishStepSet \ {ClearStep},
         Forward \/ Fail, UNCHANGED <<journal, clock, refs, made>>,
         slots' \subseteq slots, Live(refs) \subseteq slots',
         queue' \subseteq queue \cup journal.stale \cup journal.dropped,
         queue' \cap Live(refs) = {}, queue \cap slots' \subseteq Live(refs) \cup queue',
         \A k \in Kinds : Head(todo) = <<"stale", k>> /\ Forward =>
           OfKind(journal.stale, k) \cap slots' \subseteq Live(refs) \cup queue',
         Head(todo) = <<"stale", "connections">> /\ Forward =>
           journal.dropped \cap slots' \subseteq Live(refs) \cup queue'
  PROVE  SecretInv'
<1>1. phase = "recovering" /\ ~Uncommitted /\ journal.committed /\ journal # None
  BY FinishStep
<1>2. ~Uncommitted'
  BY <1>1 DEF Uncommitted
<1>3. PendingInv' /\ SettledInv'
  <2>1. slots \subseteq Live(refs) \cup queue \cup journal.stale \cup journal.dropped
    BY <1>1 DEF SecretInv, SlotInv, SettledInv
  <2>2. slots' \subseteq Live(refs) \cup queue' \cup journal.stale \cup journal.dropped
    BY <2>1
  <2>. QED BY <1>1, <1>2, <2>2 DEF SecretInv, SlotInv, PendingInv, SettledInv
<1>4. NamedInv'
  <2>1. AsOf(slots', clock) /\ AsOf(queue', clock)
    BY <1>1 DEF SecretInv, SlotInv, NamedInv, AsOf
  <2>. QED BY <1>1, <2>1 DEF SecretInv, SlotInv, NamedInv
<1>5. ASSUME Forward PROVE RemovedInv' /\ CleanedInv'
  <2>1. \A a : Left(a) /\ a # Head(todo) => Left(a)'
    BY <1>5, LeftAfter DEF Inv, Forward, Left
  <2>2. ASSUME NEW k \in Kinds, ~Left(<<"stale", k>>)'
        PROVE  OfKind(journal.stale, k) \cap slots' \subseteq Live(refs) \cup queue'
    <3>1. CASE Head(todo) = <<"stale", k>>
      BY <1>5, <3>1
    <3>2. CASE Head(todo) # <<"stale", k>>
      <4>1. OfKind(journal.stale, k) \cap slots \subseteq Live(refs) \cup queue
        BY <1>1, <2>1, <2>2, <3>2 DEF SecretInv, CleanedInv
      <4>. QED BY <4>1
    <3>. QED BY <3>1, <3>2
  <2>3. ASSUME ~Left(<<"stale", "connections">>)'
        PROVE  journal.dropped \cap slots' \subseteq Live(refs) \cup queue'
    <3>1. CASE Head(todo) = <<"stale", "connections">>
      BY <1>5, <3>1
    <3>2. CASE Head(todo) # <<"stale", "connections">>
      <4>1. journal.dropped \cap slots \subseteq Live(refs) \cup queue
        BY <1>1, <2>1, <2>3, <3>2 DEF SecretInv, CleanedInv
      <4>. QED BY <4>1
    <3>. QED BY <3>1, <3>2
  <2>. QED BY <1>1, <2>2, <2>3 DEF RemovedInv, CleanedInv
<1>. QED BY <1>1, <1>3, <1>4, <1>5, RecoverySecret DEF SlotInv

LEMMA InUseLive == InUse \subseteq Live(refs)
  BY DEF InUse, OfKind

LEMMA RemoveStaleSecret ==
  ASSUME Inv, SecretInv, NEW k \in Kinds, RemoveStale(k)
  PROVE  SecretInv'
<1>. DEFINE gone == OfKind(journal.stale, k) \ Live(refs)
<1>0. Inv'
  BY CleanupSteps
<1>1. todo # << >> /\ Head(todo) = <<"stale", k>> /\ Head(todo) \in FinishStepSet \ {ClearStep}
      /\ Head(todo) # <<"stale", "connections">>
  <2>1. todo # << >> /\ Head(todo) = <<"stale", k>>
    BY DEF RemoveStale, Try
  <2>2. <<"stale", k>> \in FinishStepSet \ {ClearStep} /\ <<"stale", k>> # <<"stale", "connections">>
    BY DEF FinishStepSet, ClearStep, Kinds
  <2>. QED BY <2>1, <2>2
<1>2. phase = "recovering" /\ ~Uncommitted /\ journal # None
  BY <1>1, FinishStep
<1>3. /\ (Forward /\ slots' = slots \ gone) \/ Fail
      /\ slots' \in {slots, slots \ gone}
      /\ UNCHANGED <<journal, clock, made, refs, queue>>
  BY DEF RemoveStale, Try, Forward, files
<1>4. Live(refs) \subseteq slots /\ queue \cap Live(refs) = {}
  BY <1>2 DEF SecretInv, SlotInv, SettledInv
<1>5. Forward => slots' = slots \ gone
  BY <1>2, <1>3, RecoveryForward
<1>6. \A m \in Kinds : Head(todo) = <<"stale", m>> => m = k
  BY <1>1
<1>7. Live(refs) \subseteq slots' /\ slots' \subseteq slots
  BY <1>3, <1>4
<1>8. Forward => OfKind(journal.stale, k) \cap slots' \subseteq Live(refs) \cup queue'
  BY <1>5
<1>. HIDE DEF gone
<1>. QED BY <1>0, <1>1, <1>3, <1>4, <1>6, <1>7, <1>8, CleanupSecret

LEMMA FinalizeSecret ==
  ASSUME Inv, SecretInv, FinalizeCleanup
  PROVE  SecretInv'
<1>. DEFINE cleanup == (journal.dropped \cup queue) \ InUse
<1>0. Inv'
  BY CleanupSteps
<1>1. todo # << >> /\ Head(todo) = <<"stale", "connections">>
      /\ Head(todo) \in FinishStepSet \ {ClearStep} /\ \A k \in Kinds : Head(todo) # <<"stale", k>>
  <2>1. todo # << >> /\ Head(todo) = <<"stale", "connections">>
    BY DEF FinalizeCleanup
  <2>2. <<"stale", "connections">> \in FinishStepSet \ {ClearStep}
        /\ \A k \in Kinds : <<"stale", "connections">> # <<"stale", k>>
    BY DEF FinishStepSet, ClearStep, Kinds
  <2>. QED BY <2>1, <2>2
<1>2. phase = "recovering" /\ ~Uncommitted /\ journal # None
  BY <1>1, FinishStep
<1>3. /\ \/ Forward /\ slots' = slots \ cleanup /\ queue' = {}
         \/ Fail /\ \E failed \in SUBSET cleanup :
                      slots' = slots \ (cleanup \ failed) /\ queue' \in {queue, failed}
      /\ UNCHANGED <<journal, clock, made, refs>>
  BY DEF FinalizeCleanup, Forward
<1>4. /\ Live(refs) \subseteq slots /\ queue \cap Live(refs) = {}
      /\ journal.dropped \cap Live(refs) = {} /\ InUse \subseteq Live(refs)
  BY <1>2, InUseLive DEF SecretInv, SlotInv, SettledInv
<1>5. /\ slots' \subseteq slots /\ Live(refs) \subseteq slots'
      /\ queue' \subseteq queue \cup journal.dropped
      /\ queue' \cap Live(refs) = {} /\ queue \cap slots' \subseteq Live(refs) \cup queue'
  <2>1. CASE slots' = slots \ cleanup /\ queue' = {}
    BY <1>4, <2>1
  <2>2. ASSUME NEW failed \in SUBSET cleanup,
               slots' = slots \ (cleanup \ failed), queue' \in {queue, failed}
        PROVE  /\ slots' \subseteq slots /\ Live(refs) \subseteq slots'
               /\ queue' \subseteq queue \cup journal.dropped
               /\ queue' \cap Live(refs) = {} /\ queue \cap slots' \subseteq Live(refs) \cup queue'
    BY <1>4, <2>2
  <2>. QED BY <1>3, <2>1, <2>2
<1>6. Forward => journal.dropped \cap slots' \subseteq Live(refs) \cup queue'
  <2>1. ASSUME Forward PROVE slots' = slots \ cleanup
    BY <1>2, <1>3, <2>1, RecoveryForward
  <2>. QED BY <1>4, <2>1
<1>7. UNCHANGED <<journal, clock, made, refs>> /\ (Forward \/ Fail)
  BY <1>3
<1>. HIDE DEF cleanup
<1>. QED BY <1>0, <1>1, <1>5, <1>6, <1>7, CleanupSecret

LEMMA CommitCredentialsSecret ==
  ASSUME Inv, SecretInv, CommitCredentials
  PROVE  SecretInv'
<1>. DEFINE stale == OfKind(journal.stale, "profile") \ Live(refs)
<1>0. Inv'
  BY CleanupSteps
<1>1. todo # << >> /\ Head(todo) = <<"stale", "profile">>
      /\ Head(todo) \in FinishStepSet \ {ClearStep} /\ Head(todo) # <<"stale", "connections">>
  <2>1. todo # << >> /\ Head(todo) = <<"stale", "profile">>
    BY DEF CommitCredentials
  <2>2. <<"stale", "profile">> \in FinishStepSet \ {ClearStep}
        /\ <<"stale", "profile">> # <<"stale", "connections">>
    BY DEF FinishStepSet, ClearStep
  <2>. QED BY <2>1, <2>2
<1>2. phase = "recovering" /\ ~Uncommitted /\ journal # None
  BY <1>1, FinishStep
<1>3. /\ \E failed \in SUBSET stale :
           /\ slots' = slots \ (stale \ failed)
           /\ \/ Forward /\ queue' = queue \cup failed
              \/ Fail /\ queue' \in {queue, queue \cup failed}
      /\ UNCHANGED <<journal, clock, made, refs>>
  <2>1. CASE Forward /\ slots' = slots \ stale /\ queue' = queue /\ UNCHANGED <<journal, clock, made, refs>>
    <3>1. {} \in SUBSET stale /\ stale \ {} = stale /\ queue \cup {} = queue
      OBVIOUS
    <3>. QED BY <2>1, <3>1
  <2>2. CASE /\ \E failed \in SUBSET stale :
                  /\ slots' = slots \ (stale \ failed)
                  /\ \/ Forward /\ queue' = queue \cup failed
                     \/ Fail /\ queue' \in {queue, queue \cup failed}
             /\ UNCHANGED <<journal, clock, made, refs>>
    BY <2>2
  <2>. QED BY <2>1, <2>2 DEF CommitCredentials, Forward
<1>4. Live(refs) \subseteq slots /\ queue \cap Live(refs) = {}
  BY <1>2 DEF SecretInv, SlotInv, SettledInv
<1>5. stale \subseteq journal.stale
  BY DEF OfKind
<1>6. /\ slots' \subseteq slots /\ Live(refs) \subseteq slots'
      /\ queue' \subseteq queue \cup journal.stale
      /\ queue' \cap Live(refs) = {} /\ queue \cap slots' \subseteq Live(refs) \cup queue'
  BY <1>3, <1>4, <1>5
<1>7. Forward => OfKind(journal.stale, "profile") \cap slots' \subseteq Live(refs) \cup queue'
  BY <1>2, <1>3, RecoveryForward
<1>8. \A k \in Kinds : Head(todo) = <<"stale", k>> => k = "profile"
  BY <1>1
<1>9. UNCHANGED <<journal, clock, made, refs>> /\ (Forward \/ Fail)
  BY <1>3
<1>. HIDE DEF stale
<1>. QED BY <1>0, <1>1, <1>6, <1>7, <1>8, <1>9, CleanupSecret

(* The journal goes when nothing it accounts for is left.                   *)
LEMMA ClearSecret ==
  ASSUME Inv, SecretInv, Clear
  PROVE  SecretInv'
<1>0. Inv'
  BY ClearSteps
<1>1. todo # << >> /\ Head(todo) = ClearStep /\ ClearStep \in FinishStepSet
  BY DEF Clear, ClearStep, FinishStepSet
<1>2. phase = "recovering" /\ journal # None /\ journal \in Journals
  BY <1>1, WhoseStep DEF Inv, PhaseInv, TypeInv
<1>3. /\ phase' \in {"down", "applied", "idle"}
      /\ journal' = journal \/ journal' = None
      /\ UNCHANGED <<refs, queue, slots, made, clock>>
  BY <1>2 DEF Clear, Fail
<1>4. MadeInv' /\ RemovedInv' /\ CleanedInv'
  BY <1>3, RestingSecret
<1>5. \A a : a # ClearStep => ~Left(a)
  BY <1>1, <1>2, LastStep DEF Inv
<1>6. \A k \in Kinds : <<"remove", k>> # ClearStep /\ <<"stale", k>> # ClearStep
  BY DEF ClearStep
<1>7. <<"stale", "connections">> # ClearStep /\ <<"restore", "connections">> # ClearStep
  BY DEF ClearStep
<1>8. slots \subseteq Slots /\ \A x \in slots : x[1] \in Kinds
  BY DEF Inv, TypeInv, Slots
<1>9. PendingInv' /\ SettledInv'
  <2>1. CASE journal' = journal
    <3>1. Uncommitted' <=> Uncommitted
      BY <2>1 DEF Uncommitted
    <3>. QED BY <1>3, <2>1, <3>1 DEF SecretInv, SlotInv, PendingInv, SettledInv
  <2>2. CASE journal' = None /\ ~Uncommitted
    <3>1. ~Uncommitted' /\ journal.committed
      BY <1>2, <2>2 DEF Uncommitted
    <3>2. /\ Live(refs) \subseteq slots /\ queue \cap Live(refs) = {}
          /\ slots \subseteq Live(refs) \cup queue \cup journal.stale \cup journal.dropped
      BY <1>2, <2>2 DEF SecretInv, SlotInv, SettledInv
    <3>3. ASSUME NEW x \in slots, x \in journal.stale PROVE x \in Live(refs) \cup queue
      <4>1. x \in OfKind(journal.stale, x[1]) /\ x[1] \in Kinds
        BY <1>8, <3>3 DEF OfKind
      <4>2. OfKind(journal.stale, x[1]) \cap slots \subseteq Live(refs) \cup queue
        BY <1>2, <1>5, <1>6, <3>1, <4>1 DEF SecretInv, CleanedInv
      <4>. QED BY <3>3, <4>1, <4>2
    <3>4. journal.dropped \cap slots \subseteq Live(refs) \cup queue
      BY <1>2, <1>5, <1>7, <3>1 DEF SecretInv, CleanedInv
    <3>5. slots \subseteq Live(refs) \cup queue
      BY <3>2, <3>3, <3>4
    <3>. QED BY <1>3, <2>2, <3>1, <3>2, <3>5 DEF PendingInv, SettledInv
  <2>3. CASE journal' = None /\ Uncommitted
    <3>1. ~Uncommitted' /\ ~journal.committed
      BY <2>3 DEF Uncommitted
    <3>2. refs = journal.refs /\ queue = journal.queue
      BY <1>2, <1>5, <1>7, <3>1 DEF Inv, RestoredInv
    <3>3. /\ Live(refs) \subseteq slots /\ queue \cap Live(refs) = {}
          /\ slots \subseteq Live(refs) \cup queue \cup journal.created
      BY <2>3, <3>2 DEF SecretInv, SlotInv, PendingInv
    <3>4. ASSUME NEW x \in slots, x \in journal.created PROVE FALSE
      <4>1. x \in OfKind(journal.created, x[1]) /\ x[1] \in Kinds
        BY <1>8, <3>4 DEF OfKind
      <4>2. OfKind(journal.created, x[1]) \cap slots = {}
        BY <1>2, <1>5, <1>6, <3>1, <4>1 DEF SecretInv, RemovedInv
      <4>. QED BY <3>4, <4>1, <4>2
    <3>5. slots \subseteq Live(refs) \cup queue
      BY <3>3, <3>4
    <3>. QED BY <1>3, <2>3, <3>1, <3>3, <3>5 DEF PendingInv, SettledInv
  <2>. QED BY <1>3, <2>1, <2>2, <2>3
<1>10. NamedInv'
  BY <1>2, <1>3 DEF SecretInv, SlotInv, NamedInv
<1>. QED BY <1>4, <1>9, <1>10 DEF SecretInv, SlotInv
-----------------------------------------------------------------------------
(* The program.                                                             *)

LEMMA StartSecret ==
  ASSUME Inv, SecretInv, Start
  PROVE  SecretInv'
<1>0. Inv'
  BY StartSteps
<1>1. PICK failed \in SUBSET (queue \ InUse) :
        /\ slots' = slots \ ((queue \ InUse) \ failed)
        /\ queue' = failed \/ queue' = queue
  BY DEF Start
<1>2. /\ UNCHANGED <<journal, clock, made, refs>>
      /\ IF journal = None THEN phase' = "idle"
         ELSE phase' = "recovering" /\ todo' = RecoverySteps(journal'.committed)
  BY DEF Start, Recover
<1>3. Uncommitted' <=> Uncommitted
  BY <1>2 DEF Uncommitted
<1>4. PendingInv'
  BY <1>1, <1>2, <1>3 DEF SecretInv, SlotInv, PendingInv
<1>5. SettledInv'
  BY <1>1, <1>2, <1>3, InUseLive DEF SecretInv, SlotInv, SettledInv
<1>6. NamedInv'
  <2>1. AsOf(slots', clock) /\ AsOf(queue', clock)
    BY <1>1 DEF SecretInv, SlotInv, NamedInv, AsOf
  <2>. QED BY <1>2, <2>1 DEF SecretInv, SlotInv, NamedInv
<1>7. MadeInv' /\ RemovedInv' /\ CleanedInv'
  <2>1. CASE journal = None
    BY <1>2, <2>1, RestingSecret
  <2>2. CASE journal # None
    <3>1. journal' \in Journals
      BY <1>0, <1>2, <2>2 DEF Inv, TypeInv
    <3>. QED BY <1>2, <2>2, <3>1, RecoveryBeginsSecret
  <2>. QED BY <2>1, <2>2
<1>. QED BY <1>4, <1>5, <1>6, <1>7 DEF SecretInv, SlotInv

(* Steps that do not touch the connection store.                            *)
LEMMA OtherSecret ==
  ASSUME Inv, SecretInv, Inv',
         UNCHANGED <<refs, queue, slots, journal, clock>>, made' = made \/ made' = NothingMade,
         \/ phase' \notin {"applying", "recovering"}
         \/ phase' = "recovering" /\ todo' = RecoverySteps(journal'.committed)
  PROVE  SecretInv'
<1>1. Uncommitted' <=> Uncommitted
  BY DEF Uncommitted
<1>2. PendingInv' /\ SettledInv'
  BY <1>1 DEF SecretInv, SlotInv, PendingInv, SettledInv
<1>3. \A k \in DOMAIN made' : made'[k] # None => made'[k][1] = k /\ made'[k][2] <= clock
  <2>1. CASE made' = made
    BY <2>1 DEF SecretInv, SlotInv, NamedInv
  <2>2. CASE made' = NothingMade
    BY <2>2 DEF NothingMade
  <2>. QED BY <2>1, <2>2
<1>4. NamedInv'
  BY <1>3 DEF SecretInv, SlotInv, NamedInv
<1>5. phase' = "recovering" => journal' \in Journals
  BY DEF Inv, TypeInv, PhaseInv
<1>6. MadeInv' /\ RemovedInv' /\ CleanedInv'
  BY <1>5, RestingSecret, RecoveryBeginsSecret
<1>. QED BY <1>2, <1>4, <1>6 DEF SecretInv, SlotInv

LEMMA ProgramSecret ==
  ASSUME Inv, SecretInv,
         \/ RecoverPending \/ Cancel \/ ApplyUnchanged \/ Publish \/ Crash
         \/ \E change \in Plans : Plan(change)
  PROVE  SecretInv'
<1>1. Inv'
  BY RecoverPendingSteps, CancelSteps, ApplyUnchangedSteps, PublishSteps, CrashSteps, PlanSteps
<1>2. /\ UNCHANGED <<refs, queue, slots, journal, clock>>
      /\ made' = made \/ made' = NothingMade
      /\ \/ phase' \notin {"applying", "recovering"}
         \/ phase' = "recovering" /\ todo' = RecoverySteps(journal'.committed)
  BY DEF RecoverPending, Recover, Cancel, ApplyUnchanged, Publish, Crash, Plan, files, bounds
<1>. QED BY <1>1, <1>2, OtherSecret

(* The slots an apply makes have a number nothing has had before.           *)
LEMMA BeginSecret ==
  ASSUME Inv, SecretInv, Begin
  PROVE  SecretInv'
<1>0. Inv'
  BY BeginSteps
<1>1. phase = "planned" /\ journal = None /\ ~Uncommitted /\ plan \in Changes /\ clock \in Nat
  BY DEF Begin, Inv, PhaseInv, TypeInv, Uncommitted
<1>. DEFINE drops == {m \in Kinds : plan[m] = "drop"}
            dropped == [k \in drops |-> None]
<1>2. /\ \/ /\ journal' = Checkpoint /\ phase' = "applying" /\ todo' = ApplySteps(plan)
            /\ made' = dropped /\ plan' = plan
         \/ /\ journal' \in {None, Checkpoint} /\ phase' = "idle" /\ made' = made
      /\ clock' = clock + 1
      /\ UNCHANGED <<refs, queue, slots>>
  BY DEF Begin
<1>3. DOMAIN dropped = drops /\ \A k \in drops : dropped[k] = None
  OBVIOUS
<1>. HIDE DEF dropped
<1>4. /\ Checkpoint.committed = FALSE /\ Checkpoint.refs = refs /\ Checkpoint.queue = queue
      /\ Checkpoint.created = {} /\ Checkpoint.stale = {} /\ Checkpoint.dropped = {}
  BY DEF Checkpoint
<1>. HIDE DEF Checkpoint
<1>5. /\ Live(refs) \subseteq slots /\ slots \subseteq Live(refs) \cup queue
      /\ queue \cap Live(refs) = {}
  BY <1>1 DEF SecretInv, SlotInv, SettledInv
<1>6. PendingInv' /\ SettledInv'
  <2>1. CASE journal' = None
    <3>1. ~Uncommitted'
      BY <2>1 DEF Uncommitted
    <3>. QED BY <1>2, <1>5, <2>1, <3>1 DEF PendingInv, SettledInv
  <2>2. CASE journal' = Checkpoint
    <3>1. ~Uncommitted' => journal' = None
      BY <1>4, <2>2 DEF Uncommitted
    <3>. QED BY <1>2, <1>4, <1>5, <2>2, <3>1 DEF PendingInv, SettledInv
  <2>. QED BY <1>2, <2>1, <2>2
<1>7. AsOf(slots, clock + 1) /\ AsOf(queue, clock + 1) /\ AsOf(Live(refs), clock + 1)
  <2>1. slots \subseteq Slots /\ queue \subseteq Slots /\ Live(refs) \subseteq Slots
    BY DEF Inv, TypeInv, Live
  <2>2. AsOf(slots, clock) /\ AsOf(queue, clock) /\ AsOf(Live(refs), clock)
    BY DEF SecretInv, SlotInv, NamedInv
  <2>3. ASSUME NEW n \in Nat, n <= clock PROVE n <= clock + 1
    BY <1>1, <2>3
  <2>4. \A x \in Slots : x[2] \in Nat
    BY DEF Slots
  <2>. QED BY <2>1, <2>2, <2>3, <2>4 DEF AsOf
<1>8. NamedInv'
  <2>1. \A k \in DOMAIN made' : made'[k] # None => made'[k][1] = k /\ made'[k][2] <= clock + 1
    <3>1. CASE made' = dropped
      BY <1>3, <3>1
    <3>2. CASE made' = made
      <4>1. \A k \in DOMAIN made : made[k] # None => made[k][2] \in Nat
        BY DEF Inv, TypeInv, Slots
      <4>2. \A n \in Nat : n <= clock => n <= clock + 1
        BY <1>1
      <4>. QED BY <3>2, <4>1, <4>2 DEF SecretInv, SlotInv, NamedInv
    <3>. QED BY <1>2, <3>1, <3>2
  <2>2. journal' # None => /\ journal'.refs = refs /\ journal'.queue = queue
                           /\ journal'.created = {} /\ journal'.stale = {} /\ journal'.dropped = {}
    BY <1>2, <1>4
  <2>3. AsOf({}, clock + 1) /\ OwnKind(refs)
    BY DEF AsOf, SecretInv, SlotInv, NamedInv
  <2>. QED BY <1>2, <1>7, <2>1, <2>2, <2>3 DEF NamedInv
<1>9. MadeInv' /\ RemovedInv' /\ CleanedInv'
  <2>1. CASE phase' = "idle"
    BY <2>1, RestingSecret
  <2>2. CASE phase' = "applying"
    <3>1. /\ journal' = Checkpoint /\ todo' = ApplySteps(plan) /\ made' = dropped /\ plan' = plan
      BY <1>2, <2>2
    <3>2. /\ Has(todo', <<"seal", "journal">>)
          /\ \A k \in Kinds : Has(todo', <<"create", k>>) =>
               plan[k] = "replace" /\ Has(todo', <<"record", k>>)
      BY <1>1, <3>1, ApplyStepsOrder
    <3>3. clock' - 1 = clock
      BY <1>1, <1>2
    <3>4. AsOf(Live(refs), clock) /\ AsOf(queue, clock) /\ AsOf(slots, clock)
      BY DEF SecretInv, SlotInv, NamedInv
    <3>5. \A k \in Kinds : <<k, clock'>> \notin slots
      <4>1. ASSUME NEW k \in Kinds, <<k, clock + 1>> \in slots PROVE FALSE
        <5>1. <<k, clock + 1>>[2] <= clock
          BY <3>4, <4>1 DEF AsOf
        <5>. QED BY <1>1, <5>1
      <4>. QED BY <1>2, <4>1
    <3>6. ASSUME NEW k \in Kinds
          PROVE  /\ plan'[k] = "drop" => k \in DOMAIN made'
                 /\ Left(<<"create", k>>)' => plan'[k] = "replace"
                 /\ Left(<<"create", k>>)' => Left(<<"record", k>>)'
                 /\ refs'[k] = journal'.refs[k]
      BY <1>2, <1>3, <1>4, <3>1, <3>2 DEF Left
    <3>7. \A k \in DOMAIN made' : plan'[k] = "drop" /\ made'[k] = None
      BY <1>3, <3>1
    <3>8. Left(<<"seal", "journal">>)'
      BY <3>2 DEF Left
    <3>9. /\ queue' = journal'.queue /\ journal'.created = {}
          /\ AsOf(Live(journal'.refs), clock' - 1) /\ AsOf(journal'.queue, clock' - 1)
      BY <1>2, <1>4, <3>1, <3>3, <3>4
    <3>10. MadeInv'
      BY <1>2, <3>5, <3>6, <3>7, <3>8, <3>9 DEF MadeInv
    <3>. QED BY <2>2, <3>10 DEF RemovedInv, CleanedInv
  <2>. QED BY <1>2, <2>1, <2>2
<1>. QED BY <1>6, <1>8, <1>9 DEF SecretInv, SlotInv
LEMMA LaterNamed ==
  ASSUME Inv, NEW S \in SUBSET Slots, AsOf(S, clock)
  PROVE  AsOf(S, clock + 1)
<1>1. \A x \in Slots : x[2] \in Nat
  BY DEF Slots
<1>2. ASSUME NEW n \in Nat, n <= clock PROVE n <= clock + 1
  BY <1>2 DEF Inv, TypeInv
<1>. QED BY <1>1, <1>2 DEF AsOf

LEMMA EditValueSecret ==
  ASSUME Inv, SecretInv, NEW s \in Stores, EditValue(s)
  PROVE  SecretInv'
<1>1. /\ phase \in {"idle", "planned", "applied"} /\ phase' = phase
      /\ clock' = clock + 1 /\ UNCHANGED <<journal, queue, slots>>
      /\ refs' = refs \/ refs' = SavedRefs
      /\ made' = made \/ made' = NothingMade
  BY DEF EditValue, Editing
<1>2. (Uncommitted' <=> Uncommitted) /\ (~Uncommitted => refs' = refs)
  BY <1>1 DEF Uncommitted, Inv, CaptureInv
<1>3. PendingInv' /\ SettledInv'
  BY <1>1, <1>2 DEF SecretInv, SlotInv, PendingInv, SettledInv
<1>4. NamedInv'
  <2>1. TypeInv /\ NamedInv /\ slots \in SUBSET Slots /\ queue \in SUBSET Slots /\ clock \in Nat
    BY DEF Inv, TypeInv, SecretInv, SlotInv
  <2>2. AsOf(slots, clock + 1) /\ AsOf(queue, clock + 1)
    BY <2>1, LaterNamed DEF NamedInv
  <2>. QED BY <1>1, <2>1, <2>2, NamedKept
<1>5. MadeInv' /\ RemovedInv' /\ CleanedInv'
  BY <1>1, RestingSecret
<1>. QED BY <1>3, <1>4, <1>5 DEF SecretInv, SlotInv

(* A credential is changed when no rollback is pending.                     *)
LEMMA EditCredentialSecret ==
  ASSUME Inv, SecretInv, "credential" \notin LateEdits, NEW k \in Kinds, EditCredential(k)
  PROVE  SecretInv'
<1>. DEFINE slot == <<k, clock + 1>>
            old == {SavedRefs[k]} \ {None}
<1>1. /\ phase \in {"idle", "planned", "applied"} /\ phase' = phase /\ ~Uncommitted
      /\ clock' = clock + 1 /\ journal' = journal
      /\ refs' = [SavedRefs EXCEPT ![k] = slot] /\ made' = NothingMade
      /\ \/ slots' = (slots \cup {slot}) \ old /\ queue' = queue
         \/ slots' = slots \cup {slot} /\ queue' = queue \cup old
  BY DEF EditCredential, Editing
<1>2. SavedRefs = refs /\ refs \in [Kinds -> Slots \cup {None}] /\ clock \in Nat
      /\ slots \in SUBSET Slots /\ queue \in SUBSET Slots /\ journal \in Journals \cup {None}
  BY <1>1 DEF Inv, CaptureInv, TypeInv
<1>3. slot \in Slots /\ slot # None /\ slot[1] = k /\ slot[2] = clock + 1
  <2>1. slot \in Slots
    BY <1>2 DEF Slots
  <2>. QED BY <2>1, ApplyJournalAssumption
<1>4. \A S \in SUBSET Slots : AsOf(S, clock) => slot \notin S
  <2>1. ~(clock + 1 <= clock)
    BY <1>2
  <2>. QED BY <1>3, <2>1 DEF AsOf
<1>. HIDE DEF slot
<1>5. Live(refs) \in SUBSET Slots
  BY <1>2 DEF Live
<1>6. AsOf(slots, clock) /\ AsOf(queue, clock) /\ AsOf(Live(refs), clock) /\ OwnKind(refs)
  BY DEF SecretInv, SlotInv, NamedInv
<1>7. slot \notin slots /\ slot \notin queue /\ slot \notin Live(refs)
  BY <1>2, <1>4, <1>5, <1>6
<1>8. /\ refs' = [refs EXCEPT ![k] = slot] /\ old = {refs[k]} \ {None}
      /\ refs'[k] = slot /\ \A m \in Kinds : m # k => refs'[m] = refs[m]
  BY <1>1, <1>2
<1>9. old \subseteq Live(refs)
  BY <1>8, LiveElement
<1>10. Live(refs') = (Live(refs) \ old) \cup {slot}
  <2>1. ASSUME NEW x \in Live(refs') PROVE x \in (Live(refs) \ old) \cup {slot}
    <3>1. PICK m \in Kinds : refs'[m] = x /\ x # None
      BY LiveElement
    <3>2. CASE m = k
      BY <1>8, <3>1, <3>2
    <3>3. CASE m # k
      <4>1. refs[m] = x /\ x \in Live(refs) /\ x[1] = m
        BY <1>6, <1>8, <3>1, <3>3, LiveElement DEF OwnKind
      <4>2. x # refs[k]
        BY <1>6, <3>1, <3>3, <4>1 DEF OwnKind
      <4>. QED BY <1>8, <4>1, <4>2
    <3>. QED BY <3>2, <3>3
  <2>2. ASSUME NEW x \in Live(refs) \ old PROVE x \in Live(refs')
    <3>1. PICK m \in Kinds : refs[m] = x /\ x # None
      BY LiveElement
    <3>2. m # k
      BY <1>8, <2>2, <3>1
    <3>3. refs'[m] = x
      BY <1>8, <3>1, <3>2
    <3>. QED BY <3>1, <3>3, LiveElement
  <2>3. slot \in Live(refs')
    <3>1. refs'[k] # None
      BY <1>3, <1>8
    <3>2. refs'[k] \in Live(refs')
      BY <3>1 DEF Live
    <3>. QED BY <1>8, <3>2
  <2>. QED BY <2>1, <2>2, <2>3
<1>. HIDE DEF old
<1>11. /\ Live(refs) \subseteq slots /\ queue \cap Live(refs) = {}
       /\ slots \subseteq Live(refs) \cup queue
                            \cup (IF journal = None THEN {} ELSE journal.stale \cup journal.dropped)
       /\ journal # None => journal.dropped \cap Live(refs) = {}
  BY <1>1 DEF SecretInv, SlotInv, SettledInv
<1>12. journal # None => slot \notin journal.dropped
  <2>1. ASSUME journal # None PROVE journal.dropped \in SUBSET Slots /\ AsOf(journal.dropped, clock)
    BY <1>2, <2>1, JournalFields DEF SecretInv, SlotInv, NamedInv
  <2>. QED BY <1>4, <2>1
<1>13. ~Uncommitted'
  BY <1>1 DEF Uncommitted
<1>14. PendingInv' /\ SettledInv'
  <2>1. Live(refs') \subseteq slots'
    BY <1>1, <1>7, <1>9, <1>10, <1>11
  <2>2. slots' \subseteq Live(refs') \cup queue'
                           \cup (IF journal = None THEN {} ELSE journal.stale \cup journal.dropped)
    <3>. DEFINE rest == IF journal = None THEN {} ELSE journal.stale \cup journal.dropped
    <3>1. slots \subseteq Live(refs) \cup queue \cup rest
      BY <1>11
    <3>. HIDE DEF rest
    <3>2. slots' \subseteq Live(refs') \cup queue' \cup rest
      BY <1>1, <1>10, <3>1
    <3>. QED BY <3>2 DEF rest
  <2>3. queue' \cap Live(refs') = {}
    BY <1>1, <1>7, <1>9, <1>10, <1>11
  <2>4. journal # None => journal.dropped \cap Live(refs') = {}
    BY <1>10, <1>11, <1>12
  <2>. QED BY <1>1, <1>13, <2>1, <2>2, <2>3, <2>4 DEF PendingInv, SettledInv
<1>15. NamedInv'
  <2>1. AsOf(slots, clock + 1) /\ AsOf(queue, clock + 1) /\ AsOf(Live(refs), clock + 1)
    BY <1>2, <1>5, <1>6, LaterNamed
  <2>2. AsOf({slot}, clock + 1)
    <3>1. clock + 1 <= clock + 1
      BY <1>2
    <3>. QED BY <1>3, <3>1 DEF AsOf
  <2>3. AsOf(slots', clock') /\ AsOf(queue', clock') /\ AsOf(Live(refs'), clock')
    BY <1>1, <1>9, <1>10, <2>1, <2>2 DEF AsOf
  <2>4. OwnKind(refs')
    BY <1>3, <1>6, <1>8 DEF OwnKind
  <2>5. \A m \in DOMAIN made' : made'[m] # None => made'[m][1] = m /\ made'[m][2] <= clock'
    BY <1>1 DEF NothingMade
  <2>6. ASSUME journal # None
        PROVE  /\ AsOf(Live(journal.refs), clock + 1) /\ AsOf(journal.queue, clock + 1)
               /\ AsOf(journal.created, clock + 1) /\ AsOf(journal.stale, clock + 1)
               /\ AsOf(journal.dropped, clock + 1) /\ OwnKind(journal.refs)
    <3>1. /\ journal.queue \in SUBSET Slots /\ journal.created \in SUBSET Slots
          /\ journal.stale \in SUBSET Slots /\ journal.dropped \in SUBSET Slots
          /\ Live(journal.refs) \in SUBSET Slots
      BY <1>2, <2>6, JournalFields DEF Live
    <3>. QED BY <2>6, <3>1, LaterNamed DEF SecretInv, SlotInv, NamedInv
  <2>. QED BY <1>1, <2>3, <2>4, <2>5, <2>6 DEF NamedInv
<1>16. MadeInv' /\ RemovedInv' /\ CleanedInv'
  BY <1>1, RestingSecret
<1>. QED BY <1>14, <1>15, <1>16 DEF SecretInv, SlotInv

LEMMA SecretInit ==
  ASSUME Init
  PROVE  SecretInv
<1>1. /\ refs = [k \in Kinds |-> <<k, 0>>] /\ queue = {} /\ slots = Live(refs)
      /\ journal = None /\ phase = "idle" /\ made = NothingMade /\ clock = 0
  BY DEF Init
<1>2. PendingInv /\ SettledInv
  BY <1>1 DEF PendingInv, SettledInv, Uncommitted
<1>3. AsOf(Live(refs), 0) /\ OwnKind(refs) /\ AsOf({}, 0)
  BY <1>1 DEF AsOf, OwnKind, Live
<1>4. NamedInv
  BY <1>1, <1>3 DEF NamedInv, NothingMade
<1>5. MadeInv /\ RemovedInv /\ CleanedInv
  BY <1>1 DEF MadeInv, RemovedInv, CleanedInv
<1>. QED BY <1>2, <1>4, <1>5 DEF SecretInv, SlotInv

LEMMA SecretStep ==
  ASSUME Inv, SecretInv, "credential" \notin LateEdits, [Next]_vars
  PROVE  SecretInv'
<1>1. CASE UNCHANGED vars
  <2>1. UNCHANGED <<refs, queue, slots, journal, clock, made, phase, todo, plan>>
    BY <1>1 DEF vars, files, memory, bounds
  <2>2. (Uncommitted' <=> Uncommitted) /\ \A way : Obsolete(way)' = Obsolete(way)
    BY <2>1 DEF Uncommitted, Obsolete
  <2>3. SlotInv'
    BY <2>1, <2>2 DEF SecretInv, SlotInv, PendingInv, SettledInv, NamedInv
  <2>4. MadeInv'
    BY <2>1, <2>2 DEF SecretInv, MadeInv, Left
  <2>5. RemovedInv' /\ CleanedInv'
    BY <2>1 DEF SecretInv, RemovedInv, CleanedInv, Left
  <2>. QED BY <2>3, <2>4, <2>5 DEF SecretInv
<1>2. CASE Apply
  <2>1. CASE Note \/ SaveNext \/ \E s \in Stores : Write(s)
    BY <2>1, JournalStepsSecret
  <2>2. CASE Seal \/ MarkCommitted
    BY <2>2, SealSecret, MarkCommittedSecret
  <2>3. ASSUME NEW k \in Kinds, RecordSlot(k) \/ CreateSlot(k) PROVE SecretInv'
    BY <2>3, RecordSlotSecret, CreateSlotSecret
  <2>. QED BY <1>2, <2>1, <2>2, <2>3 DEF Apply
<1>3. CASE Recovery
  <2>1. CASE RestoreRecord \/ \E s \in Stores : Restore(s)
    BY <2>1, RestoreSecret
  <2>2. CASE FinalizeCleanup \/ CommitCredentials \/ Clear
    BY <2>2, FinalizeSecret, CommitCredentialsSecret, ClearSecret
  <2>3. ASSUME NEW k \in Kinds, RemoveCreated(k) \/ RemoveStale(k) PROVE SecretInv'
    BY <2>3, RemoveCreatedSecret, RemoveStaleSecret
  <2>. QED BY <1>3, <2>1, <2>2, <2>3 DEF Recovery
<1>4. CASE Start \/ Begin
  BY <1>4, StartSecret, BeginSecret
<1>5. CASE \/ RecoverPending \/ Cancel \/ ApplyUnchanged \/ Publish \/ Crash
           \/ \E change \in Plans : Plan(change)
  BY <1>5, ProgramSecret
<1>6. ASSUME NEW s \in Stores, EditValue(s) PROVE SecretInv'
  BY <1>6, EditValueSecret
<1>7. ASSUME NEW k \in Kinds, EditCredential(k) PROVE SecretInv'
  BY <1>7, EditCredentialSecret
<1>. QED BY <1>1, <1>2, <1>3, <1>4, <1>5, <1>6, <1>7 DEF Next

(* As long as no password is changed while a rollback is pending (the       *)
(* desktop allows it, connection_store.rs: what the user replaced then is   *)
(* what the rollback puts back), the journal accounts for every slot there  *)
(* is, through all failures of the apply, the rollback and the cleanup.     *)
THEOREM SlotsAccounted ==
  ASSUME "credential" \notin LateEdits
  PROVE  Spec => [](Inv /\ SecretInv)
<1>1. Init => Inv /\ SecretInv
  BY InvInit, SecretInit
<1>2. Inv /\ SecretInv /\ [Next]_vars => (Inv /\ SecretInv)'
  BY InvStep, SecretStep
<1>. QED BY <1>1, <1>2, PTL DEF Spec

(* Under the same condition, the secret of every credential the device has, *)
(* or gets back by the rollback, exists at any moment: new slots are made   *)
(* before the references to them, old ones removed after the commit.        *)
THEOREM CredentialsAlwaysAvailable ==
  ASSUME "credential" \notin LateEdits
  PROVE  Spec => []CredentialsAvailable
<1>1. ASSUME SecretInv PROVE CredentialsAvailable
  <2>1. CASE Uncommitted
    BY <1>1, <2>1 DEF SecretInv, SlotInv, PendingInv, CredentialsAvailable, Outcome
  <2>2. CASE ~Uncommitted
    BY <1>1, <2>2 DEF SecretInv, SlotInv, SettledInv, CredentialsAvailable, Outcome
  <2>. QED BY <2>1, <2>2
<1>. QED BY <1>1, SlotsAccounted, PTL

(* Under the same condition, no protected slot is forgotten: each is in     *)
(* use, in the cleanup queue, or named by the journal of the recovery that  *)
(* removes it (record_credential_creation).                                 *)
THEOREM NoSecretEverLeaks ==
  ASSUME "credential" \notin LateEdits
  PROVE  Spec => []NoLeakedSecret
<1>1. ASSUME SecretInv PROVE NoLeakedSecret
  <2>1. CASE Uncommitted
    <3>1. /\ Outcome.refs = journal.refs /\ Outcome.queue = journal.queue /\ journal # None
          /\ slots \subseteq Live(journal.refs) \cup journal.queue \cup journal.created
      BY <1>1, <2>1 DEF SecretInv, SlotInv, PendingInv, Outcome, Uncommitted
    <3>. QED BY <2>1, <3>1 DEF NoLeakedSecret
  <2>2. CASE ~Uncommitted
    <3>1. /\ Outcome.refs = refs /\ Outcome.queue = queue
          /\ slots \subseteq Live(refs) \cup queue
               \cup (IF journal = None THEN {} ELSE journal.stale \cup journal.dropped)
      BY <1>1, <2>2 DEF SecretInv, SlotInv, SettledInv, Outcome
    <3>. QED BY <2>2, <3>1 DEF NoLeakedSecret
  <2>. QED BY <2>1, <2>2
<1>. QED BY <1>1, SlotsAccounted, PTL
=============================================================================
