-------------------------- MODULE CausalSync_proofs --------------------------
(***************************************************************************)
(* Proofs about CausalSync for every finite set of devices and every set   *)
(* of values.  Good says what holds of a table of writes and a document;   *)
(* the operations of SyncReplica keep it, so that it holds of what a       *)
(* device has saved, of its plan, and of every merge of the two with the   *)
(* cloud.  That a field has a candidate whenever it was ever written needs *)
(* an order of the writes, in which a write comes after those it replaces  *)
(* (Ranked).  A device forgets the writes of a dropped plan: nobody else   *)
(* can have them, because what others know of it is in the cloud (Home).   *)
(* The second part is about whole histories: they are closed under what    *)
(* their writes replaced, that of a device nobody has written to is a      *)
(* single line (HistoryInv), and where nothing is in conflict no edit is   *)
(* lost (PreviewInv).                                                      *)
(***************************************************************************)
EXTENDS CausalSync, FiniteSetTheorems, WellFoundedInduction, SequenceTheorems, TLAPS

WriteIds == Devices \X (Nat \ {0})

Writes ==
  [field : {"presence", "name"}, value : Names \cup {"kept", "gone"},
   over : SUBSET WriteIds, base : Configs \cup {"kept"}]

(* The table t has the write i.                                             *)
Known(t, i) == i \in WriteIds /\ i[2] <= Len(t[i[1]])

ValueFits(field, value) ==
  value \in IF field = "name" THEN Names ELSE {"kept", "gone"}

TableType(t) ==
  /\ t \in [Devices -> Seq(Writes)]
  /\ \A e \in Devices : \A k \in 1 .. Len(t[e]) : ValueFits(t[e][k].field, t[e][k].value)

(* Writes can be ordered so that each comes after those it replaces, which  *)
(* are writes of the same field.                                            *)
RankedBy(t, rank, top) ==
  \A e \in Devices : \A k \in 1 .. Len(t[e]) :
    /\ rank[<<e, k>>] <= top
    /\ \A i \in t[e][k].over :
         /\ Known(t, i) /\ rank[i] < rank[<<e, k>>]
         /\ t[i[1]][i[2]].field = t[e][k].field

Ranked(t) == \E rank \in [WriteIds -> Nat], top \in Nat : RankedBy(t, rank, top)

(* The write i is in a snapshot that its device has put in the cloud cl.     *)
Home(cl, i) == \E n \in 1 .. Len(cl[i[1]]) : i \in cl[i[1]][n]

OverHome(cl, t) ==
  \A e \in Devices : \A k \in 1 .. Len(t[e]) : \A i \in t[e][k].over :
    IF i[1] = e THEN i[2] < k ELSE Home(cl, i)

Sighted(t) ==
  \A e \in Devices : \A k \in 1 .. Len(t[e]) :
    t[e][k].base # Absent
      => \A i \in t[e][k].over : t[i[1]][i[2]].value = t[e][k].base

GoodTable(cl, t) == TableType(t) /\ Ranked(t) /\ OverHome(cl, t) /\ Sighted(t)

GoodDoc(cl, t, doc, d) ==
  /\ \A i \in doc : Known(t, i)
  /\ \A i \in doc : i[1] # d => Home(cl, i)

Good(cl, r, d) == GoodTable(cl, r.table) /\ GoodDoc(cl, r.table, r.doc, d)

(* A record that has a name has a presence.                                 *)
HasPresence(r) == \E i \in r.doc : WriteOf(r, i).field = "presence"

Present(r) == (\E i \in r.doc : WriteOf(r, i).field = "name") => HasPresence(r)

Baseline(r, config_) ==
  LET presence == CandidateValues(r, "presence")
      names == CandidateValues(r, "name") IN
  /\ presence = {"gone"} => config_ = Absent
  /\ presence = {"kept"} /\ Cardinality(names) = 1 => config_ \in names

Sane(cl, r, d, config_) == Good(cl, r, d) /\ Present(r) /\ Baseline(r, config_)

Planned(d) == [table |-> writes, doc |-> plan[d].doc]

Choices ==
  {c \in [field : {"presence", "name"}, value : Names \cup {"kept", "gone"},
          over : SUBSET WriteIds] : ValueFits(c.field, c.value) /\ c.over # {}}

Plans ==
  [front : {"desktop", "command"}, direction : SyncDirection, doc : SUBSET WriteIds,
   effective : Configs, seen : [Devices -> Nat], choice : Choices \cup {Absent}]

Types ==
  /\ writes \in [Devices -> Seq(Writes)]
  /\ config \in [Devices -> Configs] /\ effective \in [Devices -> Configs]
  /\ document \in [Devices -> SUBSET WriteIds]
  /\ sequence \in [Devices -> Nat \ {0}]
  /\ pending \in [Devices -> SUBSET (SUBSET WriteIds)]
  /\ published \in [Devices -> SUBSET (SUBSET WriteIds)]
  /\ observed \in [Devices -> [Devices -> Nat]]
  /\ cloud \in [Devices -> Seq(SUBSET WriteIds)]
  /\ phase \in [Devices -> {"idle", "planned", "applied", "uploaded"}]
  /\ plan \in [Devices -> Plans \cup {NoPlan}]
  /\ decisions \in 0 .. MaxDecisions

(* The devices and their plans.                                             *)
PlanFits(d) ==
  /\ plan[d] \in Plans
  /\ Sane(cloud, Planned(d), d, plan[d].effective)
  /\ document[d] \subseteq plan[d].doc
  /\ \A w \in Devices : plan[d].seen[w] <= Len(cloud[w])
  /\ plan[d].direction = "Download" => HasRemote(plan[d].seen)

DeviceInv ==
  \A d \in Devices :
    /\ Sane(cloud, Replica(d), d, effective[d])
    /\ IF phase[d] = "planned" THEN PlanFits(d) ELSE plan[d] = NoPlan

(* What a device has published, or is about to.                             *)
SnapshotsFit(d) ==
  \A n \in 1 .. Len(cloud[d]) :
    cloud[d][n] \subseteq document[d] /\ Present([table |-> writes, doc |-> cloud[d][n]])

StagedFits(d) ==
  /\ pending[d] = {} => Len(cloud[d]) = sequence[d] - 1
  /\ pending[d] # {} =>
       /\ sequence[d] > 1
       /\ Len(cloud[d]) \in {sequence[d] - 2, sequence[d] - 1}
       /\ \E s \in SUBSET document[d] :
            /\ pending[d] = {s} /\ Present([table |-> writes, doc |-> s])
            /\ Len(cloud[d]) = sequence[d] - 1 => cloud[d][sequence[d] - 1] = s
  /\ phase[d] = "uploaded" => pending[d] # {} /\ Len(cloud[d]) = sequence[d] - 1

PublishedFits(d) ==
  published[d] # {} => ~FirstSync(d) /\ \A s \in published[d] : s \subseteq document[d]

CloudInv == \A d \in Devices : SnapshotsFit(d) /\ StagedFits(d) /\ PublishedFits(d)

ObservedInv ==
  \A d, w \in Devices :
    /\ observed[d][w] <= Len(cloud[w])
    /\ observed[d][w] > 0 => cloud[w][observed[d][w]] \subseteq document[d]

Inv == Types /\ DeviceInv /\ CloudInv /\ ObservedInv

-----------------------------------------------------------------------------
(* Finite sets.                                                             *)

(* A finite set of numbers has a greatest one.                              *)
LEMMA GreatestExists ==
  ASSUME NEW S \in SUBSET Nat, IsFiniteSet(S), S # {}
  PROVE  \E m \in S : \A x \in S : x <= m
<1>. DEFINE Above(s) == {x \in S : s <= x}
            T == {Above(s) : s \in S}
<1>1. IsWellFoundedOn(StrictSubsetOrdering(S), SUBSET S)
  BY FS_StrictSubsetOrderingWellFounded, FS_FiniteSubsetsOfFinite
<1>2. T \subseteq SUBSET S /\ T # {}
  OBVIOUS
<1>3. PICK U \in T : \A V \in T : <<V, U>> \notin StrictSubsetOrdering(S)
  <2>. HIDE DEF T
  <2>. QED BY <1>1, <1>2, WFMin
<1>4. PICK m \in S : U = Above(m)
  BY <1>3
<1>5. ASSUME NEW x \in S, m < x PROVE FALSE
  <2>1. Above(x) \in T
    OBVIOUS
  <2>2. Above(x) \subseteq Above(m) /\ m \in Above(m) /\ m \notin Above(x)
    <3>1. \A y \in S : y \in Nat
      OBVIOUS
    <3>2. \A y \in S : x <= y => m <= y
      BY <1>5, <3>1
    <3>3. m <= m /\ ~(x <= m)
      BY <1>5, <3>1
    <3>. QED BY <3>2, <3>3
  <2>3. <<Above(x), Above(m)>> \in StrictSubsetOrdering(S)
    BY <2>2 DEF StrictSubsetOrdering
  <2>. QED BY <1>3, <1>4, <2>1, <2>3
<1>. QED BY <1>5

LEMMA SmallCardinality ==
  ASSUME NEW S, IsFiniteSet(S)
  PROVE  /\ Cardinality(S) = 1 <=> \E x : S = {x}
         /\ Cardinality(S) > 1 <=> \E x, y \in S : x # y
         /\ Cardinality(S) \in Nat
<1>1. Cardinality(S) \in Nat
  BY FS_CardinalityType
<1>2. Cardinality(S) = 0 <=> S = {}
  BY FS_EmptySet
<1>3. Cardinality(S) = 1 <=> \E x : S = {x}
  BY FS_Singleton
<1>4. ASSUME Cardinality(S) > 1 PROVE \E x, y \in S : x # y
  <2>1. PICK x \in S : TRUE
    BY <1>1, <1>2, <1>4
  <2>2. S # {x}
    BY <1>3, <1>4
  <2>. QED BY <2>1, <2>2
<1>5. ASSUME NEW x \in S, NEW y \in S, x # y PROVE Cardinality(S) > 1
  <2>1. Cardinality(S) # 0
    BY <1>2
  <2>2. Cardinality(S) # 1
    BY <1>3, <1>5
  <2>. QED BY <1>1, <2>1, <2>2
<1>. QED BY <1>1, <1>3, <1>4, <1>5

-----------------------------------------------------------------------------
(* Candidates.                                                              *)

LEMMA KnownIsFinite ==
  ASSUME NEW t, TableType(t), NEW doc, \A i \in doc : Known(t, i)
  PROVE  IsFiniteSet(doc)
<1>. DEFINE ids(e) == {e} \X (1 .. Len(t[e]))
            f == [e \in Devices |-> ids(e)]
            T == {ids(e) : e \in Devices}
<1>1. \A e \in Devices : Len(t[e]) \in Nat
  BY DEF TableType
<1>2. \A e \in Devices : IsFiniteSet(ids(e))
  <2>. TAKE e \in Devices
  <2>1. IsFiniteSet({e})
    BY FS_Singleton, Zenon
  <2>2. 1 \in Int /\ Len(t[e]) \in Int
    BY <1>1
  <2>3. IsFiniteSet(1 .. Len(t[e]))
    BY <2>2, FS_Interval, Zenon
  <2>. QED BY <2>1, <2>3, FS_Product, Zenon
<1>3. IsFiniteSet(T)
  <2>1. f \in Surjection(Devices, T)
    BY DEF Surjection
  <2>. QED BY <2>1, FS_Surjection, CausalSyncAssumption
<1>4. IsFiniteSet(UNION T)
  BY <1>2, <1>3, FS_UNION
<1>5. doc \subseteq UNION T
  <2>. SUFFICES ASSUME NEW i \in doc PROVE i \in ids(i[1]) /\ i[1] \in Devices
    OBVIOUS
  <2>1. i \in WriteIds /\ i[2] <= Len(t[i[1]])
    BY DEF Known
  <2>. QED BY <2>1, <1>1 DEF WriteIds
<1>. QED BY <1>4, <1>5, FS_Subset

LEMMA ValuesAreFinite ==
  ASSUME NEW r, TableType(r.table), \A i \in r.doc : Known(r.table, i), NEW field
  PROVE  IsFiniteSet(CandidateValues(r, field))
<1>. DEFINE C == Candidates(r, field)
            V == CandidateValues(r, field)
            f == [i \in C |-> WriteOf(r, i).value]
<1>1. IsFiniteSet(C)
  <2>1. C \subseteq r.doc
    BY DEF Candidates
  <2>2. IsFiniteSet(r.doc)
    BY KnownIsFinite
  <2>. QED BY <2>1, <2>2, FS_Subset
<1>2. f \in Surjection(C, V)
  BY DEF Surjection, CandidateValues
<1>. QED BY <1>1, <1>2, FS_Surjection

(* A field that was ever written has a candidate.                           *)
LEMMA CandidateExists ==
  ASSUME NEW r, TableType(r.table), Ranked(r.table), \A i \in r.doc : Known(r.table, i),
         NEW w \in r.doc
  PROVE  CandidateValues(r, WriteOf(r, w).field) # {}
<1>. DEFINE field == WriteOf(r, w).field
            D == {i \in r.doc : WriteOf(r, i).field = field}
<1>1. PICK rank \in [WriteIds -> Nat], top \in Nat : RankedBy(r.table, rank, top)
  BY DEF Ranked
<1>. DEFINE R == {rank[i] : i \in D}
<1>2. \A i \in D : i \in WriteIds /\ rank[i] \in Nat
  BY DEF Known
<1>3. PICK m \in R : \A x \in R : x <= m
  <2>1. IsFiniteSet(D)
    BY KnownIsFinite
  <2>2. [i \in D |-> rank[i]] \in Surjection(D, R)
    BY DEF Surjection
  <2>3. IsFiniteSet(R)
    BY <2>1, <2>2, FS_Surjection
  <2>4. R # {} /\ R \in SUBSET Nat
    BY <1>2
  <2>. HIDE DEF R
  <2>. QED BY <2>3, <2>4, GreatestExists
<1>4. PICK i \in D : m = rank[i]
  BY <1>3
<1>5. ASSUME NEW j \in r.doc, i \in WriteOf(r, j).over PROVE FALSE
  <2>1. j \in WriteIds /\ j[1] \in Devices /\ j[2] \in 1 .. Len(r.table[j[1]])
    BY DEF Known, WriteIds, TableType
  <2>2. j = <<j[1], j[2]>>
    BY <2>1 DEF WriteIds
  <2>3. rank[i] < rank[j] /\ r.table[i[1]][i[2]].field = r.table[j[1]][j[2]].field
    BY <1>1, <1>5, <2>1, <2>2 DEF RankedBy, WriteOf
  <2>4. j \in D
    BY <2>3 DEF WriteOf
  <2>. QED BY <1>2, <1>3, <1>4, <2>3, <2>4
<1>6. i \in Candidates(r, field)
  BY <1>5 DEF Candidates
<1>. QED BY <1>6 DEF CandidateValues

-----------------------------------------------------------------------------
(* The operations of SyncReplica.                                           *)

(* The table u is t and some more writes of d.                              *)
Extends(t, u, d) ==
  /\ \A e \in Devices \ {d} : u[e] = t[e]
  /\ Len(t[d]) <= Len(u[d])
  /\ \A k \in 1 .. Len(t[d]) : u[d][k] = t[d][k]

LEMMA ExtendsKnown ==
  ASSUME NEW t, NEW u, NEW d \in Devices, TableType(t), TableType(u), Extends(t, u, d),
         NEW i, Known(t, i)
  PROVE  Known(u, i) /\ u[i[1]][i[2]] = t[i[1]][i[2]]
<1>1. i[1] \in Devices /\ i[2] \in Nat \ {0} /\ i[2] <= Len(t[i[1]])
  BY DEF Known, WriteIds
<1>2. Len(t[d]) \in Nat /\ Len(u[d]) \in Nat
  BY DEF TableType
<1>3. CASE i[1] = d
  BY <1>1, <1>2, <1>3 DEF Extends, Known
<1>4. CASE i[1] # d
  BY <1>1, <1>4 DEF Extends, Known
<1>. QED BY <1>3, <1>4

LEMMA ExtendsTransitive ==
  ASSUME NEW t, NEW u, NEW v, NEW d \in Devices, TableType(t), TableType(u), TableType(v),
         Extends(t, u, d), Extends(u, v, d)
  PROVE  Extends(t, v, d)
<1>1. Len(t[d]) \in Nat /\ Len(u[d]) \in Nat /\ Len(v[d]) \in Nat
  BY DEF TableType
<1>. QED BY <1>1 DEF Extends

(* What is read of a document depends on its own writes only.               *)
LEMMA SameValues ==
  ASSUME NEW r, NEW s, s.doc = r.doc, \A i \in r.doc : WriteOf(s, i) = WriteOf(r, i),
         NEW field
  PROVE  CandidateValues(s, field) = CandidateValues(r, field)
<1>1. Candidates(s, field) = Candidates(r, field)
  BY DEF Candidates
<1>2. Candidates(r, field) \subseteq r.doc
  BY DEF Candidates
<1>. QED BY <1>1, <1>2 DEF CandidateValues

LEMMA SameBaseline ==
  ASSUME NEW r, NEW s, s.doc = r.doc, \A i \in r.doc : WriteOf(s, i) = WriteOf(r, i),
         Present(r), NEW c, Baseline(r, c)
  PROVE  Present(s) /\ Baseline(s, c)
<1>1. CandidateValues(s, "presence") = CandidateValues(r, "presence")
  BY SameValues
<1>2. CandidateValues(s, "name") = CandidateValues(r, "name")
  BY SameValues
<1>. QED BY <1>1, <1>2 DEF Baseline, Present, HasPresence

LEMMA GoodDocType ==
  ASSUME NEW cl, NEW r, NEW d \in Devices, Good(cl, r, d)
  PROVE  /\ TableType(r.table) /\ Ranked(r.table) /\ r.doc \subseteq WriteIds
         /\ \A i \in r.doc : Known(r.table, i)
  BY DEF Good, GoodTable, GoodDoc, Known

LEMMA CandidateType ==
  ASSUME NEW cl, NEW r, NEW d \in Devices, Good(cl, r, d), NEW field
  PROVE  \A i \in Candidates(r, field) :
           /\ i \in r.doc /\ Known(r.table, i)
           /\ WriteOf(r, i).field = field /\ ValueFits(field, WriteOf(r, i).value)
<1>. TAKE i \in Candidates(r, field)
<1>1. i \in r.doc /\ Known(r.table, i) /\ WriteOf(r, i).field = field
  BY GoodDocType DEF Candidates
<1>2. i[1] \in Devices /\ i[2] \in 1 .. Len(r.table[i[1]])
  BY <1>1, GoodDocType DEF Known, WriteIds, TableType
<1>3. ValueFits(WriteOf(r, i).field, WriteOf(r, i).value)
  BY <1>2, GoodDocType DEF TableType, WriteOf
<1>. QED BY <1>1, <1>3

LEMMA PresenceValues ==
  ASSUME NEW cl, NEW r, NEW d \in Devices, Good(cl, r, d)
  PROVE  /\ CandidateValues(r, "presence") \subseteq {"kept", "gone"}
         /\ CandidateValues(r, "name") \subseteq Names
<1>1. \A i \in Candidates(r, "presence") : WriteOf(r, i).value \in {"kept", "gone"}
  BY CandidateType DEF ValueFits
<1>2. \A i \in Candidates(r, "name") : WriteOf(r, i).value \in Names
  BY CandidateType DEF ValueFits
<1>. QED BY <1>1, <1>2 DEF CandidateValues

(* A new write is the only candidate of its field, and the candidates of    *)
(* the other field stay.                                                    *)
LEMMA PutSteps ==
  ASSUME NEW cl, NEW r, NEW d \in Devices, Good(cl, r, d),
         NEW field \in {"presence", "name"}, NEW value, ValueFits(field, value),
         NEW base \in Configs \cup {"kept"},
         base # Absent => \A i \in Candidates(r, field) : WriteOf(r, i).value = base,
         NEW s, s = Put(r, d, field, value, base)
  PROVE  /\ Good(cl, s, d) /\ Extends(r.table, s.table, d)
         /\ r.doc \subseteq s.doc
         /\ \A i \in r.doc : WriteOf(s, i) = WriteOf(r, i)
         /\ field = "presence" \/ HasPresence(r) => HasPresence(s)
         /\ CandidateValues(s, field) = {value}
         /\ \A other \in {"presence", "name"} \ {field} :
              CandidateValues(s, other) = CandidateValues(r, other)
<1>. DEFINE t == r.table
            C == Candidates(r, field)
            w == [field |-> field, value |-> value, over |-> C, base |-> base]
            u == s.table
            l == Len(t[d])
            n == <<d, l + 1>>
<1>1. /\ TableType(t) /\ r.doc \subseteq WriteIds /\ l \in Nat
      /\ \A i \in r.doc : Known(t, i)
  BY GoodDocType DEF TableType
<1>2. C \subseteq r.doc /\ \A i \in C : Known(t, i) /\ t[i[1]][i[2]].field = field
  BY CandidateType DEF WriteOf
<1>3. w \in Writes
  BY <1>1, <1>2 DEF Writes, ValueFits
<1>4. u = [t EXCEPT ![d] = Append(@, w)] /\ s.doc = r.doc \cup {n}
  BY DEF Put
<1>5. /\ u \in [Devices -> Seq(Writes)] /\ Len(u[d]) = l + 1 /\ u[d][l + 1] = w
      /\ \A k \in 1 .. l : u[d][k] = t[d][k]
      /\ \A e \in Devices \ {d} : u[e] = t[e]
  <2>. HIDE DEF w
  <2>. QED BY <1>1, <1>3, <1>4 DEF TableType
<1>6. Extends(t, u, d)
  BY <1>1, <1>5 DEF Extends
<1>7. TableType(u)
  <2>. SUFFICES ASSUME NEW e \in Devices, NEW k \in 1 .. Len(u[e])
                PROVE  ValueFits(u[e][k].field, u[e][k].value)
    BY <1>5 DEF TableType
  <2>1. CASE e = d /\ k = l + 1
    <3>1. u[e][k] = w
      BY <1>5, <2>1
    <3>2. w.field = field /\ w.value = value
      OBVIOUS
    <3>. HIDE DEF w, u
    <3>3. u[e][k].field = field /\ u[e][k].value = value
      BY <3>1, <3>2, Zenon
    <3>. QED BY <3>3, Zenon
  <2>2. CASE e = d /\ k # l + 1
    <3>1. k \in 1 .. Len(t[e]) /\ u[e][k] = t[e][k]
      BY <1>1, <1>5, <2>2
    <3>2. ValueFits(t[e][k].field, t[e][k].value)
      BY <1>1, <3>1 DEF TableType
    <3>. HIDE DEF t, u
    <3>. QED BY <3>1, <3>2, Zenon
  <2>3. CASE e # d
    BY <1>1, <1>5, <2>3 DEF TableType
  <2>. QED BY <2>1, <2>2, <2>3
<1>8. \A i : Known(t, i) => Known(u, i) /\ u[i[1]][i[2]] = t[i[1]][i[2]] /\ i # n
  <2>1. ~Known(t, n)
    BY <1>1 DEF Known
  <2>. QED BY <1>1, <1>6, <1>7, <2>1, ExtendsKnown
<1>9. n \in WriteIds /\ Known(u, n) /\ WriteOf(s, n) = w
  BY <1>1, <1>5 DEF Known, WriteIds, WriteOf
(* A write of u is the new one or one of t.                                 *)
<1>10. \A e \in Devices : \A k \in 1 .. Len(u[e]) :
         \/ e = d /\ k = l + 1 /\ u[e][k] = w
         \/ k \in 1 .. Len(t[e]) /\ u[e][k] = t[e][k] /\ <<e, k>> # n
  <2>. TAKE e \in Devices
  <2>. TAKE k \in 1 .. Len(u[e])
  <2>1. CASE e = d
    BY <1>1, <1>5, <2>1
  <2>2. CASE e # d
    BY <1>5, <2>2
  <2>. QED BY <2>1, <2>2
<1>. HIDE DEF w, u, n
<1>11. w.field = field /\ w.value = value /\ w.over = C /\ w.base = base
  BY DEF w
<1>12. Ranked(u)
  <2>1. PICK rank \in [WriteIds -> Nat], top \in Nat : RankedBy(t, rank, top)
    BY GoodDocType DEF Ranked
  <2>. DEFINE rank2 == [rank EXCEPT ![n] = top + 1]
  <2>2. rank2 \in [WriteIds -> Nat] /\ rank2[n] = top + 1
    BY <1>9
  <2>3. \A i \in WriteIds : i # n => rank2[i] = rank[i]
    BY <1>9
  <2>4. \A i : Known(t, i) => rank[i] <= top
    <3>. SUFFICES ASSUME NEW i, Known(t, i) PROVE rank[i] <= top
      OBVIOUS
    <3>1. i[1] \in Devices /\ i[2] \in 1 .. Len(t[i[1]]) /\ i = <<i[1], i[2]>>
      BY <1>1 DEF Known, WriteIds, TableType
    <3>. QED BY <2>1, <3>1 DEF RankedBy
  <2>. HIDE DEF rank2
  <2>5. RankedBy(u, rank2, top + 1)
    <3>. SUFFICES ASSUME NEW e \in Devices, NEW k \in 1 .. Len(u[e])
                  PROVE  /\ rank2[<<e, k>>] <= top + 1
                         /\ \A i \in u[e][k].over :
                              /\ Known(u, i) /\ rank2[i] < rank2[<<e, k>>]
                              /\ u[i[1]][i[2]].field = u[e][k].field
      BY DEF RankedBy
    <3>1. CASE e = d /\ k = l + 1 /\ u[e][k] = w
      <4>1. <<e, k>> = n
        BY <3>1 DEF n
      <4>. SUFFICES ASSUME NEW i \in C
                    PROVE  /\ Known(u, i) /\ rank2[i] < top + 1
                           /\ u[i[1]][i[2]].field = field
        <5>1. rank2[<<e, k>>] = top + 1
          BY <2>2, <4>1, Zenon
        <5>3. top + 1 <= top + 1
          OBVIOUS
        <5>2. u[e][k].over = C /\ u[e][k].field = field
          BY <1>11, <3>1
        <5>. QED BY <5>1, <5>2, <5>3, Zenon
      <4>2. Known(t, i) /\ t[i[1]][i[2]].field = field
        BY <1>2
      <4>3. Known(u, i) /\ u[i[1]][i[2]] = t[i[1]][i[2]] /\ i # n /\ i \in WriteIds
        BY <1>8, <4>2 DEF Known
      <4>4. rank2[i] = rank[i] /\ rank[i] <= top /\ rank[i] \in Nat
        BY <2>3, <2>4, <4>2, <4>3
      <4>. QED BY <4>2, <4>3, <4>4
    <3>2. CASE k \in 1 .. Len(t[e]) /\ u[e][k] = t[e][k] /\ <<e, k>> # n
      <4>1. <<e, k>> \in WriteIds
        BY DEF WriteIds
      <4>2. rank2[<<e, k>>] = rank[<<e, k>>] /\ rank[<<e, k>>] \in Nat
        BY <2>3, <3>2, <4>1
      <4>3. rank[<<e, k>>] <= top
        BY <2>1, <3>2 DEF RankedBy
      <4>4. ASSUME NEW i \in u[e][k].over
            PROVE  /\ Known(u, i) /\ rank2[i] < rank2[<<e, k>>]
                   /\ u[i[1]][i[2]].field = u[e][k].field
        <5>1. Known(t, i) /\ rank[i] < rank[<<e, k>>] /\ t[i[1]][i[2]].field = t[e][k].field
          BY <2>1, <3>2, <4>4 DEF RankedBy
        <5>2. Known(u, i) /\ u[i[1]][i[2]] = t[i[1]][i[2]] /\ i # n /\ i \in WriteIds
          BY <1>8, <5>1 DEF Known
        <5>. QED BY <2>3, <3>2, <4>2, <5>1, <5>2
      <4>. QED BY <4>2, <4>3, <4>4
    <3>. QED BY <1>10, <3>1, <3>2
  <2>. QED BY <2>2, <2>5 DEF Ranked
<1>13. OverHome(cl, u)
  <2>. SUFFICES ASSUME NEW e \in Devices, NEW k \in 1 .. Len(u[e]), NEW i \in u[e][k].over
                PROVE  IF i[1] = e THEN i[2] < k ELSE Home(cl, i)
    BY DEF OverHome
  <2>1. CASE e = d /\ k = l + 1 /\ u[e][k] = w
    <3>1. i \in r.doc /\ Known(t, i)
      BY <1>2, <1>11, <2>1
    <3>2. i[1] # d => Home(cl, i)
      BY <3>1 DEF Good, GoodDoc
    <3>3. i[1] = d => i[2] < l + 1
      BY <1>1, <3>1 DEF Known, WriteIds
    <3>. QED BY <2>1, <3>2, <3>3
  <2>2. CASE k \in 1 .. Len(t[e]) /\ u[e][k] = t[e][k] /\ <<e, k>> # n
    BY <2>2 DEF Good, GoodTable, OverHome
  <2>. QED BY <1>10, <2>1, <2>2
<1>14. Sighted(u)
  <2>. SUFFICES ASSUME NEW e \in Devices, NEW k \in 1 .. Len(u[e]), u[e][k].base # Absent,
                       NEW i \in u[e][k].over
                PROVE  u[i[1]][i[2]].value = u[e][k].base
    BY DEF Sighted
  <2>1. CASE e = d /\ k = l + 1 /\ u[e][k] = w
    <3>1. i \in C /\ Known(t, i)
      BY <1>2, <1>11, <2>1
    <3>2. WriteOf(r, i).value = base
      BY <1>11, <2>1, <3>1
    <3>. QED BY <1>8, <1>11, <2>1, <3>1, <3>2 DEF WriteOf
  <2>2. CASE k \in 1 .. Len(t[e]) /\ u[e][k] = t[e][k] /\ <<e, k>> # n
    <3>1. t[i[1]][i[2]].value = t[e][k].base
      BY <2>2 DEF Good, GoodTable, Sighted
    <3>2. Known(t, i)
      BY <2>2, GoodDocType DEF Ranked, RankedBy
    <3>. QED BY <1>8, <2>2, <3>1, <3>2
  <2>. QED BY <1>10, <2>1, <2>2
<1>15. GoodDoc(cl, u, s.doc, d)
  <2>1. \A i \in s.doc : Known(u, i)
    BY <1>1, <1>4, <1>8, <1>9
  <2>2. \A i \in r.doc : i[1] # d => Home(cl, i)
    BY DEF Good, GoodDoc
  <2>3. n[1] = d
    BY DEF n
  <2>. QED BY <1>4, <2>1, <2>2, <2>3 DEF GoodDoc
<1>16. Good(cl, s, d)
  BY <1>7, <1>12, <1>13, <1>14, <1>15 DEF Good, GoodTable, u
<1>17. \A i \in r.doc : WriteOf(s, i) = WriteOf(r, i) /\ i # n
  BY <1>1, <1>8 DEF WriteOf, u
<1>18. \A j \in r.doc : n \notin WriteOf(s, j).over
  <2>. SUFFICES ASSUME NEW j \in r.doc, n \in WriteOf(r, j).over PROVE FALSE
    BY <1>17
  <2>1. j[1] \in Devices /\ j[2] \in 1 .. Len(t[j[1]])
    BY <1>1 DEF Known, WriteIds, TableType
  <2>2. Known(t, n)
    BY <2>1, GoodDocType DEF Ranked, RankedBy, WriteOf
  <2>. QED BY <1>8, <2>2
<1>19. n \notin C
  BY <1>2, <1>17
<1>20. Candidates(s, field) = {n}
  <2>1. n \in Candidates(s, field)
    BY <1>4, <1>9, <1>11, <1>18, <1>19 DEF Candidates
  <2>2. ASSUME NEW i \in Candidates(s, field), i # n PROVE FALSE
    <3>1. i \in r.doc /\ WriteOf(s, i).field = field
      BY <1>4, <2>2 DEF Candidates
    <3>2. \A j \in s.doc : i \notin WriteOf(s, j).over
      BY DEF Candidates
    <3>3. i \notin C
      BY <1>4, <1>9, <1>11, <3>2
    <3>4. \A j \in r.doc : i \notin WriteOf(r, j).over
      BY <1>4, <1>17, <3>2
    <3>. QED BY <1>17, <3>1, <3>3, <3>4 DEF Candidates
  <2>. QED BY <2>1, <2>2
<1>21. CandidateValues(s, field) = {value}
  BY <1>9, <1>11, <1>20 DEF CandidateValues
<1>22. ASSUME NEW other \in {"presence", "name"} \ {field}
       PROVE  CandidateValues(s, other) = CandidateValues(r, other)
  <2>1. ASSUME NEW i \in Candidates(s, other) PROVE i \in Candidates(r, other)
    <3>1. i \in r.doc
      BY <1>4, <1>9, <1>11 DEF Candidates
    <3>. QED BY <1>4, <1>17, <3>1 DEF Candidates
  <2>2. ASSUME NEW i \in Candidates(r, other) PROVE i \in Candidates(s, other)
    <3>1. i \in r.doc /\ WriteOf(r, i).field = other /\ i \notin C
      BY <1>2, CandidateType DEF WriteOf
    <3>2. \A j \in r.doc : i \notin WriteOf(s, j).over
      BY <1>17 DEF Candidates
    <3>. QED BY <1>4, <1>9, <1>11, <1>17, <3>1, <3>2 DEF Candidates
  <2>3. Candidates(s, other) = Candidates(r, other)
    BY <2>1, <2>2
  <2>4. Candidates(r, other) \subseteq r.doc
    BY DEF Candidates
  <2>. QED BY <1>17, <2>3, <2>4 DEF CandidateValues
<1>23. field = "presence" \/ HasPresence(r) => HasPresence(s)
  BY <1>4, <1>9, <1>11, <1>17 DEF HasPresence
<1>. QED BY <1>4, <1>6, <1>16, <1>17, <1>21, <1>22, <1>23 DEF u

(* s is r after some writes of d.                                           *)
Grown(cl, r, s, d) ==
  /\ Good(cl, s, d) /\ Present(s)
  /\ Extends(r.table, s.table, d) /\ r.doc \subseteq s.doc

LEMMA ExtendsItself ==
  ASSUME NEW cl, NEW r, NEW d \in Devices, Good(cl, r, d)
  PROVE  Extends(r.table, r.table, d)
<1>1. Len(r.table[d]) \in Nat
  BY GoodDocType DEF TableType
<1>. QED BY <1>1 DEF Extends

LEMMA GrownTransitive ==
  ASSUME NEW cl, NEW r, NEW s, NEW u, NEW d \in Devices, Good(cl, r, d), Good(cl, s, d),
         Extends(r.table, s.table, d), r.doc \subseteq s.doc, Grown(cl, s, u, d)
  PROVE  Grown(cl, r, u, d)
<1>1. TableType(r.table) /\ TableType(s.table) /\ TableType(u.table)
  BY GoodDocType DEF Grown
<1>2. Extends(r.table, u.table, d)
  BY <1>1, ExtendsTransitive DEF Grown
<1>. QED BY <1>2 DEF Grown

LEMMA CardinalitySingleton == \A x : Cardinality({x}) = 1
  BY FS_Singleton, Zenon

(* What a replica materializes is a baseline for it.                        *)
LEMMA MaterializeSteps ==
  ASSUME NEW cl, NEW r, NEW d \in Devices, Good(cl, r, d), NEW local \in Configs
  PROVE  /\ Materialize(r, local) \in Configs
         /\ Baseline(r, Materialize(r, local))
<1>. DEFINE presence == CandidateValues(r, "presence")
            names == CandidateValues(r, "name")
<1>1. names \subseteq Names
  BY PresenceValues
<1>2. Cardinality(names) = 1 => names # {}
  BY FS_EmptySet
<1>3. Cardinality({"gone"}) = 1 /\ Cardinality({"kept"}) = 1
  BY CardinalitySingleton
<1>. HIDE DEF presence, names
<1>. DEFINE result == CASE Cardinality(presence) # 1 -> local
                        [] presence = {"gone"} -> Absent
                        [] presence = {"kept"} /\ Cardinality(names) = 1
                             -> CHOOSE n \in names : TRUE
                        [] OTHER -> local
<1>4. Materialize(r, local) = result
  BY DEF Materialize, presence, names
<1>5. CASE Cardinality(presence) # 1
  <2>1. result = local /\ presence # {"gone"} /\ presence # {"kept"}
    BY <1>3, <1>5
  <2>. QED BY <1>4, <2>1 DEF Baseline, presence
<1>6. CASE presence = {"gone"}
  <2>1. result = Absent /\ presence # {"kept"}
    BY <1>3, <1>6
  <2>. QED BY <1>4, <2>1 DEF Baseline, presence, Configs
<1>7. CASE presence = {"kept"} /\ Cardinality(names) = 1
  <2>1. result \in names /\ presence # {"gone"}
    BY <1>2, <1>3, <1>7
  <2>. QED BY <1>1, <1>4, <2>1 DEF Baseline, presence, names, Configs
<1>8. CASE /\ Cardinality(presence) = 1 /\ presence # {"gone"}
           /\ ~(presence = {"kept"} /\ Cardinality(names) = 1)
  <2>1. result = local
    BY <1>8
  <2>. QED BY <1>4, <1>8, <2>1 DEF Baseline, presence, names
<1>. QED BY <1>5, <1>6, <1>7, <1>8

LEMMA ReplaceFieldsSteps ==
  ASSUME NEW cl, NEW r, NEW d \in Devices, Good(cl, r, d), Present(r), NEW values \in Configs,
         NEW s, s = ReplaceFields(r, d, values)
  PROVE  Grown(cl, r, s, d) /\ Baseline(s, values)
<1>1. CASE values # Absent
  <2>. DEFINE first == Put(r, d, "presence", "kept", Absent)
  <2>1. values \in Names /\ ValueFits("name", values) /\ ValueFits("presence", "kept")
    BY <1>1 DEF Configs, ValueFits
  <2>2. Absent \in Configs
    BY DEF Configs
  <2>3. /\ Good(cl, first, d) /\ Extends(r.table, first.table, d) /\ r.doc \subseteq first.doc
        /\ HasPresence(first) /\ CandidateValues(first, "presence") = {"kept"}
    <3>. HIDE DEF first
    <3>1. first = Put(r, d, "presence", "kept", Absent)
      BY DEF first
    <3>. QED BY <2>1, <2>2, <3>1, PutSteps
  <2>. HIDE DEF first
  <2>4. s = Put(first, d, "name", values, Absent)
    BY <1>1 DEF ReplaceFields, first
  <2>5. /\ Good(cl, s, d) /\ Extends(first.table, s.table, d) /\ first.doc \subseteq s.doc
        /\ HasPresence(s) /\ CandidateValues(s, "name") = {values}
        /\ CandidateValues(s, "presence") = CandidateValues(first, "presence")
    BY <2>1, <2>2, <2>3, <2>4, PutSteps
  <2>6. Grown(cl, first, s, d)
    BY <2>5 DEF Grown, Present
  <2>7. Baseline(s, values)
    BY <2>3, <2>5 DEF Baseline
  <2>. QED BY <2>3, <2>6, <2>7, GrownTransitive
<1>2. CASE values = Absent /\ CandidateValues(r, "presence") # {}
  <2>1. ValueFits("presence", "gone") /\ Absent \in Configs
    BY DEF Configs, ValueFits
  <2>2. s = Put(r, d, "presence", "gone", Absent)
    BY <1>2 DEF ReplaceFields
  <2>3. /\ Good(cl, s, d) /\ Extends(r.table, s.table, d) /\ r.doc \subseteq s.doc
        /\ HasPresence(s) /\ CandidateValues(s, "presence") = {"gone"}
    BY <2>1, <2>2, PutSteps
  <2>. QED BY <1>2, <2>3 DEF Grown, Present, Baseline
<1>3. CASE values = Absent /\ CandidateValues(r, "presence") = {}
  <2>1. s = r
    BY <1>3 DEF ReplaceFields
  <2>. QED BY <1>3, <2>1, ExtendsItself DEF Grown, Baseline
<1>. QED BY <1>1, <1>2, <1>3

LEMMA ResolveSteps ==
  ASSUME NEW cl, NEW r, NEW d \in Devices, Good(cl, r, d), Present(r),
         NEW choice \in Choices \cup {Absent},
         choice # Absent => Candidates(r, choice.field) = choice.over,
         NEW s, s = Resolve(r, d, choice)
  PROVE  Grown(cl, r, s, d)
<1>1. CASE choice = Absent
  <2>1. s = r
    BY <1>1 DEF Resolve
  <2>. QED BY <2>1, ExtendsItself DEF Grown
<1>2. CASE choice # Absent
  <2>1. /\ choice.field \in {"presence", "name"} /\ ValueFits(choice.field, choice.value)
        /\ choice.over # {} /\ Absent \in Configs
    BY <1>2 DEF Choices, Configs
  <2>2. s = Put(r, d, choice.field, choice.value, Absent)
    BY <1>2 DEF Resolve
  <2>3. /\ Good(cl, s, d) /\ Extends(r.table, s.table, d) /\ r.doc \subseteq s.doc
        /\ choice.field = "presence" \/ HasPresence(r) => HasPresence(s)
    BY <2>1, <2>2, PutSteps
  <2>4. choice.field = "name" => HasPresence(r)
    BY <1>2, <2>1, CandidateType DEF Present
  <2>. QED BY <2>1, <2>3, <2>4 DEF Grown, Present
<1>. QED BY <1>1, <1>2

LEMMA DisputedValues ==
  ASSUME NEW cl, NEW r, NEW d \in Devices, Good(cl, r, d)
  PROVE  /\ Disputed(r, "presence") <=> CandidateValues(r, "presence") = {"kept", "gone"}
         /\ Disputed(r, "name")
              <=> \E x, y \in CandidateValues(r, "name") : x # y
<1>1. /\ IsFiniteSet(CandidateValues(r, "presence"))
      /\ IsFiniteSet(CandidateValues(r, "name"))
  BY GoodDocType, ValuesAreFinite
<1>2. CandidateValues(r, "presence") \subseteq {"kept", "gone"}
  BY PresenceValues
<1>3. Disputed(r, "presence") <=> \E x, y \in CandidateValues(r, "presence") : x # y
  BY <1>1, SmallCardinality DEF Disputed
<1>4. Disputed(r, "name") <=> \E x, y \in CandidateValues(r, "name") : x # y
  BY <1>1, SmallCardinality DEF Disputed
<1>. QED BY <1>2, <1>3, <1>4

(* The values a user saw: the baseline, where there is no conflict.         *)
LEMMA BaselineSeen ==
  ASSUME NEW cl, NEW r, NEW d \in Devices, NEW baseline \in Configs, Sane(cl, r, d, baseline),
         baseline # Absent, "presence" \notin Conflicts(r)
  PROVE  /\ CandidateValues(r, "presence") \subseteq {"kept"}
         /\ "name" \notin Conflicts(r) => CandidateValues(r, "name") \subseteq {baseline}
<1>. DEFINE presence == CandidateValues(r, "presence")
            names == CandidateValues(r, "name")
<1>1. Good(cl, r, d) /\ Present(r) /\ Baseline(r, baseline)
  BY DEF Sane
<1>2. presence # {"kept", "gone"}
  BY <1>1, DisputedValues DEF Conflicts
<1>3. presence # {"gone"}
  BY <1>1 DEF Baseline
<1>4. presence \subseteq {"kept"}
  BY <1>1, <1>2, <1>3, PresenceValues
<1>5. ASSUME "name" \notin Conflicts(r), NEW x \in names PROVE x = baseline
  <2>1. ~Disputed(r, "name")
    BY <1>1, <1>2, <1>4, <1>5, DisputedValues DEF Conflicts
  <2>2. names = {x}
    BY <1>1, <1>5, <2>1, DisputedValues
  <2>3. PICK i \in r.doc : WriteOf(r, i).field = "name"
    BY <1>1, <1>5, CandidateType DEF CandidateValues
  <2>4. PICK j \in r.doc : WriteOf(r, j).field = "presence"
    BY <1>1, <2>3 DEF Present, HasPresence
  <2>5. presence = {"kept"}
    BY <1>1, <1>4, <2>4, GoodDocType, CandidateExists
  <2>6. baseline \in names
    BY <1>1, <2>2, <2>5, CardinalitySingleton DEF Baseline
  <2>. QED BY <2>2, <2>6
<1>. QED BY <1>4, <1>5

LEMMA CandidateHasValue ==
  ASSUME NEW r, NEW field, NEW value, CandidateValues(r, field) \subseteq {value}
  PROVE  \A i \in Candidates(r, field) : WriteOf(r, i).value = value
  BY DEF CandidateValues

(* A capture writes over the values its user saw, and makes what the user   *)
(* sees the baseline.                                                       *)
LEMMA CaptureSteps ==
  ASSUME NEW cl, NEW r, NEW d \in Devices, NEW baseline \in Configs, Sane(cl, r, d, baseline),
         NEW current \in Configs, NEW s, s = Capture(r, d, baseline, current)
  PROVE  Grown(cl, r, s, d) /\ Baseline(s, current)
<1>0. Good(cl, r, d) /\ Present(r) /\ Baseline(r, baseline)
  BY DEF Sane
<1>1. CASE baseline = current
  <2>1. s = r
    BY <1>1 DEF Capture
  <2>. QED BY <1>0, <1>1, <2>1, ExtendsItself DEF Grown
<1>2. CASE baseline # current /\ "presence" \in Conflicts(r)
  <2>1. s = r
    BY <1>2 DEF Capture
  <2>2. CandidateValues(r, "presence") = {"kept", "gone"}
    BY <1>0, <1>2, DisputedValues DEF Conflicts
  <2>. QED BY <1>0, <2>1, <2>2, ExtendsItself DEF Grown, Baseline
<1>3. CASE baseline # current /\ "presence" \notin Conflicts(r) /\ current = Absent
  <2>1. s = Put(r, d, "presence", "gone", "kept")
    BY <1>3 DEF Capture
  <2>2. \A i \in Candidates(r, "presence") : WriteOf(r, i).value = "kept"
    BY <1>3, BaselineSeen, CandidateHasValue
  <2>3. ValueFits("presence", "gone")
    BY DEF ValueFits
  <2>4. /\ Good(cl, s, d) /\ Extends(r.table, s.table, d) /\ r.doc \subseteq s.doc
        /\ HasPresence(s) /\ CandidateValues(s, "presence") = {"gone"}
    BY <1>0, <2>1, <2>2, <2>3, PutSteps
  <2>. QED BY <1>3, <2>4 DEF Grown, Present, Baseline
<1>4. CASE /\ baseline # current /\ "presence" \notin Conflicts(r) /\ current # Absent
           /\ baseline # Absent /\ "name" \in Conflicts(r)
  <2>1. s = r
    BY <1>4 DEF Capture
  <2>2. "gone" \notin CandidateValues(r, "presence")
    BY <1>4 DEF Conflicts
  <2>3. Cardinality(CandidateValues(r, "name")) > 1
    BY <1>4 DEF Conflicts, Disputed
  <2>4. Cardinality(CandidateValues(r, "name")) # 1
    BY <2>3
  <2>. QED BY <1>0, <2>1, <2>2, <2>4, ExtendsItself DEF Grown, Baseline
<1>5. CASE /\ baseline # current /\ "presence" \notin Conflicts(r) /\ current # Absent
           /\ ~(baseline # Absent /\ "name" \in Conflicts(r))
  <2>. DEFINE named == IF "name" \in Conflicts(r) THEN r
                       ELSE Put(r, d, "name", current, baseline)
              seen == IF baseline = Absent THEN Absent ELSE "kept"
  <2>1. s = Put(named, d, "presence", "kept", seen)
    BY <1>5 DEF Capture
  <2>2. /\ ValueFits("presence", "kept") /\ ValueFits("name", current)
        /\ seen \in Configs \cup {"kept"}
    BY <1>5 DEF ValueFits, Configs
  <2>3. baseline # Absent => \A i \in Candidates(r, "name") : WriteOf(r, i).value = baseline
    BY <1>5, BaselineSeen, CandidateHasValue
  <2>4. /\ Good(cl, named, d) /\ Extends(r.table, named.table, d) /\ r.doc \subseteq named.doc
        /\ CandidateValues(named, "presence") = CandidateValues(r, "presence")
        /\ "name" \notin Conflicts(r) => CandidateValues(named, "name") = {current}
        /\ "name" \in Conflicts(r) => CandidateValues(named, "name") = CandidateValues(r, "name")
    <3>1. CASE "name" \in Conflicts(r)
      BY <1>0, <3>1, ExtendsItself
    <3>2. CASE "name" \notin Conflicts(r)
      <4>1. named = Put(r, d, "name", current, baseline)
        BY <3>2
      <4>. HIDE DEF named
      <4>. QED BY <1>0, <2>2, <2>3, <3>2, <4>1, PutSteps
    <3>. QED BY <3>1, <3>2
  <2>. HIDE DEF named
  <2>5. seen # Absent => \A i \in Candidates(named, "presence") : WriteOf(named, i).value = seen
    <3>. SUFFICES ASSUME baseline # Absent
                  PROVE  \A i \in Candidates(named, "presence") : WriteOf(named, i).value = "kept"
      OBVIOUS
    <3>1. CandidateValues(named, "presence") \subseteq {"kept"}
      BY <1>5, <2>4, BaselineSeen
    <3>. QED BY <3>1, CandidateHasValue
  <2>. HIDE DEF seen
  <2>6. /\ Good(cl, s, d) /\ Extends(named.table, s.table, d) /\ named.doc \subseteq s.doc
        /\ HasPresence(s) /\ CandidateValues(s, "presence") = {"kept"}
        /\ CandidateValues(s, "name") = CandidateValues(named, "name")
    BY <2>1, <2>2, <2>4, <2>5, PutSteps
  <2>7. Grown(cl, r, s, d)
    <3>1. Grown(cl, named, s, d)
      BY <2>6 DEF Grown, Present
    <3>. QED BY <1>0, <2>4, <3>1, GrownTransitive
  <2>8. Baseline(s, current)
    <3>1. CASE "name" \in Conflicts(r)
      <4>1. Cardinality(CandidateValues(s, "name")) > 1
        BY <2>4, <2>6, <3>1 DEF Conflicts, Disputed
      <4>2. Cardinality(CandidateValues(s, "name")) # 1
        BY <4>1
      <4>. QED BY <2>6, <4>2 DEF Baseline
    <3>2. CASE "name" \notin Conflicts(r)
      BY <2>4, <2>6, <3>2 DEF Baseline
    <3>. QED BY <3>1, <3>2
  <2>. QED BY <2>7, <2>8
<1>. QED BY <1>1, <1>2, <1>3, <1>4, <1>5

-----------------------------------------------------------------------------
(* Plans.                                                                   *)

LEMMA KeptDoc ==
  ASSUME NEW cl, NEW t, NEW u, NEW d \in Devices, TableType(t), TableType(u),
         Extends(t, u, d), NEW doc, NEW e, GoodDoc(cl, t, doc, e)
  PROVE  /\ GoodDoc(cl, u, doc, e)
         /\ \A i \in doc : u[i[1]][i[2]] = t[i[1]][i[2]]
  BY ExtendsKnown DEF GoodDoc

LEMMA KeptPresent ==
  ASSUME NEW t, NEW u, NEW doc, \A i \in doc : u[i[1]][i[2]] = t[i[1]][i[2]],
         Present([table |-> t, doc |-> doc])
  PROVE  Present([table |-> u, doc |-> doc])
  BY DEF Present, HasPresence, WriteOf

LEMMA UnionPresent ==
  ASSUME NEW t, NEW a, NEW b, Present([table |-> t, doc |-> a]), Present([table |-> t, doc |-> b])
  PROVE  Present([table |-> t, doc |-> a \cup b])
  BY DEF Present, HasPresence, WriteOf

LEMMA TableOfDevice ==
  ASSUME DeviceInv, NEW d \in Devices
  PROVE  /\ Good(cloud, Replica(d), d) /\ Present(Replica(d))
         /\ GoodTable(cloud, writes) /\ TableType(writes)
         /\ GoodDoc(cloud, writes, document[d], d)
<1>1. Sane(cloud, Replica(d), d, effective[d])
  BY DEF DeviceInv
<1>2. Good(cloud, Replica(d), d) /\ Present(Replica(d))
  BY <1>1 DEF Sane
<1>3. Replica(d).table = writes /\ Replica(d).doc = document[d]
  BY DEF Replica
<1>. QED BY <1>2, <1>3 DEF Good, GoodTable

LEMMA RemoteSteps ==
  ASSUME Inv, NEW d \in Devices, NEW seen \in [Devices -> Nat],
         \A w \in Devices : seen[w] <= Len(cloud[w])
  PROVE  /\ GoodDoc(cloud, writes, RemoteDocument(seen), d)
         /\ Present([table |-> writes, doc |-> RemoteDocument(seen)])
<1>. USE DEF Inv
<1>1. \A w \in Devices : seen[w] > 0 => seen[w] \in 1 .. Len(cloud[w])
  BY DEF Types
<1>2. ASSUME NEW i \in RemoteDocument(seen)
      PROVE  \E w \in Devices : seen[w] > 0 /\ i \in cloud[w][seen[w]]
  BY <1>2 DEF RemoteDocument
<1>3. ASSUME NEW i \in RemoteDocument(seen) PROVE Known(writes, i) /\ Home(cloud, i)
  <2>1. PICK w \in Devices : seen[w] > 0 /\ i \in cloud[w][seen[w]]
    BY <1>2, <1>3
  <2>2. seen[w] \in 1 .. Len(cloud[w]) /\ i \in document[w]
    BY <1>1, <2>1 DEF CloudInv, SnapshotsFit
  <2>3. Known(writes, i) /\ (i[1] # w => Home(cloud, i))
    BY <2>2, TableOfDevice DEF GoodDoc
  <2>4. i[1] = w => Home(cloud, i)
    BY <2>1, <2>2 DEF Home
  <2>. QED BY <2>3, <2>4
<1>4. Present([table |-> writes, doc |-> RemoteDocument(seen)])
  <2>. DEFINE r == [table |-> writes, doc |-> RemoteDocument(seen)]
  <2>. SUFFICES ASSUME NEW i \in RemoteDocument(seen), WriteOf(r, i).field = "name"
                PROVE  \E j \in RemoteDocument(seen) : WriteOf(r, j).field = "presence"
    BY DEF Present, HasPresence
  <2>1. PICK w \in Devices : seen[w] > 0 /\ i \in cloud[w][seen[w]]
    BY <1>2
  <2>2. seen[w] \in 1 .. Len(cloud[w])
    BY <1>1, <2>1
  <2>3. Present([table |-> writes, doc |-> cloud[w][seen[w]]])
    BY <2>2 DEF CloudInv, SnapshotsFit
  <2>4. PICK j \in cloud[w][seen[w]] : writes[j[1]][j[2]].field = "presence"
    BY <2>1, <2>3 DEF Present, HasPresence, WriteOf
  <2>5. j \in RemoteDocument(seen)
    BY <2>1, <2>4 DEF RemoteDocument
  <2>. QED BY <2>4, <2>5 DEF WriteOf
<1>. QED BY <1>3, <1>4 DEF GoodDoc

LEMMA MergedSteps ==
  ASSUME Inv, NEW d \in Devices, phase[d] = "planned", NEW values \in Configs,
         NEW r, r = Merged(d, values)
  PROVE  /\ Good(cloud, r, d) /\ Present(r) /\ Extends(writes, r.table, d)
         /\ RemoteDocument(plan[d].seen) \subseteq r.doc
         /\ plan[d].direction # "Download" => plan[d].doc \subseteq r.doc
<1>. DEFINE p == plan[d]
            remote == RemoteDocument(p.seen)
            start == [table |-> writes, doc |-> p.doc]
            own == Capture(start, d, p.effective, values)
<1>1. /\ p \in Plans /\ Sane(cloud, start, d, p.effective)
      /\ \A w \in Devices : p.seen[w] <= Len(cloud[w])
  BY DEF Inv, DeviceInv, PlanFits, Planned
<1>2. p.seen \in [Devices -> Nat] /\ p.effective \in Configs /\ p.direction \in SyncDirection
  BY <1>1 DEF Plans
<1>3. /\ GoodDoc(cloud, writes, remote, d)
      /\ Present([table |-> writes, doc |-> remote])
  BY <1>1, <1>2, RemoteSteps
<1>4. GoodTable(cloud, writes) /\ TableType(writes)
  BY TableOfDevice DEF Inv
<1>5. Good(cloud, start, d) /\ Present(start)
  BY <1>1 DEF Sane
<1>6. start.table = writes /\ start.doc = p.doc
  OBVIOUS
<1>7. Extends(writes, writes, d)
  BY <1>5, <1>6, ExtendsItself
<1>. HIDE DEF p, remote
<1>8. CASE p.direction = "Download"
  <2>1. r = [table |-> writes, doc |-> remote]
    BY <1>8 DEF Merged, p, remote
  <2>. QED BY <1>3, <1>4, <1>7, <1>8, <2>1 DEF Good, p, remote
<1>9. CASE p.direction = "Upload"
  <2>1. r = [table |-> writes, doc |-> p.doc \cup remote]
    BY <1>9 DEF Merged, p, remote
  <2>2. GoodDoc(cloud, writes, p.doc \cup remote, d)
    BY <1>3, <1>5, <1>6 DEF Good, GoodDoc
  <2>3. Present(r)
    BY <1>3, <1>5, <2>1, UnionPresent
  <2>. QED BY <1>4, <1>7, <2>1, <2>2, <2>3 DEF Good, p, remote
<1>10. CASE p.direction = "Merge"
  <2>1. r = [table |-> own.table, doc |-> own.doc \cup remote]
    BY <1>10 DEF Merged, p, remote
  <2>2. Grown(cloud, start, own, d)
    <3>. HIDE DEF own, start
    <3>1. own = Capture(start, d, p.effective, values)
      BY DEF own
    <3>. QED BY <1>1, <1>2, <3>1, CaptureSteps
  <2>. HIDE DEF own
  <2>3. /\ Good(cloud, own, d) /\ Present(own) /\ Extends(writes, own.table, d)
        /\ p.doc \subseteq own.doc
    BY <1>6, <2>2 DEF Grown
  <2>4. TableType(own.table)
    BY <2>3, GoodDocType
  <2>5. GoodDoc(cloud, own.table, remote, d)
    BY <1>3, <1>4, <2>3, <2>4, KeptDoc
  <2>6. Present([table |-> own.table, doc |-> remote])
    <3>1. \A i \in remote : own.table[i[1]][i[2]] = writes[i[1]][i[2]]
      BY <1>3, <1>4, <2>3, <2>4, KeptDoc
    <3>. QED BY <1>3, <3>1, KeptPresent
  <2>7. Present([table |-> own.table, doc |-> own.doc])
    BY <2>3 DEF Present, HasPresence, WriteOf
  <2>8. Present(r)
    BY <2>1, <2>6, <2>7, UnionPresent
  <2>9. GoodDoc(cloud, own.table, own.doc \cup remote, d)
    BY <2>3, <2>5 DEF Good, GoodDoc
  <2>10. GoodTable(cloud, own.table)
    BY <2>3 DEF Good
  <2>. QED BY <2>1, <2>3, <2>8, <2>9, <2>10 DEF Good, p, remote
<1>. QED BY <1>2, <1>8, <1>9, <1>10 DEF SyncDirection

LEMMA ChosenSteps ==
  ASSUME Inv, NEW d \in Devices, phase[d] = "planned", Applicable(d),
         NEW r, r = Chosen(d)
  PROVE  /\ Good(cloud, r, d) /\ Present(r) /\ Extends(writes, r.table, d)
         /\ RemoteDocument(plan[d].seen) \subseteq r.doc
         /\ plan[d].direction # "Download" => plan[d].doc \subseteq r.doc
<1>. DEFINE m == Merged(d, config[d])
            remote == RemoteDocument(plan[d].seen)
<1>1. config[d] \in Configs /\ plan[d] \in Plans /\ TableType(writes)
  BY TableOfDevice DEF Inv, Types, DeviceInv, PlanFits
<1>2. /\ Good(cloud, m, d) /\ Present(m) /\ Extends(writes, m.table, d)
      /\ remote \subseteq m.doc
      /\ plan[d].direction # "Download" => plan[d].doc \subseteq m.doc
  BY <1>1, MergedSteps
<1>3. Grown(cloud, m, r, d)
  <2>1. CASE plan[d].direction = "Upload"
    <3>1. r = ReplaceFields(m, d, config[d])
      BY <2>1 DEF Chosen
    <3>. HIDE DEF m
    <3>. QED BY <1>1, <1>2, <3>1, ReplaceFieldsSteps
  <2>2. CASE plan[d].direction # "Upload"
    <3>1. r = Resolve(m, d, plan[d].choice)
      BY <2>2 DEF Chosen
    <3>2. plan[d].choice # Absent => Candidates(m, plan[d].choice.field) = plan[d].choice.over
      BY DEF Applicable
    <3>3. plan[d].choice \in Choices \cup {Absent}
      BY <1>1 DEF Plans
    <3>. HIDE DEF m
    <3>. QED BY <1>2, <3>1, <3>2, <3>3, ResolveSteps
  <2>. QED BY <2>1, <2>2
<1>. HIDE DEF m
<1>4. TableType(m.table) /\ TableType(r.table)
  BY <1>2, <1>3, GoodDocType DEF Grown
<1>5. Extends(writes, r.table, d)
  BY <1>1, <1>2, <1>3, <1>4, ExtendsTransitive DEF Grown
<1>. QED BY <1>2, <1>3, <1>5 DEF Grown

(* What an apply saves.                                                     *)
LEMMA AppliedSteps ==
  ASSUME Inv, NEW d \in Devices, phase[d] = "planned", Applicable(d),
         NEW desired, desired = Materialize(Chosen(d), config[d]),
         NEW r, r = Combined(d, Chosen(d), desired)
  PROVE  /\ desired \in Configs /\ Sane(cloud, r, d, desired)
         /\ Extends(writes, r.table, d)
         /\ RemoteDocument(plan[d].seen) \subseteq r.doc
         /\ plan[d].direction # "Download" \/ ~FirstSync(d) => document[d] \subseteq r.doc
<1>. DEFINE c == Chosen(d)
            p == plan[d]
            both == [table |-> c.table, doc |-> c.doc \cup p.doc]
<1>1. /\ config[d] \in Configs /\ document[d] \subseteq p.doc /\ p \in Plans
      /\ Sane(cloud, Planned(d), d, p.effective)
  BY DEF Inv, Types, DeviceInv, PlanFits
<1>2. /\ Good(cloud, c, d) /\ Present(c) /\ Extends(writes, c.table, d)
      /\ RemoteDocument(p.seen) \subseteq c.doc
      /\ p.direction # "Download" => p.doc \subseteq c.doc
  BY ChosenSteps
<1>. HIDE DEF c, p
<1>3. desired \in Configs /\ Baseline(c, desired)
  BY <1>1, <1>2, MaterializeSteps DEF c
<1>4. CASE p.direction = "Download" /\ ~FirstSync(d)
  <2>1. r = ReplaceFields(both, d, desired)
    BY <1>4 DEF Combined, c, p
  <2>2. /\ GoodDoc(cloud, writes, p.doc, d) /\ Present([table |-> writes, doc |-> p.doc])
        /\ TableType(writes) /\ TableType(c.table)
    BY <1>1, <1>2, TableOfDevice, GoodDocType DEF Sane, Good, Planned, Inv, p
  <2>3. GoodDoc(cloud, c.table, p.doc, d)
    BY <1>2, <2>2, KeptDoc
  <2>4. Present([table |-> c.table, doc |-> p.doc])
    <3>1. \A i \in p.doc : c.table[i[1]][i[2]] = writes[i[1]][i[2]]
      <4>. SUFFICES ASSUME NEW i \in p.doc PROVE c.table[i[1]][i[2]] = writes[i[1]][i[2]]
        OBVIOUS
      <4>1. Known(writes, i)
        BY <2>2 DEF GoodDoc
      <4>. QED BY <1>2, <2>2, <4>1, ExtendsKnown
    <3>. QED BY <2>2, <3>1, KeptPresent
  <2>5. Present([table |-> c.table, doc |-> c.doc])
    BY <1>2 DEF Present, HasPresence, WriteOf
  <2>6. Present(both)
    BY <2>4, <2>5, UnionPresent
  <2>7. GoodDoc(cloud, c.table, c.doc \cup p.doc, d)
    BY <1>2, <2>3 DEF Good, GoodDoc
  <2>8. Good(cloud, both, d)
    BY <1>2, <2>7 DEF Good
  <2>9. both.table = c.table /\ both.doc = c.doc \cup p.doc
    OBVIOUS
  <2>. HIDE DEF both
  <2>10. Grown(cloud, both, r, d) /\ Baseline(r, desired)
    BY <1>3, <2>1, <2>6, <2>8, ReplaceFieldsSteps
  <2>11. TableType(r.table)
    BY <2>10, GoodDocType DEF Grown
  <2>12. Extends(writes, r.table, d)
    BY <1>2, <2>2, <2>9, <2>10, <2>11, ExtendsTransitive DEF Grown
  <2>. QED BY <1>1, <1>2, <1>3, <2>9, <2>10, <2>12 DEF Grown, Sane, p
<1>5. CASE ~(p.direction = "Download" /\ ~FirstSync(d))
  <2>1. r = c
    BY <1>5 DEF Combined, c, p
  <2>. QED BY <1>1, <1>2, <1>3, <1>5, <2>1 DEF Sane, p
<1>. QED BY <1>4, <1>5

-----------------------------------------------------------------------------
(* The invariant.                                                           *)

LEMMA InvInit == Init => Inv
<1>. SUFFICES ASSUME Init PROVE Inv
  OBVIOUS
<1>. USE DEF Init
<1>1. Types
  <2>1. \A S : << >> \in Seq(S)
    BY EmptySeq
  <2>2. config \in [Devices -> Configs] /\ MaxDecisions \in Nat
    BY CausalSyncAssumption
  <2>3. decisions \in 0 .. MaxDecisions
    BY <2>2
  <2>. QED BY <2>1, <2>2, <2>3 DEF Types, Configs
<1>2. \A e \in Devices : Len(writes[e]) = 0 /\ Len(cloud[e]) = 0
  BY EmptySeq
<1>3. GoodTable(cloud, writes)
  <2>1. TableType(writes)
    BY <1>1, <1>2 DEF TableType, Types
  <2>2. Ranked(writes)
    <3>1. [i \in WriteIds |-> 0] \in [WriteIds -> Nat] /\ 0 \in Nat
      OBVIOUS
    <3>2. RankedBy(writes, [i \in WriteIds |-> 0], 0)
      BY <1>2 DEF RankedBy
    <3>. QED BY <3>1, <3>2 DEF Ranked
  <2>3. OverHome(cloud, writes) /\ Sighted(writes)
    BY <1>2 DEF OverHome, Sighted
  <2>. QED BY <2>1, <2>2, <2>3 DEF GoodTable
<1>4. ASSUME NEW d \in Devices PROVE Sane(cloud, Replica(d), d, effective[d])
  <2>1. Replica(d).table = writes /\ Replica(d).doc = {}
    BY DEF Replica
  <2>2. \A field : CandidateValues(Replica(d), field) = {}
    BY <2>1 DEF CandidateValues, Candidates
  <2>. QED BY <1>3, <2>1, <2>2 DEF Sane, Good, GoodDoc, Present, Baseline
<1>5. DeviceInv
  BY <1>4 DEF DeviceInv
<1>6. CloudInv
  BY <1>2 DEF CloudInv, SnapshotsFit, StagedFits, PublishedFits
<1>7. ObservedInv
  BY <1>2 DEF ObservedInv
<1>. QED BY <1>1, <1>5, <1>6, <1>7 DEF Inv

(* The table u has all writes but those that only the plan of d knew.       *)
Remembers(u, d) ==
  \A i : Known(writes, i) /\ (i[1] = d => i \in document[d])
           => Known(u, i) /\ u[i[1]][i[2]] = writes[i[1]][i[2]]

LEMMA ExtendsRemembers ==
  ASSUME NEW u, NEW d \in Devices, TableType(writes), TableType(u), Extends(writes, u, d)
  PROVE  Remembers(u, d)
  BY ExtendsKnown DEF Remembers

(* What others know of d is saved there.                                    *)
LEMMA HomeIsSaved ==
  ASSUME Inv, NEW i, i[1] \in Devices, Home(cloud, i)
  PROVE  i \in document[i[1]]
  BY DEF Inv, CloudInv, SnapshotsFit, Home

LEMMA DocStays ==
  ASSUME Inv, NEW u, NEW d \in Devices, GoodTable(cloud, u), Remembers(u, d),
         NEW e \in Devices, NEW doc, GoodDoc(cloud, writes, doc, e),
         e = d => doc \subseteq document[d]
  PROVE  GoodDoc(cloud, u, doc, e) /\ \A i \in doc : u[i[1]][i[2]] = writes[i[1]][i[2]]
<1>1. ASSUME NEW i \in doc PROVE Known(u, i) /\ u[i[1]][i[2]] = writes[i[1]][i[2]]
  <2>1. Known(writes, i) /\ i[1] \in Devices /\ (i[1] # e => Home(cloud, i))
    BY DEF GoodDoc, Known, WriteIds
  <2>2. i[1] = d => i \in document[d]
    BY <2>1, HomeIsSaved
  <2>. QED BY <2>1, <2>2 DEF Remembers
<1>. QED BY <1>1 DEF GoodDoc

LEMMA SaneStays ==
  ASSUME Inv, NEW u, NEW d \in Devices, GoodTable(cloud, u), Remembers(u, d),
         NEW e \in Devices, NEW doc, NEW c, Sane(cloud, [table |-> writes, doc |-> doc], e, c),
         e = d => doc \subseteq document[d]
  PROVE  Sane(cloud, [table |-> u, doc |-> doc], e, c)
<1>. DEFINE r == [table |-> writes, doc |-> doc]
            s == [table |-> u, doc |-> doc]
<1>1. Good(cloud, r, e) /\ Present(r) /\ Baseline(r, c)
  BY DEF Sane
<1>2. GoodDoc(cloud, writes, doc, e)
  BY <1>1 DEF Good
<1>3. GoodDoc(cloud, u, doc, e) /\ \A i \in doc : u[i[1]][i[2]] = writes[i[1]][i[2]]
  <2>. HIDE DEF r, s
  <2>. QED BY <1>2, DocStays
<1>4. s.doc = r.doc /\ \A i \in r.doc : WriteOf(s, i) = WriteOf(r, i)
  BY <1>3 DEF WriteOf
<1>5. Present(s) /\ Baseline(s, c)
  <2>. HIDE DEF r, s
  <2>. QED BY <1>1, <1>4, SameBaseline
<1>6. Good(cloud, s, e)
  BY <1>3 DEF Good
<1>. QED BY <1>5, <1>6 DEF Sane

(* What the invariant says of others after a step of d.                     *)
LEMMA OthersStay ==
  ASSUME Inv, NEW u, NEW d \in Devices, GoodTable(cloud, u), Remembers(u, d)
  PROVE  /\ \A e \in Devices : Sane(cloud, [table |-> u, doc |-> document[e]], e, effective[e])
         /\ \A e \in Devices \ {d} : phase[e] = "planned" =>
              Sane(cloud, [table |-> u, doc |-> plan[e].doc], e, plan[e].effective)
         /\ \A e \in Devices : \A n \in 1 .. Len(cloud[e]) :
              Present([table |-> u, doc |-> cloud[e][n]])
         /\ \A e \in Devices : \A s \in pending[e] : Present([table |-> u, doc |-> s])
<1>1. ASSUME NEW e \in Devices
      PROVE  Sane(cloud, [table |-> u, doc |-> document[e]], e, effective[e])
  <2>1. Sane(cloud, [table |-> writes, doc |-> document[e]], e, effective[e])
    BY DEF Inv, DeviceInv, Replica
  <2>. QED BY <2>1, SaneStays
<1>2. ASSUME NEW e \in Devices \ {d}, phase[e] = "planned"
      PROVE  Sane(cloud, [table |-> u, doc |-> plan[e].doc], e, plan[e].effective)
  <2>1. Sane(cloud, [table |-> writes, doc |-> plan[e].doc], e, plan[e].effective)
    BY <1>2 DEF Inv, DeviceInv, PlanFits, Planned
  <2>. QED BY <2>1, SaneStays
<1>3. ASSUME NEW e \in Devices, NEW s \in SUBSET document[e],
             Present([table |-> writes, doc |-> s])
      PROVE  Present([table |-> u, doc |-> s])
  <2>1. GoodDoc(cloud, writes, document[e], e)
    BY TableOfDevice DEF Inv
  <2>2. \A i \in document[e] : u[i[1]][i[2]] = writes[i[1]][i[2]]
    BY <2>1, DocStays
  <2>. QED BY <1>3, <2>2, KeptPresent
<1>4. ASSUME NEW e \in Devices, NEW n \in 1 .. Len(cloud[e])
      PROVE  Present([table |-> u, doc |-> cloud[e][n]])
  <2>1. cloud[e][n] \in SUBSET document[e] /\ Present([table |-> writes, doc |-> cloud[e][n]])
    BY DEF Inv, CloudInv, SnapshotsFit
  <2>. QED BY <1>3, <2>1
<1>5. ASSUME NEW e \in Devices, NEW s \in pending[e]
      PROVE  Present([table |-> u, doc |-> s])
  <2>1. s \in SUBSET document[e] /\ Present([table |-> writes, doc |-> s])
    BY DEF Inv, CloudInv, StagedFits
  <2>. QED BY <1>3, <2>1
<1>. QED BY <1>1, <1>2, <1>4, <1>5

(* What is published stays so in a step that leaves the saved state alone.  *)
LEMMA CloudStays ==
  ASSUME Inv, NEW d \in Devices, UNCHANGED <<localVars, cloud>>,
         GoodTable(cloud, writes'), Remembers(writes', d),
         \A e \in Devices : phase'[e] = "uploaded" => phase[e] = "uploaded"
  PROVE  CloudInv' /\ ObservedInv'
<1>. USE DEF localVars
<1>1. /\ \A e \in Devices : \A n \in 1 .. Len(cloud[e]) :
           Present([table |-> writes', doc |-> cloud[e][n]])
      /\ \A e \in Devices : \A s \in pending[e] : Present([table |-> writes', doc |-> s])
  BY OthersStay
<1>2. ObservedInv'
  BY DEF Inv, ObservedInv
<1>3. ASSUME NEW e \in Devices PROVE SnapshotsFit(e)'
  BY <1>1 DEF Inv, CloudInv, SnapshotsFit
<1>4. ASSUME NEW e \in Devices PROVE StagedFits(e)'
  <2>1. StagedFits(e)
    BY DEF Inv, CloudInv
  <2>2. CASE pending[e] = {}
    BY <2>1, <2>2 DEF StagedFits
  <2>3. CASE pending[e] # {}
    <3>1. PICK s \in SUBSET document[e] :
            /\ pending[e] = {s}
            /\ Len(cloud[e]) = sequence[e] - 1 => cloud[e][sequence[e] - 1] = s
      BY <2>1, <2>3 DEF StagedFits
    <3>2. Present([table |-> writes', doc |-> s])
      BY <1>1, <3>1
    <3>. QED BY <2>1, <2>3, <3>1, <3>2 DEF StagedFits
  <2>. QED BY <2>2, <2>3
<1>5. ASSUME NEW e \in Devices PROVE PublishedFits(e)'
  BY DEF Inv, CloudInv, PublishedFits, FirstSync
<1>. QED BY <1>2, <1>3, <1>4, <1>5 DEF CloudInv

LEMMA KeptSteps ==
  ASSUME Inv, NEW d \in Devices
  PROVE  LET u == [writes EXCEPT ![d] = Kept(d)] IN
         u \in [Devices -> Seq(Writes)] /\ GoodTable(cloud, u) /\ Remembers(u, d)
<1>. DEFINE u == [writes EXCEPT ![d] = Kept(d)]
            l == Len(writes[d])
            known == {k \in 1 .. l : <<d, k>> \in document[d]}
<1>1. GoodTable(cloud, writes) /\ TableType(writes) /\ writes \in [Devices -> Seq(Writes)]
  BY TableOfDevice DEF Inv, Types
<1>2. l \in Nat /\ writes[d] \in Seq(Writes) /\ \A k \in 1 .. l : writes[d][k] \in Writes
  BY <1>1
<1>3. /\ Kept(d) \in Seq(Writes) /\ Len(Kept(d)) <= l
      /\ \A k \in 1 .. Len(Kept(d)) : Kept(d)[k] = writes[d][k]
      /\ \A k \in known : k <= Len(Kept(d))
  <2>1. CASE known = {}
    <3>1. Kept(d) = << >>
      BY <2>1 DEF Kept
    <3>. QED BY <1>2, <2>1, <3>1
  <2>2. CASE known # {}
    <3>. DEFINE m == CHOOSE k \in known : \A x \in known : x <= k
    <3>1. Kept(d) = SubSeq(writes[d], 1, m)
      BY <2>2 DEF Kept
    <3>2. known \in SUBSET Nat /\ IsFiniteSet(known)
      <4>1. IsFiniteSet(1 .. l)
        BY <1>2, FS_Interval
      <4>2. known \in SUBSET (1 .. l)
        OBVIOUS
      <4>3. known \in SUBSET Nat
        BY <1>2
      <4>. HIDE DEF known
      <4>4. IsFiniteSet(known)
        BY <4>1, <4>2, FS_Subset
      <4>. QED BY <4>3, <4>4
    <3>3. \E k \in known : \A x \in known : x <= k
      <4>. HIDE DEF known
      <4>. QED BY <2>2, <3>2, GreatestExists
    <3>4. m \in known /\ \A x \in known : x <= m
      <4>. HIDE DEF known
      <4>. QED BY <3>3
    <3>5. m \in 1 .. l
      BY <3>4
    <3>. HIDE DEF m, known
    <3>6. /\ SubSeq(writes[d], 1, m) \in Seq(Writes) /\ Len(SubSeq(writes[d], 1, m)) = m
          /\ \A k \in 1 .. m : SubSeq(writes[d], 1, m)[k] = writes[d][k]
      BY <1>2, <3>5, SubSeqProperties
    <3>. QED BY <1>2, <3>1, <3>4, <3>5, <3>6
  <2>. QED BY <2>1, <2>2
<1>4. /\ u \in [Devices -> Seq(Writes)] /\ u[d] = Kept(d)
      /\ \A e \in Devices \ {d} : u[e] = writes[e]
  BY <1>1, <1>3
<1>. HIDE DEF u
<1>5. \A e \in Devices : \A k \in 1 .. Len(u[e]) :
        k \in 1 .. Len(writes[e]) /\ u[e][k] = writes[e][k]
  <2>. SUFFICES ASSUME NEW e \in Devices, NEW k \in 1 .. Len(u[e])
                PROVE  k \in 1 .. Len(writes[e]) /\ u[e][k] = writes[e][k]
    OBVIOUS
  <2>1. Len(Kept(d)) \in Nat
    BY <1>3
  <2>2. CASE e = d
    BY <1>2, <1>3, <1>4, <2>1, <2>2
  <2>3. CASE e # d
    BY <1>4, <2>3
  <2>. QED BY <2>2, <2>3
<1>6. ASSUME NEW i, Known(writes, i), i[1] = d => i \in document[d]
      PROVE  Known(u, i) /\ u[i[1]][i[2]] = writes[i[1]][i[2]]
  <2>1. i \in WriteIds /\ i[1] \in Devices /\ i[2] \in 1 .. Len(writes[i[1]]) /\ i = <<i[1], i[2]>>
    BY <1>1, <1>6 DEF Known, WriteIds
  <2>2. CASE i[1] = d
    <3>1. i[2] \in known
      BY <1>6, <2>1, <2>2
    <3>2. i[2] <= Len(Kept(d)) /\ i[2] \in 1 .. Len(Kept(d))
      BY <1>3, <2>1, <3>1
    <3>. QED BY <1>3, <1>4, <2>1, <2>2, <3>2 DEF Known
  <2>3. CASE i[1] # d
    BY <1>4, <1>6, <2>1, <2>3 DEF Known
  <2>. QED BY <2>2, <2>3
<1>7. Remembers(u, d)
  BY <1>6 DEF Remembers
<1>8. ASSUME NEW e \in Devices, NEW k \in 1 .. Len(u[e]), NEW i \in u[e][k].over
      PROVE  Known(u, i) /\ u[i[1]][i[2]] = writes[i[1]][i[2]]
  <2>1. k \in 1 .. Len(writes[e]) /\ u[e][k] = writes[e][k]
    BY <1>5
  <2>2. /\ Known(writes, i) /\ i[1] \in Devices /\ i[2] \in Nat \ {0}
        /\ IF i[1] = e THEN i[2] < k ELSE Home(cloud, i)
    <3>1. i \in writes[e][k].over
      BY <1>8, <2>1
    <3>2. PICK rank \in [WriteIds -> Nat], top \in Nat : RankedBy(writes, rank, top)
      BY <1>1 DEF GoodTable, Ranked
    <3>3. Known(writes, i)
      BY <2>1, <3>1, <3>2 DEF RankedBy
    <3>4. IF i[1] = e THEN i[2] < k ELSE Home(cloud, i)
      BY <1>1, <2>1, <3>1 DEF GoodTable, OverHome
    <3>. QED BY <3>3, <3>4 DEF Known, WriteIds
  <2>3. CASE e = d /\ i[1] = d
    <3>1. i[2] \in 1 .. Len(u[d]) /\ Len(u[d]) \in Nat
      BY <1>3, <1>4, <2>2, <2>3
    <3>. QED BY <1>5, <2>2, <2>3, <3>1 DEF Known
  <2>4. CASE ~(e = d /\ i[1] = d)
    <3>1. i[1] = d => i \in document[d]
      BY <2>2, <2>4, HomeIsSaved
    <3>. QED BY <1>6, <2>2, <3>1
  <2>. QED BY <2>3, <2>4
<1>9. TableType(u)
  BY <1>1, <1>4, <1>5 DEF TableType
<1>10. Ranked(u)
  <2>1. PICK rank \in [WriteIds -> Nat], top \in Nat : RankedBy(writes, rank, top)
    BY <1>1 DEF GoodTable, Ranked
  <2>2. RankedBy(u, rank, top)
    <3>. SUFFICES ASSUME NEW e \in Devices, NEW k \in 1 .. Len(u[e])
                  PROVE  /\ rank[<<e, k>>] <= top
                         /\ \A i \in u[e][k].over :
                              /\ Known(u, i) /\ rank[i] < rank[<<e, k>>]
                              /\ u[i[1]][i[2]].field = u[e][k].field
      BY DEF RankedBy
    <3>1. k \in 1 .. Len(writes[e]) /\ u[e][k] = writes[e][k]
      BY <1>5
    <3>2. /\ rank[<<e, k>>] <= top
          /\ \A i \in writes[e][k].over :
               rank[i] < rank[<<e, k>>] /\ writes[i[1]][i[2]].field = writes[e][k].field
      BY <2>1, <3>1 DEF RankedBy
    <3>3. ASSUME NEW i \in u[e][k].over
          PROVE  /\ Known(u, i) /\ rank[i] < rank[<<e, k>>]
                 /\ u[i[1]][i[2]].field = u[e][k].field
      <4>1. Known(u, i) /\ u[i[1]][i[2]] = writes[i[1]][i[2]]
        BY <1>8
      <4>. QED BY <3>1, <3>2, <4>1
    <3>. QED BY <3>1, <3>2, <3>3
  <2>. QED BY <2>2 DEF Ranked
<1>11. OverHome(cloud, u)
  <2>. SUFFICES ASSUME NEW e \in Devices, NEW k \in 1 .. Len(u[e]), NEW i \in u[e][k].over
                PROVE  IF i[1] = e THEN i[2] < k ELSE Home(cloud, i)
    BY DEF OverHome
  <2>. QED BY <1>1, <1>5 DEF GoodTable, OverHome
<1>12. Sighted(u)
  <2>. SUFFICES ASSUME NEW e \in Devices, NEW k \in 1 .. Len(u[e]), u[e][k].base # Absent,
                       NEW i \in u[e][k].over
                PROVE  u[i[1]][i[2]].value = u[e][k].base
    BY DEF Sighted
  <2>1. k \in 1 .. Len(writes[e]) /\ u[e][k] = writes[e][k]
    BY <1>5
  <2>2. writes[i[1]][i[2]].value = writes[e][k].base
    BY <1>1, <2>1 DEF GoodTable, Sighted
  <2>. QED BY <1>8, <2>1, <2>2
<1>. QED BY <1>4, <1>7, <1>9, <1>10, <1>11, <1>12 DEF GoodTable, u

-----------------------------------------------------------------------------
(* The actions.                                                             *)

LEMMA EditSteps ==
  ASSUME Inv, NEW d \in Devices, NEW c \in Configs, Edit(d, c)
  PROVE  Inv'
<1>. USE DEF Edit, localVars
<1>1. Types'
  <2>1. config' \in [Devices -> Configs]
    BY DEF Inv, Types
  <2>2. decisions' \in 0 .. MaxDecisions
    BY CausalSyncAssumption DEF Inv, Types
  <2>. QED BY <2>1, <2>2 DEF Inv, Types
<1>2. DeviceInv'
  BY DEF Inv, DeviceInv, PlanFits, Replica, Planned, HasRemote
<1>3. CloudInv' /\ ObservedInv'
  BY DEF Inv, CloudInv, SnapshotsFit, StagedFits, PublishedFits, FirstSync, ObservedInv
<1>. QED BY <1>1, <1>2, <1>3 DEF Inv

LEMMA ChooseSteps ==
  ASSUME Inv, NEW d \in Devices, Choose(d)
  PROVE  Inv'
<1>. USE DEF localVars
<1>0. /\ phase[d] = "planned" /\ PlanFits(d)
      /\ UNCHANGED <<writes, config, localVars, cloud, phase>>
      /\ decisions' = decisions - 1 /\ decisions > 0
  BY DEF Choose, Inv, DeviceInv
<1>1. PICK choice \in Choices : plan' = [plan EXCEPT ![d].choice = choice]
  <2>. DEFINE r == Merged(d, plan[d].effective)
  <2>1. plan[d].effective \in Configs
    BY <1>0 DEF PlanFits, Plans
  <2>2. Good(cloud, r, d)
    BY <1>0, <2>1, MergedSteps
  <2>. HIDE DEF r
  <2>3. PICK field \in Conflicts(r) : \E value \in CandidateValues(r, field) :
          plan' = [plan EXCEPT ![d].choice =
                     [field |-> field, value |-> value, over |-> Candidates(r, field)]]
    BY DEF Choose, r
  <2>7. PICK value \in CandidateValues(r, field) :
          plan' = [plan EXCEPT ![d].choice =
                     [field |-> field, value |-> value, over |-> Candidates(r, field)]]
    BY <2>3
  <2>4. field \in {"presence", "name"}
    BY DEF Conflicts
  <2>5. ValueFits(field, value) /\ Candidates(r, field) # {} /\ Candidates(r, field) \subseteq WriteIds
    BY <2>2, CandidateType DEF CandidateValues, Known
  <2>6. [field |-> field, value |-> value, over |-> Candidates(r, field)] \in Choices
    BY <2>4, <2>5 DEF Choices, ValueFits
  <2>. QED BY <2>6, <2>7
<1>2. plan[d] \in Plans /\ [plan[d] EXCEPT !.choice = choice] \in Plans
  BY <1>0 DEF PlanFits, Plans
<1>3. /\ plan' = [plan EXCEPT ![d] = [plan[d] EXCEPT !.choice = choice]]
      /\ plan \in [Devices -> Plans \cup {NoPlan}]
  BY <1>1 DEF Inv, Types
<1>4. /\ plan'[d] \in Plans /\ plan'[d].doc = plan[d].doc /\ plan'[d].seen = plan[d].seen
      /\ plan'[d].effective = plan[d].effective /\ plan'[d].direction = plan[d].direction
      /\ \A e \in Devices \ {d} : plan'[e] = plan[e]
  BY <1>2, <1>3 DEF Plans
<1>5. Types'
  <2>1. plan' \in [Devices -> Plans \cup {NoPlan}]
    BY <1>2, <1>3
  <2>2. decisions' \in 0 .. MaxDecisions
    BY <1>0, CausalSyncAssumption DEF Inv, Types
  <2>. QED BY <1>0, <2>1, <2>2 DEF Inv, Types
<1>6. DeviceInv'
  <2>. SUFFICES ASSUME NEW e \in Devices
                PROVE  /\ Sane(cloud, Replica(e), e, effective[e])'
                       /\ (IF phase[e] = "planned" THEN PlanFits(e) ELSE plan[e] = NoPlan)'
    BY DEF DeviceInv
  <2>1. Sane(cloud, Replica(e), e, effective[e])'
    BY <1>0 DEF Inv, DeviceInv, Replica
  <2>2. CASE e = d
    <3>1. Planned(d)' = Planned(d)
      BY <1>0, <1>4 DEF Planned
    <3>2. HasRemote(plan[d].seen)' = HasRemote(plan[d].seen)
      BY <1>0, <1>4 DEF HasRemote
    <3>. QED BY <1>0, <1>4, <2>1, <2>2, <3>1, <3>2 DEF PlanFits
  <2>3. CASE e # d
    <3>1. phase'[e] = phase[e] /\ plan'[e] = plan[e]
      BY <1>0, <1>4, <2>3
    <3>2. Planned(e)' = Planned(e) /\ HasRemote(plan[e].seen)' = HasRemote(plan[e].seen)
      BY <1>0, <3>1 DEF Planned, HasRemote
    <3>3. IF phase[e] = "planned" THEN PlanFits(e) ELSE plan[e] = NoPlan
      BY DEF Inv, DeviceInv
    <3>. QED BY <1>0, <2>1, <3>1, <3>2, <3>3 DEF PlanFits
  <2>. QED BY <2>1, <2>2, <2>3
<1>7. CloudInv' /\ ObservedInv'
  BY <1>0 DEF Inv, CloudInv, SnapshotsFit, StagedFits, PublishedFits, FirstSync, ObservedInv
<1>. QED BY <1>5, <1>6, <1>7 DEF Inv

(* A preview that is turned reads what it read before.                      *)
LEMMA Turns ==
  ASSUME Inv, NEW d \in Devices, NEW direction \in SyncDirection, Turn(d, direction)
  PROVE  /\ phase[d] = "planned" /\ plan[d].front = "desktop"
         /\ UNCHANGED <<writes, config, localVars, cloud, phase>>
         /\ decisions' \in 0 .. MaxDecisions
         /\ plan' \in [Devices -> Plans \cup {NoPlan}]
         /\ PlanFits(d) /\ plan'[d] \in Plans
         /\ plan'[d].doc = plan[d].doc /\ plan'[d].seen = plan[d].seen
         /\ plan'[d].effective = plan[d].effective /\ plan'[d].front = plan[d].front
         /\ plan'[d].direction = direction /\ plan'[d].choice = Absent
         /\ direction = "Download" => HasRemote(plan[d].seen)
         /\ \A e \in Devices \ {d} : plan'[e] = plan[e]
<1>1. /\ phase[d] = "planned" /\ plan[d].front = "desktop" /\ decisions > 0
      /\ direction # "Upload" => HasRemote(plan[d].seen)
      /\ plan' = [plan EXCEPT ![d].direction = direction, ![d].choice = Absent]
      /\ decisions' = decisions - 1
      /\ UNCHANGED <<writes, config, localVars, cloud, phase>>
  BY DEF Turn
<1>2. /\ plan \in [Devices -> Plans \cup {NoPlan}] /\ decisions \in 0 .. MaxDecisions
      /\ MaxDecisions \in Nat
  BY CausalSyncAssumption DEF Inv, Types
<1>3. PlanFits(d) /\ plan[d] \in Plans
  BY <1>1 DEF Inv, DeviceInv, PlanFits
<1>. DEFINE q == [plan[d] EXCEPT !.direction = direction, !.choice = Absent]
<1>4. /\ q \in Plans /\ q.direction = direction /\ q.choice = Absent
      /\ q.doc = plan[d].doc /\ q.seen = plan[d].seen
      /\ q.effective = plan[d].effective /\ q.front = plan[d].front
  BY <1>3 DEF Plans
<1>5. plan' = [plan EXCEPT ![d] = q]
  BY <1>1, <1>2
<1>. HIDE DEF q
<1>6. /\ plan'[d] = q /\ plan' \in [Devices -> Plans \cup {NoPlan}]
      /\ \A e \in Devices \ {d} : plan'[e] = plan[e]
  BY <1>2, <1>4, <1>5
<1>. QED BY <1>1, <1>2, <1>3, <1>4, <1>6

LEMMA TurnSteps ==
  ASSUME Inv, NEW d \in Devices, NEW direction \in SyncDirection, Turn(d, direction)
  PROVE  Inv'
<1>. USE DEF localVars
<1>0. /\ phase[d] = "planned" /\ PlanFits(d)
      /\ UNCHANGED <<writes, config, localVars, cloud, phase>>
      /\ decisions' \in 0 .. MaxDecisions
      /\ plan' \in [Devices -> Plans \cup {NoPlan}] /\ plan'[d] \in Plans
      /\ plan'[d].doc = plan[d].doc /\ plan'[d].seen = plan[d].seen
      /\ plan'[d].effective = plan[d].effective /\ plan'[d].direction = direction
      /\ direction = "Download" => HasRemote(plan[d].seen)
      /\ \A e \in Devices \ {d} : plan'[e] = plan[e]
  BY Turns
<1>1. Types'
  BY <1>0 DEF Inv, Types
<1>2. DeviceInv'
  <2>. SUFFICES ASSUME NEW e \in Devices
                PROVE  /\ Sane(cloud, Replica(e), e, effective[e])'
                       /\ (IF phase[e] = "planned" THEN PlanFits(e) ELSE plan[e] = NoPlan)'
    BY DEF DeviceInv
  <2>1. Sane(cloud, Replica(e), e, effective[e])'
    BY <1>0 DEF Inv, DeviceInv, Replica
  <2>2. CASE e = d
    <3>1. Planned(d)' = Planned(d)
      BY <1>0 DEF Planned
    <3>2. HasRemote(plan[d].seen)' = HasRemote(plan[d].seen)
      BY <1>0 DEF HasRemote
    <3>. QED BY <1>0, <2>1, <2>2, <3>1, <3>2 DEF PlanFits
  <2>3. CASE e # d
    <3>1. phase'[e] = phase[e] /\ plan'[e] = plan[e]
      BY <1>0, <2>3
    <3>2. Planned(e)' = Planned(e) /\ HasRemote(plan[e].seen)' = HasRemote(plan[e].seen)
      BY <1>0, <3>1 DEF Planned, HasRemote
    <3>3. IF phase[e] = "planned" THEN PlanFits(e) ELSE plan[e] = NoPlan
      BY DEF Inv, DeviceInv
    <3>. QED BY <1>0, <2>1, <3>1, <3>2, <3>3 DEF PlanFits
  <2>. QED BY <2>1, <2>2, <2>3
<1>3. CloudInv' /\ ObservedInv'
  BY <1>0 DEF Inv, CloudInv, SnapshotsFit, StagedFits, PublishedFits, FirstSync, ObservedInv
<1>. QED BY <1>1, <1>2, <1>3 DEF Inv

(* A device keeps its plan while another one steps.                         *)
LEMMA DevicesStay ==
  ASSUME Inv, NEW d \in Devices, UNCHANGED <<localVars, cloud>>,
         GoodTable(cloud, writes'), Remembers(writes', d),
         \A e \in Devices \ {d} : phase'[e] = phase[e] /\ plan'[e] = plan[e],
         (IF phase[d] = "planned" THEN PlanFits(d) ELSE plan[d] = NoPlan)'
  PROVE  DeviceInv'
<1>. USE DEF localVars
<1>1. /\ \A e \in Devices :
           Sane(cloud, [table |-> writes', doc |-> document[e]], e, effective[e])
      /\ \A e \in Devices \ {d} : phase[e] = "planned" =>
           Sane(cloud, [table |-> writes', doc |-> plan[e].doc], e, plan[e].effective)
  BY OthersStay
<1>. SUFFICES ASSUME NEW e \in Devices
              PROVE  /\ Sane(cloud, Replica(e), e, effective[e])'
                     /\ (IF phase[e] = "planned" THEN PlanFits(e) ELSE plan[e] = NoPlan)'
  BY DEF DeviceInv
<1>2. Sane(cloud, Replica(e), e, effective[e])'
  <2>1. Replica(e)' = [table |-> writes', doc |-> document[e]]
    BY DEF Replica
  <2>. QED BY <1>1, <2>1
<1>3. CASE e = d
  BY <1>2, <1>3
<1>4. CASE e # d
  <2>1. phase'[e] = phase[e] /\ plan'[e] = plan[e]
    BY <1>4
  <2>2. IF phase[e] = "planned" THEN PlanFits(e) ELSE plan[e] = NoPlan
    BY DEF Inv, DeviceInv
  <2>3. CASE phase[e] = "planned"
    <3>1. Planned(e)' = [table |-> writes', doc |-> plan[e].doc]
      BY <2>1 DEF Planned
    <3>2. Sane(cloud, Planned(e), e, plan[e].effective)'
      BY <1>1, <1>4, <2>1, <2>3, <3>1
    <3>3. HasRemote(plan[e].seen)' = HasRemote(plan[e].seen)
      BY <2>1 DEF HasRemote
    <3>. QED BY <1>2, <2>1, <2>2, <2>3, <3>2, <3>3 DEF PlanFits
  <2>4. CASE phase[e] # "planned"
    BY <1>2, <2>1, <2>2, <2>4
  <2>. QED BY <2>3, <2>4
<1>. QED BY <1>3, <1>4

LEMMA DropSteps ==
  ASSUME Inv, NEW d \in Devices, DropPlan(d), decisions' \in 0 .. MaxDecisions
  PROVE  Inv'
<1>1. /\ phase' = [phase EXCEPT ![d] = "idle"] /\ plan' = [plan EXCEPT ![d] = NoPlan]
      /\ writes' = [writes EXCEPT ![d] = Kept(d)]
      /\ UNCHANGED <<config, localVars, cloud>>
  BY DEF DropPlan
<1>2. writes' \in [Devices -> Seq(Writes)] /\ GoodTable(cloud, writes') /\ Remembers(writes', d)
  BY <1>1, KeptSteps
<1>3. /\ phase \in [Devices -> {"idle", "planned", "applied", "uploaded"}]
      /\ plan \in [Devices -> Plans \cup {NoPlan}]
  BY DEF Inv, Types
<1>4. /\ phase'[d] = "idle" /\ plan'[d] = NoPlan
      /\ \A e \in Devices \ {d} : phase'[e] = phase[e] /\ plan'[e] = plan[e]
      /\ phase' \in [Devices -> {"idle", "planned", "applied", "uploaded"}]
      /\ plan' \in [Devices -> Plans \cup {NoPlan}]
  BY <1>1, <1>3
<1>5. Types'
  BY <1>1, <1>2, <1>4 DEF Inv, Types, localVars
<1>6. DeviceInv'
  BY <1>1, <1>2, <1>4, DevicesStay
<1>7. CloudInv' /\ ObservedInv'
  BY <1>1, <1>2, <1>4, CloudStays
<1>. QED BY <1>5, <1>6, <1>7 DEF Inv

(* A preparation captures the edits, and reads something of the cloud when   *)
(* the cloud's side is to be taken.                                         *)
LEMMA Prepares ==
  ASSUME Inv, NEW d \in Devices, NEW front \in FrontEnds[d],
         NEW asked \in {"Merge", "Download"}, Prepare(d, front, asked)
  PROVE  LET r == Capture(Replica(d), d, effective[d], config[d]) IN
         /\ phase[d] = "idle" /\ writes' = r.table
         /\ phase' = [phase EXCEPT ![d] = "planned"]
         /\ UNCHANGED <<config, localVars, cloud>>
         /\ decisions' \in 0 .. MaxDecisions
         /\ \E direction \in SyncDirection, seen \in [Devices -> Nat] :
              /\ \A w \in Devices : seen[w] <= Len(cloud[w])
              /\ direction = "Download" => HasRemote(seen)
              /\ front = "command" => direction = "Merge"
              /\ plan' = [plan EXCEPT ![d] =
                            [front |-> front, direction |-> direction, doc |-> r.doc,
                             effective |-> config[d], seen |-> seen, choice |-> Absent]]
<1>. DEFINE r == Capture(Replica(d), d, effective[d], config[d])
            seen == Latest(d, front)
            direction == Directed(d, front, asked, seen)
            costs == IF direction = "Download" /\ ~FirstSync(d) THEN 1 ELSE 0
<1>1. /\ phase[d] = "idle" /\ writes' = r.table
      /\ phase' = [phase EXCEPT ![d] = "planned"]
      /\ UNCHANGED <<config, localVars, cloud>>
      /\ decisions' = decisions - costs /\ decisions >= costs
      /\ plan' = [plan EXCEPT ![d] =
                    [front |-> front, direction |-> direction, doc |-> r.doc,
                     effective |-> config[d], seen |-> seen, choice |-> Absent]]
  BY DEF Prepare
<1>2. /\ cloud \in [Devices -> Seq(SUBSET WriteIds)]
      /\ decisions \in 0 .. MaxDecisions /\ MaxDecisions \in Nat
  BY CausalSyncAssumption DEF Inv, Types
<1>3. seen \in [Devices -> Nat] /\ \A w \in Devices : seen[w] <= Len(cloud[w])
  BY <1>2 DEF Latest
<1>. HIDE DEF r, seen
<1>4. /\ direction \in SyncDirection
      /\ direction = "Download" => HasRemote(seen)
      /\ front = "command" => direction = "Merge"
  BY DEF Directed, SyncDirection
<1>5. costs \in {0, 1}
  OBVIOUS
<1>. HIDE DEF direction, costs
<1>6. decisions' \in 0 .. MaxDecisions
  BY <1>1, <1>2, <1>5
<1>. QED BY <1>1, <1>3, <1>4, <1>6 DEF r

LEMMA PrepareSteps ==
  ASSUME Inv, NEW d \in Devices, NEW front \in FrontEnds[d],
         NEW asked \in {"Merge", "Download"}, Prepare(d, front, asked)
  PROVE  Inv'
<1>. DEFINE r == Capture(Replica(d), d, effective[d], config[d])
<1>0. PICK direction \in SyncDirection, seen \in [Devices -> Nat] :
        /\ \A w \in Devices : seen[w] <= Len(cloud[w])
        /\ direction = "Download" => HasRemote(seen)
        /\ plan' = [plan EXCEPT ![d] =
                      [front |-> front, direction |-> direction, doc |-> r.doc,
                       effective |-> config[d], seen |-> seen, choice |-> Absent]]
  BY Prepares
<1>. DEFINE p == [front |-> front, direction |-> direction, doc |-> r.doc,
                  effective |-> config[d], seen |-> seen, choice |-> Absent]
<1>1. /\ phase[d] = "idle" /\ writes' = r.table
      /\ plan' = [plan EXCEPT ![d] = p] /\ phase' = [phase EXCEPT ![d] = "planned"]
      /\ UNCHANGED <<config, localVars, cloud>>
      /\ decisions' \in 0 .. MaxDecisions
      /\ direction = "Download" => HasRemote(seen)
      /\ front \in {"desktop", "command"}
  BY <1>0, Prepares, CausalSyncAssumption
<1>2. /\ config[d] \in Configs /\ effective[d] \in Configs
      /\ phase \in [Devices -> {"idle", "planned", "applied", "uploaded"}]
      /\ plan \in [Devices -> Plans \cup {NoPlan}]
      /\ cloud \in [Devices -> Seq(SUBSET WriteIds)]
      /\ observed \in [Devices -> [Devices -> Nat]]
  BY DEF Inv, Types
<1>3. Sane(cloud, Replica(d), d, effective[d])
  BY DEF Inv, DeviceInv
<1>4. Grown(cloud, Replica(d), r, d) /\ Baseline(r, config[d])
  <2>. DEFINE x == Replica(d)
  <2>. HIDE DEF x
  <2>. QED BY <1>2, <1>3, CaptureSteps DEF x
<1>5. seen \in [Devices -> Nat] /\ \A w \in Devices : seen[w] <= Len(cloud[w])
  BY <1>0
<1>. HIDE DEF r
<1>6. /\ Good(cloud, r, d) /\ Present(r) /\ Extends(writes, r.table, d)
      /\ document[d] \subseteq r.doc
  BY <1>4 DEF Grown, Replica
<1>7. GoodTable(cloud, writes') /\ TableType(writes') /\ writes' \in [Devices -> Seq(Writes)]
  BY <1>1, <1>6 DEF Good, GoodTable, TableType
<1>8. Remembers(writes', d)
  <2>1. TableType(writes)
    BY TableOfDevice DEF Inv
  <2>. QED BY <1>1, <1>6, <1>7, <2>1, ExtendsRemembers
<1>9. r.doc \subseteq WriteIds /\ p \in Plans
  <2>1. r.doc \subseteq WriteIds
    BY <1>6, GoodDocType
  <2>. QED BY <1>1, <1>2, <1>5, <2>1 DEF Plans
<1>. HIDE DEF p
<1>10. /\ plan'[d] = p /\ phase'[d] = "planned"
       /\ \A e \in Devices \ {d} : phase'[e] = phase[e] /\ plan'[e] = plan[e]
       /\ phase' \in [Devices -> {"idle", "planned", "applied", "uploaded"}]
       /\ plan' \in [Devices -> Plans \cup {NoPlan}]
  BY <1>1, <1>2, <1>9
<1>11. /\ p.doc = r.doc /\ p.effective = config[d] /\ p.seen = seen
       /\ p.direction = direction
  BY DEF p
<1>13. Types'
  BY <1>1, <1>7, <1>10 DEF Inv, Types, localVars
<1>14. PlanFits(d)'
  <2>1. Planned(d)' = [table |-> r.table, doc |-> r.doc]
    BY <1>1, <1>10, <1>11 DEF Planned
  <2>2. Sane(cloud, Planned(d)', d, config[d])
    <3>1. Good(cloud, Planned(d)', d)
      BY <1>6, <2>1 DEF Good
    <3>2. /\ Planned(d)'.doc = r.doc
          /\ \A i \in r.doc : WriteOf(Planned(d)', i) = WriteOf(r, i)
      BY <2>1 DEF WriteOf
    <3>3. Present(Planned(d)') /\ Baseline(Planned(d)', config[d])
      BY <1>4, <1>6, <3>2, SameBaseline
    <3>. QED BY <3>1, <3>3 DEF Sane
  <2>3. Sane(cloud, Planned(d), d, plan[d].effective)'
    BY <1>1, <1>10, <1>11, <2>2
  <2>4. document'[d] \subseteq plan'[d].doc
    BY <1>1, <1>6, <1>10, <1>11 DEF localVars
  <2>5. \A w \in Devices : plan'[d].seen[w] <= Len(cloud'[w])
    BY <1>1, <1>5, <1>10, <1>11
  <2>6. (plan[d].direction = "Download" => HasRemote(plan[d].seen))'
    BY <1>1, <1>10, <1>11 DEF HasRemote
  <2>. QED BY <1>9, <1>10, <2>3, <2>4, <2>5, <2>6 DEF PlanFits
<1>15. DeviceInv'
  BY <1>1, <1>7, <1>8, <1>10, <1>14, DevicesStay
<1>16. CloudInv' /\ ObservedInv'
  BY <1>1, <1>7, <1>8, <1>10, CloudStays
<1>. QED BY <1>13, <1>15, <1>16 DEF Inv

LEMMA ApplySteps ==
  ASSUME Inv, NEW d \in Devices, Apply(d)
  PROVE  Inv'
<1>. DEFINE desired == Materialize(Chosen(d), config[d])
            r == Combined(d, Chosen(d), desired)
            p == plan[d]
            fresh == p.direction = "Download" /\ FirstSync(d)
<1>1. /\ phase[d] = "planned" /\ Applicable(d)
      /\ writes' = r.table
      /\ config' = [config EXCEPT ![d] = desired]
      /\ document' = [document EXCEPT ![d] = r.doc]
      /\ effective' = [effective EXCEPT ![d] = desired]
      /\ observed' = [observed EXCEPT ![d] =
                       [w \in Devices |-> IF p.seen[w] > 0 THEN p.seen[w] ELSE @[w]]]
      /\ published' = IF fresh THEN [published EXCEPT ![d] = {r.doc}] ELSE published
      /\ plan' = [plan EXCEPT ![d] = NoPlan]
      /\ UNCHANGED <<sequence, pending, cloud, decisions>>
      /\ \E x \in {"applied", "idle"} : phase' = [phase EXCEPT ![d] = x]
  BY DEF Apply, Publishing
<1>2. /\ desired \in Configs /\ Sane(cloud, r, d, desired)
      /\ Extends(writes, r.table, d)
      /\ RemoteDocument(p.seen) \subseteq r.doc
      /\ p.direction # "Download" \/ ~FirstSync(d) => document[d] \subseteq r.doc
  <2>. HIDE DEF p
  <2>. QED BY <1>1, AppliedSteps DEF p
<1>. HIDE DEF desired, r
<1>3. PlanFits(d) /\ p \in Plans
  BY <1>1 DEF Inv, DeviceInv, PlanFits
<1>4. /\ Good(cloud, r, d) /\ Present(r)
      /\ GoodTable(cloud, writes') /\ TableType(writes') /\ writes' \in [Devices -> Seq(Writes)]
      /\ r.doc \subseteq WriteIds
  BY <1>1, <1>2, GoodDocType DEF Sane, Good, GoodTable, TableType
<1>5. Remembers(writes', d)
  <2>1. TableType(writes)
    BY TableOfDevice DEF Inv
  <2>. QED BY <1>1, <1>2, <1>4, <2>1, ExtendsRemembers
<1>6. /\ config \in [Devices -> Configs] /\ effective \in [Devices -> Configs]
      /\ document \in [Devices -> SUBSET WriteIds]
      /\ published \in [Devices -> SUBSET (SUBSET WriteIds)]
      /\ observed \in [Devices -> [Devices -> Nat]]
      /\ phase \in [Devices -> {"idle", "planned", "applied", "uploaded"}]
      /\ plan \in [Devices -> Plans \cup {NoPlan}]
      /\ sequence \in [Devices -> Nat \ {0}]
      /\ cloud \in [Devices -> Seq(SUBSET WriteIds)]
  BY DEF Inv, Types
<1>7. p.seen \in [Devices -> Nat]
  BY <1>3 DEF Plans
<1>8. /\ document'[d] = r.doc /\ effective'[d] = desired
      /\ phase'[d] \in {"applied", "idle"} /\ plan'[d] = NoPlan
      /\ \A w \in Devices : observed'[d][w] = IF p.seen[w] > 0 THEN p.seen[w] ELSE observed[d][w]
      /\ published'[d] = IF fresh THEN {r.doc} ELSE published[d]
  BY <1>1, <1>6, <1>7
<1>9. \A e \in Devices \ {d} :
        /\ document'[e] = document[e] /\ effective'[e] = effective[e]
        /\ phase'[e] = phase[e] /\ plan'[e] = plan[e]
        /\ observed'[e] = observed[e] /\ published'[e] = published[e]
  BY <1>1, <1>6
<1>10. Types'
  <2>1. config' \in [Devices -> Configs] /\ effective' \in [Devices -> Configs]
    BY <1>1, <1>2, <1>6
  <2>2. document' \in [Devices -> SUBSET WriteIds]
    BY <1>1, <1>4, <1>6
  <2>3. published' \in [Devices -> SUBSET (SUBSET WriteIds)]
    BY <1>1, <1>4, <1>6
  <2>4. observed' \in [Devices -> [Devices -> Nat]]
    BY <1>1, <1>6, <1>7
  <2>5. phase' \in [Devices -> {"idle", "planned", "applied", "uploaded"}]
    BY <1>1, <1>6
  <2>6. plan' \in [Devices -> Plans \cup {NoPlan}]
    BY <1>1, <1>6
  <2>. QED BY <1>1, <1>4, <2>1, <2>2, <2>3, <2>4, <2>5, <2>6 DEF Inv, Types
<1>11. /\ \A e \in Devices :
            Sane(cloud, [table |-> writes', doc |-> document[e]], e, effective[e])
       /\ \A e \in Devices \ {d} : phase[e] = "planned" =>
            Sane(cloud, [table |-> writes', doc |-> plan[e].doc], e, plan[e].effective)
       /\ \A e \in Devices : \A n \in 1 .. Len(cloud[e]) :
            Present([table |-> writes', doc |-> cloud[e][n]])
       /\ \A e \in Devices : \A s \in pending[e] : Present([table |-> writes', doc |-> s])
  BY <1>4, <1>5, OthersStay
<1>12. DeviceInv'
  <2>. SUFFICES ASSUME NEW e \in Devices
                PROVE  /\ Sane(cloud, Replica(e), e, effective[e])'
                       /\ (IF phase[e] = "planned" THEN PlanFits(e) ELSE plan[e] = NoPlan)'
    BY DEF DeviceInv
  <2>1. Replica(e)' = [table |-> writes', doc |-> document'[e]]
    BY DEF Replica
  <2>2. CASE e = d
    <3>1. Replica(d)' = [table |-> r.table, doc |-> r.doc]
      BY <1>1, <1>8, <2>1, <2>2
    <3>2. Sane(cloud, Replica(d)', d, desired)
      <4>1. Good(cloud, Replica(d)', d)
        BY <1>4, <3>1 DEF Good
      <4>2. /\ Replica(d)'.doc = r.doc
            /\ \A i \in r.doc : WriteOf(Replica(d)', i) = WriteOf(r, i)
        BY <3>1 DEF WriteOf
      <4>3. Baseline(r, desired)
        BY <1>2 DEF Sane
      <4>4. Present(Replica(d)') /\ Baseline(Replica(d)', desired)
        BY <1>4, <4>2, <4>3, SameBaseline
      <4>. QED BY <4>1, <4>4 DEF Sane
    <3>3. Sane(cloud, Replica(d), d, effective[d])'
      BY <1>1, <1>8, <3>2
    <3>. QED BY <1>8, <2>2, <3>3
  <2>3. CASE e # d
    <3>1. phase'[e] = phase[e] /\ plan'[e] = plan[e] /\ document'[e] = document[e]
          /\ effective'[e] = effective[e] /\ cloud' = cloud
      BY <1>1, <1>9, <2>3
    <3>2. Sane(cloud, Replica(e), e, effective[e])'
      BY <1>11, <2>1, <3>1
    <3>3. IF phase[e] = "planned" THEN PlanFits(e) ELSE plan[e] = NoPlan
      BY DEF Inv, DeviceInv
    <3>4. CASE phase[e] = "planned"
      <4>1. Planned(e)' = [table |-> writes', doc |-> plan[e].doc]
        BY <3>1 DEF Planned
      <4>2. Sane(cloud, Planned(e), e, plan[e].effective)'
        BY <1>11, <2>3, <3>1, <3>4, <4>1
      <4>3. HasRemote(plan[e].seen)' = HasRemote(plan[e].seen)
        BY <3>1 DEF HasRemote
      <4>. QED BY <3>1, <3>2, <3>3, <3>4, <4>2, <4>3 DEF PlanFits
    <3>5. CASE phase[e] # "planned"
      BY <3>1, <3>2, <3>3, <3>5
    <3>. QED BY <3>4, <3>5
  <2>. QED BY <2>2, <2>3
<1>13. FirstSync(d) => pending[d] = {} /\ published[d] = {} /\ Len(cloud[d]) = 0
  <2>. SUFFICES ASSUME FirstSync(d)
                PROVE  pending[d] = {} /\ published[d] = {} /\ Len(cloud[d]) = 0
    OBVIOUS
  <2>1. StagedFits(d) /\ PublishedFits(d)
    BY DEF Inv, CloudInv
  <2>2. published[d] = {}
    BY <2>1 DEF PublishedFits
  <2>3. sequence[d] = 1
    BY DEF FirstSync
  <2>4. pending[d] = {} /\ Len(cloud[d]) = sequence[d] - 1
    BY <2>1, <2>3 DEF StagedFits
  <2>. QED BY <2>2, <2>3, <2>4
<1>14. document[d] \subseteq document'[d] \/ FirstSync(d)
  BY <1>2, <1>8
<1>15. CloudInv'
  <2>1. ASSUME NEW e \in Devices PROVE SnapshotsFit(e)'
    <3>1. SnapshotsFit(e)
      BY DEF Inv, CloudInv
    <3>2. CASE e = d
      <4>1. CASE FirstSync(d)
        BY <1>1, <1>13, <3>2, <4>1 DEF SnapshotsFit
      <4>2. CASE ~FirstSync(d)
        <5>1. document[d] \subseteq document'[d]
          BY <1>14, <4>2
        <5>. QED BY <1>1, <1>11, <3>1, <3>2, <5>1 DEF SnapshotsFit
      <4>. QED BY <4>1, <4>2
    <3>3. CASE e # d
      BY <1>1, <1>9, <1>11, <3>1, <3>3 DEF SnapshotsFit
    <3>. QED BY <3>2, <3>3
  <2>2. ASSUME NEW e \in Devices PROVE StagedFits(e)'
    <3>1. StagedFits(e)
      BY DEF Inv, CloudInv
    <3>2. phase'[e] = "uploaded" => phase[e] = "uploaded"
      BY <1>8, <1>9
    <3>3. CASE pending[e] = {}
      BY <1>1, <3>1, <3>2, <3>3 DEF StagedFits
    <3>4. CASE pending[e] # {}
      <4>1. PICK s \in SUBSET document[e] :
              /\ pending[e] = {s}
              /\ Len(cloud[e]) = sequence[e] - 1 => cloud[e][sequence[e] - 1] = s
        BY <3>1, <3>4 DEF StagedFits
      <4>2. Present([table |-> writes', doc |-> s])
        BY <1>11, <4>1
      <4>3. s \in SUBSET document'[e]
        BY <1>9, <1>13, <1>14, <3>4
      <4>. QED BY <1>1, <3>1, <3>2, <3>4, <4>1, <4>2, <4>3 DEF StagedFits
    <3>. QED BY <3>3, <3>4
  <2>3. ASSUME NEW e \in Devices PROVE PublishedFits(e)'
    <3>1. PublishedFits(e)
      BY DEF Inv, CloudInv
    <3>2. CASE e = d
      <4>1. CASE fresh
        <5>1. PICK w \in Devices : p.seen[w] > 0
          BY <1>3, <4>1 DEF PlanFits, HasRemote
        <5>2. observed'[d][w] > 0
          BY <1>8, <5>1
        <5>3. ~FirstSync(d)'
          BY <5>2 DEF FirstSync
        <5>. QED BY <1>8, <3>2, <4>1, <5>3 DEF PublishedFits
      <4>2. CASE ~fresh
        <5>1. published'[d] = published[d] /\ document[d] \subseteq r.doc
          BY <1>2, <1>8, <4>2
        <5>2. published[d] # {} => ~FirstSync(d)'
          <6>. SUFFICES ASSUME published[d] # {} PROVE ~FirstSync(d)'
            OBVIOUS
          <6>1. ~FirstSync(d)
            BY <3>1, <3>2 DEF PublishedFits
          <6>2. CASE sequence[d] # 1
            BY <1>1, <6>2 DEF FirstSync
          <6>3. CASE \E w \in Devices : observed[d][w] # 0
            <7>1. PICK w \in Devices : observed[d][w] # 0
              BY <6>3
            <7>2. observed'[d][w] # 0
              BY <1>7, <1>8, <7>1
            <7>. QED BY <7>2 DEF FirstSync
          <6>. QED BY <6>1, <6>2, <6>3 DEF FirstSync
        <5>. QED BY <1>8, <3>1, <3>2, <5>1, <5>2 DEF PublishedFits
      <4>. QED BY <4>1, <4>2
    <3>3. CASE e # d
      <4>1. FirstSync(e)' = FirstSync(e)
        BY <1>1, <1>9, <3>3 DEF FirstSync
      <4>. QED BY <1>9, <3>1, <3>3, <4>1 DEF PublishedFits
    <3>. QED BY <3>2, <3>3
  <2>. QED BY <2>1, <2>2, <2>3 DEF CloudInv
<1>16. ObservedInv'
  <2>. SUFFICES ASSUME NEW e \in Devices, NEW w \in Devices
                PROVE  /\ observed'[e][w] <= Len(cloud[w])
                       /\ observed'[e][w] > 0 => cloud[w][observed'[e][w]] \subseteq document'[e]
    BY <1>1 DEF ObservedInv
  <2>1. /\ observed[e][w] <= Len(cloud[w])
        /\ observed[e][w] > 0 => cloud[w][observed[e][w]] \subseteq document[e]
    BY DEF Inv, ObservedInv
  <2>2. CASE e # d
    BY <1>9, <2>1, <2>2
  <2>3. CASE e = d /\ p.seen[w] > 0
    <3>1. cloud[w][p.seen[w]] \subseteq RemoteDocument(p.seen)
      BY <2>3 DEF RemoteDocument
    <3>2. p.seen[w] <= Len(cloud[w])
      BY <1>3 DEF PlanFits
    <3>. QED BY <1>2, <1>8, <2>3, <3>1, <3>2
  <2>4. CASE e = d /\ ~(p.seen[w] > 0)
    <3>1. observed'[d][w] = observed[d][w]
      BY <1>8, <2>4
    <3>2. FirstSync(d) => observed[d][w] = 0
      BY DEF FirstSync
    <3>. QED BY <1>14, <2>1, <2>4, <3>1, <3>2
  <2>. QED BY <2>2, <2>3, <2>4
<1>. QED BY <1>10, <1>12, <1>15, <1>16 DEF Inv

LEMMA StageSteps ==
  ASSUME Inv, NEW d \in Devices, Stage(d)
  PROVE  Inv'
<1>1. /\ phase[d] = "applied" /\ pending[d] = {}
      /\ pending' = [pending EXCEPT ![d] = {document[d]}]
      /\ sequence' = [sequence EXCEPT ![d] = @ + 1]
      /\ UNCHANGED <<writes, config, document, effective, published, observed, cloud,
                     phase, plan, decisions>>
  BY DEF Stage
<1>2. /\ document \in [Devices -> SUBSET WriteIds] /\ sequence \in [Devices -> Nat \ {0}]
      /\ pending \in [Devices -> SUBSET (SUBSET WriteIds)]
  BY DEF Inv, Types
<1>3. /\ pending'[d] = {document[d]} /\ sequence'[d] = sequence[d] + 1
      /\ \A e \in Devices \ {d} : pending'[e] = pending[e] /\ sequence'[e] = sequence[e]
      /\ pending' \in [Devices -> SUBSET (SUBSET WriteIds)]
      /\ sequence' \in [Devices -> Nat \ {0}]
  BY <1>1, <1>2
<1>4. Types'
  BY <1>1, <1>3 DEF Inv, Types
<1>5. DeviceInv'
  <2>1. \A e \in Devices : /\ Replica(e)' = Replica(e) /\ Planned(e)' = Planned(e)
                           /\ HasRemote(plan[e].seen)' = HasRemote(plan[e].seen)
    BY <1>1 DEF Replica, Planned, HasRemote
  <2>. QED BY <1>1, <2>1 DEF Inv, DeviceInv, PlanFits
<1>6. ObservedInv' /\ \A e \in Devices : SnapshotsFit(e)'
  BY <1>1 DEF Inv, CloudInv, SnapshotsFit, ObservedInv
<1>7. ASSUME NEW e \in Devices PROVE StagedFits(e)' /\ PublishedFits(e)'
  <2>1. StagedFits(e) /\ PublishedFits(e)
    BY DEF Inv, CloudInv
  <2>2. CASE e # d
    <3>1. FirstSync(e)' = FirstSync(e)
      BY <1>1, <1>3, <2>2 DEF FirstSync
    <3>. QED BY <1>1, <1>3, <2>1, <2>2, <3>1 DEF StagedFits, PublishedFits
  <2>3. CASE e = d
    <3>1. Len(cloud[d]) = sequence[d] - 1 /\ sequence[d] \in Nat \ {0}
      BY <1>1, <1>2, <2>1, <2>3 DEF StagedFits
    <3>2. Len(cloud[d]) = sequence'[d] - 2 /\ sequence'[d] > 1
      BY <1>3, <3>1
    <3>3. Present([table |-> writes, doc |-> document[d]])
      BY TableOfDevice DEF Inv, Replica
    <3>4. StagedFits(d)'
      <4>1. /\ pending'[d] # {} /\ phase'[d] # "uploaded"
            /\ Len(cloud'[d]) = sequence'[d] - 2 /\ Len(cloud'[d]) # sequence'[d] - 1
            /\ sequence'[d] > 1
        BY <1>1, <1>3, <3>1
      <4>2. /\ document[d] \in SUBSET document'[d] /\ pending'[d] = {document[d]}
            /\ Present([table |-> writes', doc |-> document[d]])
        BY <1>1, <1>3, <3>3
      <4>. QED BY <4>1, <4>2 DEF StagedFits
    <3>5. PublishedFits(d)'
      BY <1>1, <2>1, <2>3, <3>2 DEF PublishedFits, FirstSync
    <3>. QED BY <2>3, <3>4, <3>5
  <2>. QED BY <2>2, <2>3
<1>8. CloudInv'
  BY <1>6, <1>7 DEF CloudInv
<1>. QED BY <1>4, <1>5, <1>6, <1>8 DEF Inv

LEMMA ConfirmSteps ==
  ASSUME Inv, NEW d \in Devices, Confirm(d)
  PROVE  Inv'
<1>1. /\ phase[d] = "uploaded"
      /\ pending' = [pending EXCEPT ![d] = {}]
      /\ published' = [published EXCEPT ![d] = pending[d]]
      /\ observed' = [observed EXCEPT ![d][d] = sequence[d] - 1]
      /\ UNCHANGED <<writes, config, document, effective, sequence, cloud, plan, decisions>>
      /\ \E x \in {"applied", "idle"} : phase' = [phase EXCEPT ![d] = x]
  BY DEF Confirm, Publishing
<1>2. /\ sequence \in [Devices -> Nat \ {0}]
      /\ pending \in [Devices -> SUBSET (SUBSET WriteIds)]
      /\ published \in [Devices -> SUBSET (SUBSET WriteIds)]
      /\ observed \in [Devices -> [Devices -> Nat]]
      /\ phase \in [Devices -> {"idle", "planned", "applied", "uploaded"}]
  BY DEF Inv, Types
<1>3. StagedFits(d) /\ phase[d] = "uploaded"
  BY <1>1 DEF Inv, CloudInv
<1>4. PICK s \in SUBSET document[d] :
        /\ pending[d] = {s} /\ Len(cloud[d]) = sequence[d] - 1
        /\ cloud[d][sequence[d] - 1] = s /\ sequence[d] > 1
  BY <1>3 DEF StagedFits
<1>5. /\ pending'[d] = {} /\ published'[d] = {s} /\ observed'[d][d] = sequence[d] - 1
      /\ phase'[d] \in {"applied", "idle"}
      /\ \A w \in Devices \ {d} : observed'[d][w] = observed[d][w]
      /\ \A e \in Devices \ {d} : /\ pending'[e] = pending[e] /\ published'[e] = published[e]
                                  /\ observed'[e] = observed[e] /\ phase'[e] = phase[e]
  BY <1>1, <1>2, <1>4
<1>6. Types'
  <2>1. pending' \in [Devices -> SUBSET (SUBSET WriteIds)]
    BY <1>1, <1>2
  <2>2. published' \in [Devices -> SUBSET (SUBSET WriteIds)]
    BY <1>1, <1>2
  <2>3. observed' \in [Devices -> [Devices -> Nat]]
    <3>1. sequence[d] - 1 \in Nat
      BY <1>2
    <3>. QED BY <1>1, <1>2, <3>1
  <2>4. phase' \in [Devices -> {"idle", "planned", "applied", "uploaded"}]
    BY <1>1, <1>2
  <2>. QED BY <1>1, <2>1, <2>2, <2>3, <2>4 DEF Inv, Types
<1>7. DeviceInv'
  <2>1. \A e \in Devices : /\ Replica(e)' = Replica(e) /\ Planned(e)' = Planned(e)
                           /\ HasRemote(plan[e].seen)' = HasRemote(plan[e].seen)
    BY <1>1 DEF Replica, Planned, HasRemote
  <2>2. \A e \in Devices : phase'[e] = "planned" <=> phase[e] = "planned"
    BY <1>1, <1>5
  <2>. QED BY <1>1, <2>1, <2>2 DEF Inv, DeviceInv, PlanFits
<1>8. \A e \in Devices : SnapshotsFit(e)'
  BY <1>1 DEF Inv, CloudInv, SnapshotsFit
<1>9. ASSUME NEW e \in Devices PROVE StagedFits(e)' /\ PublishedFits(e)'
  <2>1. StagedFits(e) /\ PublishedFits(e)
    BY DEF Inv, CloudInv
  <2>2. CASE e # d
    <3>1. FirstSync(e)' = FirstSync(e)
      BY <1>1, <1>5, <2>2 DEF FirstSync
    <3>. QED BY <1>1, <1>5, <2>1, <2>2, <3>1 DEF StagedFits, PublishedFits
  <2>3. CASE e = d
    <3>1. StagedFits(d)'
      BY <1>1, <1>4, <1>5 DEF StagedFits
    <3>2. PublishedFits(d)'
      BY <1>1, <1>4, <1>5 DEF PublishedFits, FirstSync
    <3>. QED BY <2>3, <3>1, <3>2
  <2>. QED BY <2>2, <2>3
<1>10. CloudInv'
  BY <1>8, <1>9 DEF CloudInv
<1>11. ObservedInv'
  <2>. SUFFICES ASSUME NEW e \in Devices, NEW w \in Devices
                PROVE  /\ observed'[e][w] <= Len(cloud[w])
                       /\ observed'[e][w] > 0 => cloud[w][observed'[e][w]] \subseteq document[e]
    BY <1>1 DEF ObservedInv
  <2>1. CASE e = d /\ w = d
    BY <1>2, <1>4, <1>5, <2>1
  <2>2. CASE ~(e = d /\ w = d)
    <3>1. observed'[e][w] = observed[e][w]
      BY <1>5, <2>2
    <3>. QED BY <3>1 DEF Inv, ObservedInv
  <2>. QED BY <2>1, <2>2
<1>. QED BY <1>6, <1>7, <1>10, <1>11 DEF Inv

(* What is known of the writes stays known when the cloud grows.            *)
LEMMA SaneGrows ==
  ASSUME NEW cl, NEW cm, NEW r, NEW e \in Devices, NEW c, Sane(cl, r, e, c),
         \A i : i[1] \in Devices /\ Home(cl, i) => Home(cm, i)
  PROVE  Sane(cm, r, e, c)
<1>1. GoodTable(cl, r.table) /\ GoodDoc(cl, r.table, r.doc, e)
  BY DEF Sane, Good
<1>2. OverHome(cm, r.table)
  <2>1. PICK rank \in [WriteIds -> Nat], top \in Nat : RankedBy(r.table, rank, top)
    BY <1>1 DEF GoodTable, Ranked
  <2>. SUFFICES ASSUME NEW f \in Devices, NEW k \in 1 .. Len(r.table[f]),
                       NEW i \in r.table[f][k].over
                PROVE  IF i[1] = f THEN i[2] < k ELSE Home(cm, i)
    BY DEF OverHome
  <2>2. IF i[1] = f THEN i[2] < k ELSE Home(cl, i)
    BY <1>1 DEF GoodTable, OverHome
  <2>3. i[1] \in Devices
    BY <2>1 DEF RankedBy, Known, WriteIds
  <2>. QED BY <2>2, <2>3
<1>3. GoodDoc(cm, r.table, r.doc, e)
  BY <1>1 DEF GoodDoc, Known, WriteIds
<1>. QED BY <1>1, <1>2, <1>3 DEF Sane, Good, GoodTable

LEMMA UploadSteps ==
  ASSUME Inv, NEW d \in Devices, Upload(d)
  PROVE  Inv'
<1>1. /\ phase[d] = "applied" /\ phase' = [phase EXCEPT ![d] = "uploaded"]
      /\ UNCHANGED <<writes, config, document, effective, sequence, pending, published,
                     observed, plan, decisions>>
      /\ \E x \in pending[d] :
           cloud' = IF Len(cloud[d]) < sequence[d] - 1
                    THEN [cloud EXCEPT ![d] = Append(@, x)] ELSE cloud
  BY DEF Upload, localVars
<1>2. /\ cloud \in [Devices -> Seq(SUBSET WriteIds)] /\ sequence \in [Devices -> Nat \ {0}]
      /\ phase \in [Devices -> {"idle", "planned", "applied", "uploaded"}]
      /\ document \in [Devices -> SUBSET WriteIds]
  BY DEF Inv, Types
<1>3. StagedFits(d) /\ pending[d] # {}
  BY <1>1 DEF Inv, CloudInv
<1>4. PICK s \in SUBSET document[d] :
        /\ pending[d] = {s} /\ Present([table |-> writes, doc |-> s]) /\ sequence[d] > 1
        /\ Len(cloud[d]) \in {sequence[d] - 2, sequence[d] - 1}
        /\ Len(cloud[d]) = sequence[d] - 1 => cloud[d][sequence[d] - 1] = s
  BY <1>3 DEF StagedFits
<1>5. cloud' = IF Len(cloud[d]) < sequence[d] - 1
               THEN [cloud EXCEPT ![d] = Append(@, s)] ELSE cloud
  BY <1>1, <1>4
<1>6. s \in SUBSET WriteIds
  BY <1>2, <1>4
<1>7. /\ cloud' \in [Devices -> Seq(SUBSET WriteIds)]
      /\ \A e \in Devices \ {d} : cloud'[e] = cloud[e]
  BY <1>2, <1>5, <1>6
<1>8. /\ Len(cloud'[d]) = sequence[d] - 1 /\ cloud'[d][sequence[d] - 1] = s
      /\ Len(cloud[d]) <= Len(cloud'[d])
      /\ \A n \in 1 .. Len(cloud[d]) : cloud'[d][n] = cloud[d][n]
      /\ \A n \in 1 .. Len(cloud'[d]) : n \in 1 .. Len(cloud[d]) \/ cloud'[d][n] = s
  <2>1. CASE Len(cloud[d]) < sequence[d] - 1
    <3>1. Len(cloud[d]) = sequence[d] - 2 /\ cloud'[d] = Append(cloud[d], s)
      BY <1>2, <1>4, <1>5, <2>1
    <3>2. cloud[d] \in Seq(SUBSET WriteIds) /\ Len(cloud[d]) \in Nat
      BY <1>2
    <3>. QED BY <1>2, <1>6, <3>1, <3>2
  <2>2. CASE ~(Len(cloud[d]) < sequence[d] - 1)
    BY <1>2, <1>4, <1>5, <2>2
  <2>. QED BY <2>1, <2>2
<1>9. \A w \in Devices : /\ Len(cloud[w]) <= Len(cloud'[w])
                         /\ \A n \in 1 .. Len(cloud[w]) : cloud'[w][n] = cloud[w][n]
  <2>. TAKE w \in Devices
  <2>1. CASE w = d
    BY <1>8, <2>1
  <2>2. CASE w # d
    <3>1. cloud'[w] = cloud[w] /\ Len(cloud[w]) \in Nat
      BY <1>2, <1>7, <2>2
    <3>. QED BY <3>1
  <2>. QED BY <2>1, <2>2
<1>10. \A i : i[1] \in Devices /\ Home(cloud, i) => Home(cloud', i)
  <2>. SUFFICES ASSUME NEW i, i[1] \in Devices, NEW n \in 1 .. Len(cloud[i[1]]),
                       i \in cloud[i[1]][n]
                PROVE  \E m \in 1 .. Len(cloud'[i[1]]) : i \in cloud'[i[1]][m]
    BY DEF Home
  <2>1. cloud[i[1]] \in Seq(SUBSET WriteIds) /\ cloud'[i[1]] \in Seq(SUBSET WriteIds)
    BY <1>2, <1>7
  <2>2. n \in 1 .. Len(cloud'[i[1]]) /\ cloud'[i[1]][n] = cloud[i[1]][n]
    BY <1>9, <2>1
  <2>. QED BY <2>2
<1>11. /\ phase'[d] = "uploaded"
       /\ \A e \in Devices \ {d} : phase'[e] = phase[e]
       /\ phase' \in [Devices -> {"idle", "planned", "applied", "uploaded"}]
  BY <1>1, <1>2
<1>12. Types'
  BY <1>1, <1>7, <1>11 DEF Inv, Types
<1>13. DeviceInv'
  <2>. SUFFICES ASSUME NEW e \in Devices
                PROVE  /\ Sane(cloud, Replica(e), e, effective[e])'
                       /\ (IF phase[e] = "planned" THEN PlanFits(e) ELSE plan[e] = NoPlan)'
    BY DEF DeviceInv
  <2>1. /\ Sane(cloud, Replica(e), e, effective[e])
        /\ IF phase[e] = "planned" THEN PlanFits(e) ELSE plan[e] = NoPlan
    BY DEF Inv, DeviceInv
  <2>2. Replica(e)' = Replica(e) /\ Planned(e)' = Planned(e)
        /\ HasRemote(plan[e].seen)' = HasRemote(plan[e].seen)
    BY <1>1 DEF Replica, Planned, HasRemote
  <2>3. Sane(cloud, Replica(e), e, effective[e])'
    <3>1. Sane(cloud', Replica(e), e, effective[e])
      BY <1>10, <2>1, SaneGrows
    <3>. QED BY <1>1, <2>2, <3>1
  <2>4. phase'[e] = "planned" <=> phase[e] = "planned"
    BY <1>1, <1>11
  <2>5. CASE phase[e] = "planned"
    <3>1. Sane(cloud, Planned(e), e, plan[e].effective) /\ plan[e] \in Plans
      BY <2>1, <2>5 DEF PlanFits
    <3>2. Sane(cloud', Planned(e), e, plan[e].effective)
      BY <1>10, <3>1, SaneGrows
    <3>3. Sane(cloud, Planned(e), e, plan[e].effective)'
      BY <1>1, <2>2, <3>2
    <3>4. \A w \in Devices : plan[e].seen[w] <= Len(cloud'[w])
      <4>. TAKE w \in Devices
      <4>1. plan[e].seen[w] \in Nat /\ Len(cloud[w]) \in Nat /\ Len(cloud'[w]) \in Nat
        BY <1>2, <1>7, <3>1 DEF Plans
      <4>2. plan[e].seen[w] <= Len(cloud[w]) /\ Len(cloud[w]) <= Len(cloud'[w])
        BY <1>9, <2>1, <2>5 DEF PlanFits
      <4>. QED BY <4>1, <4>2
    <3>. QED BY <1>1, <2>1, <2>2, <2>3, <2>4, <2>5, <3>3, <3>4 DEF PlanFits
  <2>6. CASE phase[e] # "planned"
    BY <1>1, <2>1, <2>3, <2>4, <2>6
  <2>. QED BY <2>5, <2>6
<1>14. CloudInv'
  <2>. SUFFICES ASSUME NEW e \in Devices
                PROVE  SnapshotsFit(e)' /\ StagedFits(e)' /\ PublishedFits(e)'
    BY DEF CloudInv
  <2>1. SnapshotsFit(e) /\ StagedFits(e) /\ PublishedFits(e)
    BY DEF Inv, CloudInv
  <2>2. PublishedFits(e)'
    BY <1>1, <2>1 DEF PublishedFits, FirstSync
  <2>3. CASE e = d
    <3>1. SnapshotsFit(d)'
      BY <1>1, <1>4, <1>8, <2>1, <2>3 DEF SnapshotsFit
    <3>2. StagedFits(d)'
      BY <1>1, <1>4, <1>8 DEF StagedFits
    <3>. QED BY <2>2, <2>3, <3>1, <3>2
  <2>4. CASE e # d
    BY <1>1, <1>7, <1>11, <2>1, <2>2, <2>4 DEF SnapshotsFit, StagedFits
  <2>. QED BY <2>3, <2>4
<1>15. ObservedInv'
  <2>. SUFFICES ASSUME NEW e \in Devices, NEW w \in Devices
                PROVE  /\ observed[e][w] <= Len(cloud'[w])
                       /\ observed[e][w] > 0 => cloud'[w][observed[e][w]] \subseteq document[e]
    BY <1>1 DEF ObservedInv
  <2>1. /\ observed[e][w] <= Len(cloud[w]) /\ observed[e][w] \in Nat
        /\ observed[e][w] > 0 => cloud[w][observed[e][w]] \subseteq document[e]
    BY DEF Inv, ObservedInv, Types
  <2>2. Len(cloud[w]) \in Nat /\ Len(cloud'[w]) \in Nat
    BY <1>2, <1>7
  <2>. QED BY <1>9, <2>1, <2>2
<1>. QED BY <1>12, <1>13, <1>14, <1>15 DEF Inv

(* Every action keeps the invariant: the edits of the user, the three       *)
(* directions of a sync, its failures, and the publication.                 *)
THEOREM InvNext == Inv /\ [Next]_vars => Inv'
<1>. SUFFICES ASSUME Inv, [Next]_vars PROVE Inv'
  OBVIOUS
<1>1. CASE Next
  <2>1. PICK d \in Devices :
          \/ \E c \in Configs : Edit(d, c)
          \/ \E front \in FrontEnds[d], asked \in {"Merge", "Download"} :
               Prepare(d, front, asked)
          \/ \E direction \in SyncDirection : Turn(d, direction)
          \/ Choose(d) \/ Apply(d) \/ ApplyFails(d) \/ Abandon(d)
          \/ Stage(d) \/ Upload(d) \/ Confirm(d)
    BY <1>1 DEF Next
  <2>2. ASSUME NEW front \in FrontEnds[d], NEW asked \in {"Merge", "Download"},
               Prepare(d, front, asked)
        PROVE  Inv'
    BY <2>2, PrepareSteps
  <2>3. CASE Apply(d)
    BY <2>3, ApplySteps
  <2>4. CASE ApplyFails(d)
    BY <2>4, DropSteps DEF ApplyFails, Inv, Types
  <2>5. CASE Stage(d)
    BY <2>5, StageSteps
  <2>6. CASE Upload(d)
    BY <2>6, UploadSteps
  <2>7. CASE Confirm(d)
    BY <2>7, ConfirmSteps
  <2>8. ASSUME NEW c \in Configs, Edit(d, c) PROVE Inv'
    BY <2>8, EditSteps
  <2>9. CASE Choose(d)
    BY <2>9, ChooseSteps
  <2>10. CASE Abandon(d)
    <3>1. DropPlan(d) /\ decisions' \in 0 .. MaxDecisions
      BY <2>10, CausalSyncAssumption DEF Abandon, Inv, Types
    <3>. QED BY <3>1, DropSteps
  <2>11. ASSUME NEW direction \in SyncDirection, Turn(d, direction) PROVE Inv'
    BY <2>11, TurnSteps
  <2>. QED BY <2>1, <2>2, <2>3, <2>4, <2>5, <2>6, <2>7, <2>8, <2>9, <2>10, <2>11
<1>2. CASE UNCHANGED vars
  <2>. USE <1>2 DEF vars
  <2>1. Types'
    BY DEF Inv, Types
  <2>2. DeviceInv'
    BY DEF Inv, DeviceInv, PlanFits, Replica, Planned, HasRemote
  <2>3. CloudInv' /\ ObservedInv'
    BY DEF Inv, CloudInv, SnapshotsFit, StagedFits, PublishedFits, FirstSync, ObservedInv
  <2>. QED BY <2>1, <2>2, <2>3 DEF Inv
<1>. QED BY <1>1, <1>2

(* The invariant holds of every run of any finite number of devices.        *)
THEOREM InvHolds == Spec => []Inv
  BY InvInit, InvNext, PTL DEF Spec

(* Every variable of a device keeps its type; what it has staged or         *)
(* published is part of its document, what it has observed is in the cloud, *)
(* and every write replaces writes that the table has.                      *)
THEOREM TypeCorrect == Spec => []TypeOK
<1>1. Inv => TypeOK
  <2>. SUFFICES ASSUME Inv PROVE TypeOK
    OBVIOUS
  <2>1. Types /\ DeviceInv /\ CloudInv /\ ObservedInv
    BY DEF Inv
  <2>2. ASSUME NEW d \in Devices, NEW k \in 1 .. Len(writes[d])
        PROVE  /\ writes[d][k].field \in {"presence", "name"}
               /\ writes[d][k].value \in IF writes[d][k].field = "name"
                                         THEN Names ELSE {"kept", "gone"}
               /\ \A i \in writes[d][k].over : i[1] \in Devices /\ i[2] \in 1 .. Len(writes[i[1]])
    <3>1. GoodTable(cloud, writes)
      BY <2>1, TableOfDevice
    <3>2. writes[d] \in Seq(Writes)
      BY <2>1 DEF Types
    <3>3. writes[d][k] \in Writes
      BY <3>2
    <3>4. ValueFits(writes[d][k].field, writes[d][k].value)
      BY <3>1 DEF GoodTable, TableType
    <3>5. PICK rank \in [WriteIds -> Nat], top \in Nat : RankedBy(writes, rank, top)
      BY <3>1 DEF GoodTable, Ranked
    <3>6. ASSUME NEW i \in writes[d][k].over
          PROVE  i[1] \in Devices /\ i[2] \in 1 .. Len(writes[i[1]])
      <4>1. Known(writes, i)
        BY <3>5 DEF RankedBy
      <4>2. i[1] \in Devices /\ i[2] \in Nat \ {0} /\ i[2] <= Len(writes[i[1]])
        BY <4>1 DEF Known, WriteIds
      <4>3. Len(writes[i[1]]) \in Nat
        BY <2>1, <4>2 DEF Types
      <4>. QED BY <4>2, <4>3
    <3>. QED BY <3>3, <3>4, <3>6 DEF Writes, ValueFits
  <2>3. ASSUME NEW d \in Devices, NEW i \in document[d]
        PROVE  i[1] \in Devices /\ i[2] \in 1 .. Len(writes[i[1]])
    <3>1. GoodDoc(cloud, writes, document[d], d)
      BY <2>1, TableOfDevice
    <3>2. Known(writes, i)
      BY <3>1 DEF GoodDoc
    <3>3. i[1] \in Devices /\ i[2] \in Nat \ {0} /\ i[2] <= Len(writes[i[1]])
      BY <3>2 DEF Known, WriteIds
    <3>4. Len(writes[i[1]]) \in Nat
      BY <2>1, <3>3 DEF Types
    <3>. QED BY <3>3, <3>4
  <2>4. ASSUME NEW d \in Devices, NEW s \in pending[d] \cup published[d]
        PROVE  s \subseteq document[d]
    BY <2>1 DEF CloudInv, StagedFits, PublishedFits
  <2>5. ASSUME NEW d \in Devices, NEW w \in Devices
        PROVE  observed[d][w] \in 0 .. Len(cloud[w])
    BY <2>1 DEF Types, ObservedInv
  <2>6. ASSUME NEW d \in Devices PROVE plan[d] = NoPlan <=> phase[d] # "planned"
    <3>1. plan[d] \in Plans => plan[d] # NoPlan
      BY DEF Plans, NoPlan, SyncDirection
    <3>. QED BY <2>1, <3>1 DEF DeviceInv, PlanFits
  <2>7. DOMAIN writes = Devices
    BY <2>1 DEF Types
  <2>8. /\ config \in [Devices -> Configs] /\ effective \in [Devices -> Configs]
        /\ sequence \in [Devices -> Nat \ {0}]
        /\ phase \in [Devices -> {"idle", "planned", "applied", "uploaded"}]
        /\ decisions \in 0 .. MaxDecisions
    BY <2>1 DEF Types
  <2>. QED BY <2>2, <2>3, <2>4, <2>5, <2>6, <2>7, <2>8 DEF TypeOK
<1>. QED BY <1>1, InvHolds, PTL

(* An edit replaces the value its user saw, and never the write of another  *)
(* device that user knew nothing of, whenever the snapshots of any number   *)
(* of devices arrive between the capture, the preview and the apply.        *)
THEOREM EditsAreSighted == Spec => []NoBlindOverwrite
<1>1. Inv => NoBlindOverwrite
  <2>. SUFFICES ASSUME Inv, NEW d \in Devices, NEW k \in 1 .. Len(writes[d])
                PROVE  writes[d][k].base # Absent
                         => \A i \in writes[d][k].over :
                              writes[i[1]][i[2]].value = writes[d][k].base
    BY DEF NoBlindOverwrite
  <2>1. GoodTable(cloud, writes)
    BY TableOfDevice DEF Inv
  <2>. QED BY <2>1 DEF GoodTable, Sighted
<1>. QED BY <1>1, InvHolds, PTL

(* What a device takes for the values it left in its stores is what its     *)
(* causal history says, so that no merge is ever captured as an edit.       *)
THEOREM BaselinesAreHistory == Spec => []BaselineIsHistory
<1>1. Inv => BaselineIsHistory
  BY DEF Inv, DeviceInv, Sane, Baseline, BaselineIsHistory
<1>. QED BY <1>1, InvHolds, PTL

(* A snapshot that later merges skip has been merged into the document,     *)
(* and no later apply takes it out again.                                   *)
THEOREM ObservedAreMerged == Spec => []ObservedIsMerged
<1>1. Inv => ObservedIsMerged
  BY DEF Inv, ObservedInv, ObservedIsMerged
<1>. QED BY <1>1, InvHolds, PTL

(* What a retry finds in the cloud under its own number is what it would    *)
(* have uploaded.                                                           *)
THEOREM RetriesAreExact == Spec => []RetryIsExact
<1>1. Inv => RetryIsExact
  <2>. SUFFICES ASSUME Inv, NEW d \in Devices, pending[d] # {},
                       Len(cloud[d]) = sequence[d] - 1
                PROVE  pending[d] = {cloud[d][sequence[d] - 1]}
    BY DEF RetryIsExact
  <2>. QED BY DEF Inv, CloudInv, StagedFits
<1>. QED BY <1>1, InvHolds, PTL

-----------------------------------------------------------------------------
(* What a history holds, and what nobody else has had a hand in.            *)

(* A history is closed when it holds the writes that its writes replaced.   *)
Closed(r) == \A i \in r.doc : WriteOf(r, i).over \subseteq r.doc

(* One line of writes: a field has one candidate at most.                   *)
OneLine(r) ==
  \A field \in {"presence", "name"} : \A i, j \in Candidates(r, field) : i = j

Causal(r) == TableType(r.table) /\ (\A i \in r.doc : Known(r.table, i)) /\ Closed(r)

(* s is r after some writes of d.                                           *)
Continued(r, s, d) ==
  /\ Causal(s) /\ Extends(r.table, s.table, d) /\ r.doc \subseteq s.doc
  /\ OneLine(r) => OneLine(s)

LEMMA ContinuedItself ==
  ASSUME NEW r, NEW d \in Devices, Causal(r)
  PROVE  Continued(r, r, d)
<1>1. Len(r.table[d]) \in Nat
  BY DEF Causal, TableType
<1>. QED BY <1>1 DEF Continued, Extends

LEMMA ContinuedTransitive ==
  ASSUME NEW r, NEW s, NEW u, NEW d \in Devices, Causal(r), Continued(r, s, d),
         Continued(s, u, d)
  PROVE  Continued(r, u, d)
<1>1. TableType(r.table) /\ TableType(s.table) /\ TableType(u.table)
  BY DEF Continued, Causal
<1>2. Extends(r.table, u.table, d)
  BY <1>1, ExtendsTransitive DEF Continued
<1>. QED BY <1>2 DEF Continued

LEMMA GoodClosed ==
  ASSUME NEW cl, NEW r, NEW d \in Devices, Good(cl, r, d), Closed(r)
  PROVE  Causal(r)
  BY GoodDocType DEF Causal

(* A write knows what it replaces, and takes the place of all of it.        *)
LEMMA PutContinues ==
  ASSUME NEW r, NEW d \in Devices, Causal(r),
         NEW field \in {"presence", "name"}, NEW value, ValueFits(field, value),
         NEW base \in Configs \cup {"kept"}, NEW s, s = Put(r, d, field, value, base)
  PROVE  Continued(r, s, d)
<1>. DEFINE t == r.table
            C == Candidates(r, field)
            w == [field |-> field, value |-> value, over |-> C, base |-> base]
            u == s.table
            l == Len(t[d])
            n == <<d, l + 1>>
<1>1. /\ TableType(t) /\ r.doc \subseteq WriteIds /\ l \in Nat
      /\ \A i \in r.doc : Known(t, i)
  BY DEF Causal, Known, TableType
<1>2. C \subseteq r.doc
  BY DEF Candidates
<1>3. w \in Writes
  BY <1>1, <1>2 DEF Writes, ValueFits
<1>4. u = [t EXCEPT ![d] = Append(@, w)] /\ s.doc = r.doc \cup {n}
  BY DEF Put
<1>5. /\ u \in [Devices -> Seq(Writes)] /\ Len(u[d]) = l + 1 /\ u[d][l + 1] = w
      /\ \A k \in 1 .. l : u[d][k] = t[d][k]
      /\ \A e \in Devices \ {d} : u[e] = t[e]
  <2>. HIDE DEF w
  <2>. QED BY <1>1, <1>3, <1>4 DEF TableType
<1>6. Extends(t, u, d)
  BY <1>1, <1>5 DEF Extends
<1>7. TableType(u)
  <2>. SUFFICES ASSUME NEW e \in Devices, NEW k \in 1 .. Len(u[e])
                PROVE  ValueFits(u[e][k].field, u[e][k].value)
    BY <1>5 DEF TableType
  <2>1. CASE e = d /\ k = l + 1
    <3>1. u[e][k] = w
      BY <1>5, <2>1
    <3>2. w.field = field /\ w.value = value
      OBVIOUS
    <3>. HIDE DEF w, u
    <3>3. u[e][k].field = field /\ u[e][k].value = value
      BY <3>1, <3>2, Zenon
    <3>. QED BY <3>3, Zenon
  <2>2. CASE e = d /\ k # l + 1
    <3>1. k \in 1 .. Len(t[e]) /\ u[e][k] = t[e][k]
      BY <1>1, <1>5, <2>2
    <3>2. ValueFits(t[e][k].field, t[e][k].value)
      BY <1>1, <3>1 DEF TableType
    <3>. HIDE DEF t, u
    <3>. QED BY <3>1, <3>2, Zenon
  <2>3. CASE e # d
    BY <1>1, <1>5, <2>3 DEF TableType
  <2>. QED BY <2>1, <2>2, <2>3
<1>8. \A i : Known(t, i) => Known(u, i) /\ u[i[1]][i[2]] = t[i[1]][i[2]] /\ i # n
  <2>1. ~Known(t, n)
    BY <1>1 DEF Known
  <2>. QED BY <1>1, <1>6, <1>7, <2>1, ExtendsKnown
<1>9. n \in WriteIds /\ Known(u, n) /\ WriteOf(s, n) = w
  BY <1>1, <1>5 DEF Known, WriteIds, WriteOf
<1>. HIDE DEF w, u, n
<1>10. w.field = field /\ w.over = C
  BY DEF w
<1>11. \A i \in r.doc : WriteOf(s, i) = WriteOf(r, i) /\ i # n
  BY <1>1, <1>8 DEF WriteOf, u
<1>12. \A j \in r.doc : WriteOf(s, j).over \subseteq r.doc /\ n \notin WriteOf(s, j).over
  <2>. TAKE j \in r.doc
  <2>1. WriteOf(s, j).over \subseteq r.doc
    BY <1>11 DEF Causal, Closed
  <2>. QED BY <1>11, <2>1
<1>13. Causal(s)
  <2>1. \A i \in s.doc : Known(u, i)
    BY <1>1, <1>4, <1>8, <1>9
  <2>2. Closed(s)
    BY <1>2, <1>4, <1>9, <1>10, <1>12 DEF Closed
  <2>. QED BY <1>7, <2>1, <2>2 DEF Causal, u
<1>14. ASSUME NEW i \in Candidates(s, field) PROVE i = n
  <2>. SUFFICES ASSUME i # n PROVE FALSE
    OBVIOUS
  <2>1. i \in r.doc /\ WriteOf(s, i).field = field
    BY <1>4 DEF Candidates
  <2>2. \A j \in s.doc : i \notin WriteOf(s, j).over
    BY DEF Candidates
  <2>3. i \notin C
    BY <1>4, <1>9, <1>10, <2>2
  <2>4. \A j \in r.doc : i \notin WriteOf(r, j).over
    BY <1>4, <1>11, <2>2
  <2>. QED BY <1>11, <2>1, <2>3, <2>4 DEF Candidates
<1>15. ASSUME NEW other \in {"presence", "name"} \ {field}, NEW i \in Candidates(s, other)
       PROVE  i \in Candidates(r, other)
  <2>1. i \in r.doc
    BY <1>4, <1>9, <1>10 DEF Candidates
  <2>. QED BY <1>4, <1>11, <2>1 DEF Candidates
<1>16. OneLine(r) => OneLine(s)
  <2>. SUFFICES ASSUME OneLine(r), NEW other \in {"presence", "name"},
                       NEW i \in Candidates(s, other), NEW j \in Candidates(s, other)
                PROVE  i = j
    BY DEF OneLine
  <2>1. CASE other = field
    BY <1>14, <2>1
  <2>2. CASE other # field
    BY <1>15, <2>2 DEF OneLine
  <2>. QED BY <2>1, <2>2
<1>. QED BY <1>4, <1>6, <1>13, <1>16 DEF Continued, u, t

LEMMA CaptureContinues ==
  ASSUME NEW r, NEW d \in Devices, Causal(r), NEW baseline \in Configs, NEW current \in Configs,
         NEW s, s = Capture(r, d, baseline, current)
  PROVE  Continued(r, s, d)
<1>1. CASE s = r
  BY <1>1, ContinuedItself
<1>2. CASE s = Put(r, d, "presence", "gone", "kept")
  BY <1>2, PutContinues DEF ValueFits
<1>3. CASE current # Absent /\ s # r /\ s # Put(r, d, "presence", "gone", "kept")
  <2>. DEFINE named == IF "name" \in Conflicts(r) THEN r
                       ELSE Put(r, d, "name", current, baseline)
              seen == IF baseline = Absent THEN Absent ELSE "kept"
  <2>1. s = Put(named, d, "presence", "kept", seen)
    BY <1>3 DEF Capture
  <2>2. /\ ValueFits("presence", "kept") /\ ValueFits("name", current)
        /\ seen \in Configs \cup {"kept"} /\ baseline \in Configs \cup {"kept"}
    BY <1>3 DEF ValueFits, Configs
  <2>3. Continued(r, named, d)
    <3>1. CASE "name" \in Conflicts(r)
      BY <3>1, ContinuedItself
    <3>2. CASE "name" \notin Conflicts(r)
      <4>1. named = Put(r, d, "name", current, baseline)
        BY <3>2
      <4>. HIDE DEF named
      <4>. QED BY <2>2, <4>1, PutContinues
    <3>. QED BY <3>1, <3>2
  <2>. HIDE DEF named, seen
  <2>4. Continued(named, s, d)
    BY <2>1, <2>2, <2>3, PutContinues DEF Continued
  <2>. QED BY <2>3, <2>4, ContinuedTransitive
<1>4. current = Absent => s = r \/ s = Put(r, d, "presence", "gone", "kept")
  BY DEF Capture
<1>. QED BY <1>1, <1>2, <1>3, <1>4

LEMMA ReplaceFieldsContinues ==
  ASSUME NEW r, NEW d \in Devices, Causal(r), NEW values \in Configs,
         NEW s, s = ReplaceFields(r, d, values)
  PROVE  Continued(r, s, d)
<1>1. CASE values # Absent
  <2>. DEFINE first == Put(r, d, "presence", "kept", Absent)
  <2>1. /\ ValueFits("name", values) /\ ValueFits("presence", "kept")
        /\ Absent \in Configs \cup {"kept"}
    BY <1>1 DEF Configs, ValueFits
  <2>2. s = Put(first, d, "name", values, Absent)
    BY <1>1 DEF ReplaceFields
  <2>3. first = Put(r, d, "presence", "kept", Absent)
    OBVIOUS
  <2>. HIDE DEF first
  <2>4. Continued(r, first, d)
    BY <2>1, <2>3, PutContinues
  <2>5. Continued(first, s, d)
    BY <2>1, <2>2, <2>4, PutContinues DEF Continued
  <2>. QED BY <2>4, <2>5, ContinuedTransitive
<1>2. CASE s = Put(r, d, "presence", "gone", Absent)
  BY <1>2, PutContinues DEF ValueFits, Configs
<1>3. CASE s = r
  BY <1>3, ContinuedItself
<1>4. values = Absent => s = Put(r, d, "presence", "gone", Absent) \/ s = r
  BY DEF ReplaceFields
<1>. QED BY <1>1, <1>2, <1>3, <1>4

LEMMA ResolveContinues ==
  ASSUME NEW r, NEW d \in Devices, Causal(r), NEW choice \in Choices \cup {Absent},
         NEW s, s = Resolve(r, d, choice)
  PROVE  Continued(r, s, d)
<1>1. CASE choice = Absent
  BY <1>1, ContinuedItself DEF Resolve
<1>2. CASE choice # Absent
  <2>1. s = Put(r, d, choice.field, choice.value, Absent)
    BY <1>2 DEF Resolve
  <2>2. /\ choice.field \in {"presence", "name"} /\ ValueFits(choice.field, choice.value)
        /\ Absent \in Configs \cup {"kept"}
    BY <1>2 DEF Choices, Configs
  <2>. QED BY <2>1, <2>2, PutContinues
<1>. QED BY <1>1, <1>2

(* What is said of a history depends on its own writes only.                *)
LEMMA SameHistory ==
  ASSUME NEW r, NEW s, s.doc = r.doc, \A i \in r.doc : WriteOf(s, i) = WriteOf(r, i)
  PROVE  (Closed(r) => Closed(s)) /\ (OneLine(r) => OneLine(s))
<1>1. \A field : Candidates(s, field) = Candidates(r, field)
  BY DEF Candidates
<1>. QED BY <1>1 DEF Closed, OneLine

LEMMA UnionClosed ==
  ASSUME NEW t, NEW a, NEW b, Closed([table |-> t, doc |-> a]), Closed([table |-> t, doc |-> b])
  PROVE  Closed([table |-> t, doc |-> a \cup b])
  BY DEF Closed, WriteOf

-----------------------------------------------------------------------------
(* Nobody but d has published anything.                                     *)
Alone(cl, d) == \A e \in Devices \ {d} : cl[e] = << >>

Tidy(t, doc, alone) ==
  /\ Closed([table |-> t, doc |-> doc])
  /\ alone => OneLine([table |-> t, doc |-> doc])

(* What d holds, plans, has staged and has published; a choice was one      *)
(* among several writes; and a snapshot holds what the earlier ones held.   *)
TidyDevice(d) ==
  /\ Tidy(writes, document[d], Alone(cloud, d))
  /\ phase[d] = "planned" =>
       /\ Tidy(writes, plan[d].doc, Alone(cloud, d))
       /\ plan[d].choice # Absent => \E i, j \in plan[d].choice.over : i # j

TidyCloud(d) ==
  /\ \A s \in pending[d] : /\ Tidy(writes, s, Alone(cloud, d))
                           /\ \A n \in 1 .. Len(cloud[d]) : cloud[d][n] \subseteq s
  /\ \A n \in 1 .. Len(cloud[d]) : Tidy(writes, cloud[d][n], Alone(cloud, d))
  /\ \A n, m \in 1 .. Len(cloud[d]) : n <= m => cloud[d][n] \subseteq cloud[d][m]

HistoryInv == \A d \in Devices : TidyDevice(d) /\ TidyCloud(d)

LEMMA TidyHistory ==
  ASSUME NEW t, NEW u, NEW doc, NEW alone, Tidy(t, doc, alone),
         \A i \in doc : u[i[1]][i[2]] = t[i[1]][i[2]]
  PROVE  Tidy(u, doc, alone)
<1>. DEFINE r == [table |-> t, doc |-> doc]
            s == [table |-> u, doc |-> doc]
<1>1. s.doc = r.doc /\ \A i \in r.doc : WriteOf(s, i) = WriteOf(r, i)
  BY DEF WriteOf
<1>2. Closed(r) /\ (alone => OneLine(r))
  BY DEF Tidy
<1>. HIDE DEF r, s
<1>3. Closed(s) /\ (alone => OneLine(s))
  BY <1>1, <1>2, SameHistory
<1>. QED BY <1>3 DEF Tidy, s

LEMMA PlanReads ==
  ASSUME Inv, NEW d \in Devices, phase[d] = "planned"
  PROVE  /\ plan[d] \in Plans /\ plan[d].seen \in [Devices -> Nat]
         /\ \A w \in Devices : plan[d].seen[w] <= Len(cloud[w])
         /\ \A w \in Devices : plan[d].seen[w] > 0 => plan[d].seen[w] \in 1 .. Len(cloud[w])
         /\ document[d] \subseteq plan[d].doc
         /\ GoodDoc(cloud, writes, plan[d].doc, d) /\ TableType(writes)
         /\ config[d] \in Configs /\ plan[d].effective \in Configs
<1>1. PlanFits(d) /\ config[d] \in Configs
  BY DEF Inv, DeviceInv, Types
<1>2. /\ plan[d] \in Plans /\ document[d] \subseteq plan[d].doc
      /\ \A w \in Devices : plan[d].seen[w] <= Len(cloud[w])
      /\ Sane(cloud, Planned(d), d, plan[d].effective)
  BY <1>1 DEF PlanFits
<1>3. plan[d].seen \in [Devices -> Nat] /\ plan[d].effective \in Configs
  BY <1>2 DEF Plans
<1>4. GoodDoc(cloud, writes, plan[d].doc, d)
  BY <1>2 DEF Sane, Good, Planned
<1>5. TableType(writes)
  BY TableOfDevice DEF Inv
<1>6. \A w \in Devices : plan[d].seen[w] > 0 => plan[d].seen[w] \in 1 .. Len(cloud[w])
  BY <1>2, <1>3 DEF Inv, Types
<1>. QED BY <1>1, <1>2, <1>3, <1>4, <1>5, <1>6

(* What a plan reads of the cloud.                                          *)
LEMMA RemoteClosed ==
  ASSUME Inv, HistoryInv, NEW d \in Devices, phase[d] = "planned"
  PROVE  /\ Closed([table |-> writes, doc |-> RemoteDocument(plan[d].seen)])
         /\ \A i \in RemoteDocument(plan[d].seen) : Known(writes, i)
<1>. DEFINE remote == RemoteDocument(plan[d].seen)
<1>1. ASSUME NEW i \in remote PROVE Known(writes, i) /\ writes[i[1]][i[2]].over \subseteq remote
  <2>1. PICK w \in Devices : plan[d].seen[w] > 0 /\ i \in cloud[w][plan[d].seen[w]]
    BY <1>1 DEF RemoteDocument
  <2>2. plan[d].seen[w] \in 1 .. Len(cloud[w])
    BY <2>1, PlanReads
  <2>3. Closed([table |-> writes, doc |-> cloud[w][plan[d].seen[w]]])
    BY <2>2 DEF HistoryInv, TidyCloud, Tidy
  <2>4. writes[i[1]][i[2]].over \subseteq cloud[w][plan[d].seen[w]]
    BY <2>1, <2>3 DEF Closed, WriteOf
  <2>5. cloud[w][plan[d].seen[w]] \subseteq remote
    BY <2>1 DEF RemoteDocument
  <2>6. i \in document[w]
    BY <2>1, <2>2 DEF Inv, CloudInv, SnapshotsFit
  <2>7. Known(writes, i)
    BY <2>6, TableOfDevice DEF Inv, GoodDoc
  <2>. QED BY <2>4, <2>5, <2>7
<1>. QED BY <1>1 DEF Closed, WriteOf

(* A device that is alone reads its own snapshots, and knows them.          *)
LEMMA RemoteAlone ==
  ASSUME Inv, HistoryInv, NEW d \in Devices, phase[d] = "planned",
         NEW w \in Devices, Alone(cloud, w)
  PROVE  /\ OneLine([table |-> writes, doc |-> RemoteDocument(plan[d].seen)])
         /\ RemoteDocument(plan[d].seen) \subseteq document[w]
<1>. DEFINE seen == plan[d].seen
            remote == RemoteDocument(seen)
            r == [table |-> writes, doc |-> remote]
<1>1. \A e \in Devices : seen[e] > 0 => seen[e] \in 1 .. Len(cloud[e])
  BY PlanReads
<1>2. \A e \in Devices : seen[e] > 0 => e = w
  <2>. SUFFICES ASSUME NEW e \in Devices, seen[e] > 0, e # w PROVE FALSE
    OBVIOUS
  <2>1. cloud[e] = << >> /\ seen[e] \in 1 .. Len(cloud[e])
    BY <1>1 DEF Alone
  <2>2. Len(cloud[e]) = 0
    BY <2>1
  <2>. QED BY <2>1, <2>2
<1>3. CASE seen[w] > 0
  <2>1. remote = cloud[w][seen[w]]
    BY <1>2, <1>3 DEF RemoteDocument
  <2>2. seen[w] \in 1 .. Len(cloud[w])
    BY <1>1, <1>3
  <2>3. Tidy(writes, cloud[w][seen[w]], TRUE)
    BY <2>2 DEF HistoryInv, TidyCloud, Tidy
  <2>4. cloud[w][seen[w]] \subseteq document[w]
    BY <2>2 DEF Inv, CloudInv, SnapshotsFit
  <2>. QED BY <2>1, <2>3, <2>4 DEF Tidy
<1>4. CASE ~(seen[w] > 0)
  <2>1. remote = {}
    BY <1>2, <1>4 DEF RemoteDocument
  <2>. QED BY <2>1 DEF OneLine, Candidates
<1>. QED BY <1>3, <1>4

LEMMA MergedTidy ==
  ASSUME Inv, HistoryInv, NEW d \in Devices, phase[d] = "planned", NEW values \in Configs,
         NEW r, r = Merged(d, values)
  PROVE  /\ Causal(r) /\ Extends(writes, r.table, d)
         /\ Alone(cloud, d) => OneLine(r)
         /\ plan[d].direction = "Download"
              => r = [table |-> writes, doc |-> RemoteDocument(plan[d].seen)]
<1>. DEFINE p == plan[d]
            remote == RemoteDocument(p.seen)
            start == [table |-> writes, doc |-> p.doc]
            own == Capture(start, d, p.effective, values)
<1>1. /\ p.direction \in SyncDirection /\ p.effective \in Configs
      /\ document[d] \subseteq p.doc /\ TableType(writes)
      /\ \A i \in p.doc : Known(writes, i)
  BY PlanReads DEF Plans, GoodDoc
<1>2. /\ Closed([table |-> writes, doc |-> remote])
      /\ \A i \in remote : Known(writes, i)
  BY RemoteClosed
<1>3. Alone(cloud, d) => /\ OneLine([table |-> writes, doc |-> remote])
                         /\ remote \subseteq p.doc
  BY <1>1, RemoteAlone
<1>4. Closed(start) /\ (Alone(cloud, d) => OneLine(start))
  BY DEF HistoryInv, TidyDevice, Tidy
<1>5. Causal(start) /\ start.table = writes /\ start.doc = p.doc
  BY <1>1, <1>4 DEF Causal
<1>6. Extends(writes, writes, d)
  BY <1>5, ContinuedItself DEF Continued
<1>. HIDE DEF p, remote
<1>7. CASE p.direction = "Download"
  <2>1. r = [table |-> writes, doc |-> remote]
    BY <1>7 DEF Merged, p, remote
  <2>. QED BY <1>1, <1>2, <1>3, <1>6, <2>1 DEF Causal, p, remote
<1>8. CASE p.direction = "Upload"
  <2>1. r = [table |-> writes, doc |-> p.doc \cup remote]
    BY <1>8 DEF Merged, p, remote
  <2>2. Closed(r)
    BY <1>2, <1>4, <2>1, UnionClosed
  <2>3. Alone(cloud, d) => r = start
    BY <1>3, <2>1
  <2>4. \A i \in p.doc \cup remote : Known(writes, i)
    BY <1>1, <1>2
  <2>. QED BY <1>1, <1>4, <1>6, <1>8, <2>1, <2>2, <2>3, <2>4 DEF Causal, p
<1>9. CASE p.direction = "Merge"
  <2>1. r = [table |-> own.table, doc |-> own.doc \cup remote]
    BY <1>9 DEF Merged, p, remote
  <2>2. Continued(start, own, d)
    <3>. HIDE DEF own, start
    <3>1. own = Capture(start, d, p.effective, values)
      BY DEF own
    <3>. QED BY <1>1, <1>5, <3>1, CaptureContinues
  <2>3. own = [table |-> own.table, doc |-> own.doc]
    BY DEF Capture, Put
  <2>. HIDE DEF own
  <2>4. /\ Causal(own) /\ Extends(writes, own.table, d) /\ p.doc \subseteq own.doc
        /\ Alone(cloud, d) => OneLine(own)
    BY <1>4, <1>5, <2>2 DEF Continued
  <2>5. \A i \in remote : Known(own.table, i) /\ own.table[i[1]][i[2]] = writes[i[1]][i[2]]
    BY <1>1, <1>2, <2>4, ExtendsKnown DEF Causal
  <2>6. Tidy(own.table, remote, FALSE)
    <3>1. Tidy(writes, remote, FALSE)
      BY <1>2 DEF Tidy
    <3>. QED BY <2>5, <3>1, TidyHistory
  <2>7. Closed(r)
    <3>1. Closed([table |-> own.table, doc |-> own.doc])
      BY <2>3, <2>4 DEF Causal
    <3>. QED BY <2>1, <2>6, <3>1, UnionClosed DEF Tidy
  <2>8. Alone(cloud, d) => r = own
    <3>1. Alone(cloud, d) => own.doc \cup remote = own.doc
      BY <1>3, <2>4
    <3>. QED BY <2>1, <2>3, <3>1
  <2>9. Causal(r)
    <3>1. \A i \in own.doc \cup remote : Known(own.table, i)
      BY <2>4, <2>5 DEF Causal
    <3>. QED BY <2>1, <2>4, <2>7, <3>1 DEF Causal
  <2>. QED BY <1>9, <2>1, <2>4, <2>8, <2>9 DEF p
<1>. QED BY <1>1, <1>7, <1>8, <1>9 DEF SyncDirection

(* A choice settles a conflict, and in one line of writes there is none.    *)
LEMMA ChosenTidy ==
  ASSUME Inv, HistoryInv, NEW d \in Devices, phase[d] = "planned", Applicable(d),
         NEW r, r = Chosen(d)
  PROVE  /\ Causal(r) /\ Extends(writes, r.table, d)
         /\ Alone(cloud, d) => OneLine(r)
         /\ plan[d].direction = "Download" =>
              \A w \in Devices : Alone(cloud, w)
                => r = [table |-> writes, doc |-> RemoteDocument(plan[d].seen)]
<1>. DEFINE m == Merged(d, config[d])
            remote == RemoteDocument(plan[d].seen)
<1>1. config[d] \in Configs /\ plan[d] \in Plans /\ TableType(writes)
  BY PlanReads
<1>2. /\ Causal(m) /\ Extends(writes, m.table, d)
      /\ Alone(cloud, d) => OneLine(m)
      /\ plan[d].direction = "Download" => m = [table |-> writes, doc |-> remote]
  BY <1>1, MergedTidy
<1>3. /\ plan[d].choice # Absent => Candidates(m, plan[d].choice.field) = plan[d].choice.over
      /\ plan[d].choice # Absent => \E i, j \in plan[d].choice.over : i # j
      /\ plan[d].choice \in Choices \cup {Absent}
  BY <1>1 DEF Applicable, HistoryInv, TidyDevice, Plans
<1>4. OneLine(m) => plan[d].choice = Absent
  <2>. SUFFICES ASSUME OneLine(m), plan[d].choice # Absent PROVE FALSE
    OBVIOUS
  <2>1. plan[d].choice.field \in {"presence", "name"}
    BY <1>3 DEF Choices
  <2>. QED BY <1>3, <2>1 DEF OneLine
<1>5. Continued(m, r, d)
  <2>. HIDE DEF m
  <2>1. CASE plan[d].direction = "Upload"
    <3>1. r = ReplaceFields(m, d, config[d])
      BY <2>1 DEF Chosen, m
    <3>. QED BY <1>1, <1>2, <3>1, ReplaceFieldsContinues
  <2>2. CASE plan[d].direction # "Upload"
    <3>1. r = Resolve(m, d, plan[d].choice)
      BY <2>2 DEF Chosen, m
    <3>. QED BY <1>2, <1>3, <3>1, ResolveContinues
  <2>. QED BY <2>1, <2>2
<1>6. ASSUME plan[d].direction = "Download", NEW w \in Devices, Alone(cloud, w)
      PROVE  r = [table |-> writes, doc |-> remote]
  <2>1. OneLine(m)
    BY <1>2, <1>6, RemoteAlone
  <2>2. r = Resolve(m, d, plan[d].choice)
    BY <1>6 DEF Chosen
  <2>. QED BY <1>2, <1>4, <1>6, <2>1, <2>2 DEF Resolve
<1>. HIDE DEF m
<1>7. Extends(writes, r.table, d)
  BY <1>1, <1>2, <1>5, ExtendsTransitive DEF Continued, Causal
<1>. QED BY <1>2, <1>5, <1>6, <1>7 DEF Continued

LEMMA AppliedTidy ==
  ASSUME Inv, HistoryInv, NEW d \in Devices, phase[d] = "planned", Applicable(d),
         NEW desired \in Configs, NEW r, r = Combined(d, Chosen(d), desired)
  PROVE  /\ Causal(r) /\ Extends(writes, r.table, d)
         /\ Alone(cloud, d) => OneLine(r)
         /\ plan[d].direction = "Download" /\ FirstSync(d) => r = Chosen(d)
<1>. DEFINE c == Chosen(d)
            p == plan[d]
            both == [table |-> c.table, doc |-> c.doc \cup p.doc]
            remote == RemoteDocument(p.seen)
<1>1. /\ Causal(c) /\ Extends(writes, c.table, d)
      /\ Alone(cloud, d) => OneLine(c)
      /\ p.direction = "Download" /\ Alone(cloud, d) => c = [table |-> writes, doc |-> remote]
  BY ChosenTidy
<1>2. CASE ~(p.direction = "Download" /\ ~FirstSync(d))
  <2>1. r = c
    BY <1>2 DEF Combined
  <2>. QED BY <1>1, <2>1
<1>3. CASE p.direction = "Download" /\ ~FirstSync(d)
  <2>1. r = ReplaceFields(both, d, desired)
    BY <1>3 DEF Combined
  <2>2. /\ TableType(writes) /\ document[d] \subseteq p.doc
        /\ \A i \in p.doc : Known(writes, i)
    BY PlanReads DEF GoodDoc
  <2>3. Tidy(writes, p.doc, Alone(cloud, d))
    BY DEF HistoryInv, TidyDevice
  <2>4. Alone(cloud, d) => remote \subseteq p.doc
    BY <2>2, RemoteAlone
  <2>. HIDE DEF p
  <2>5. Alone(cloud, d) => both = [table |-> writes, doc |-> p.doc]
    <3>1. Alone(cloud, d) => c.table = writes /\ c.doc = remote
      BY <1>1, <1>3
    <3>2. Alone(cloud, d) => c.doc \cup p.doc = p.doc
      BY <2>4, <3>1
    <3>. QED BY <3>1, <3>2
  <2>. HIDE DEF c
  <2>6. \A i \in p.doc : Known(c.table, i) /\ c.table[i[1]][i[2]] = writes[i[1]][i[2]]
    BY <1>1, <2>2, ExtendsKnown DEF Causal
  <2>7. Tidy(c.table, p.doc, FALSE)
    <3>1. Tidy(writes, p.doc, FALSE)
      BY <2>3 DEF Tidy
    <3>. QED BY <2>6, <3>1, TidyHistory
  <2>8. Closed(both)
    <3>1. Closed([table |-> c.table, doc |-> c.doc])
      BY <1>1 DEF Causal, Closed, WriteOf
    <3>. QED BY <2>7, <3>1, UnionClosed DEF Tidy
  <2>9. Causal(both) /\ both.table = c.table
    <3>1. \A i \in c.doc \cup p.doc : Known(c.table, i)
      BY <1>1, <2>6 DEF Causal
    <3>. QED BY <1>1, <2>8, <3>1 DEF Causal
  <2>10. Alone(cloud, d) => OneLine(both)
    BY <2>3, <2>5 DEF Tidy
  <2>. HIDE DEF both
  <2>11. Continued(both, r, d)
    BY <2>1, <2>9, ReplaceFieldsContinues
  <2>12. Extends(writes, r.table, d)
    BY <1>1, <2>2, <2>9, <2>11, ExtendsTransitive DEF Continued, Causal
  <2>. QED BY <1>3, <2>10, <2>11, <2>12 DEF Continued, p
<1>. QED BY <1>2, <1>3

(* The histories of a device are as tidy in the table u of a step of d.     *)
LEMMA HistoriesStay ==
  ASSUME Inv, HistoryInv, NEW u, NEW d \in Devices, GoodTable(cloud, u), Remembers(u, d),
         NEW e \in Devices
  PROVE  /\ Tidy(u, document[e], Alone(cloud, e))
         /\ e # d /\ phase[e] = "planned" => Tidy(u, plan[e].doc, Alone(cloud, e))
         /\ \A s \in pending[e] : Tidy(u, s, Alone(cloud, e))
         /\ \A n \in 1 .. Len(cloud[e]) : Tidy(u, cloud[e][n], Alone(cloud, e))
<1>1. TidyDevice(e) /\ TidyCloud(e)
  BY DEF HistoryInv
<1>2. \A i \in document[e] : u[i[1]][i[2]] = writes[i[1]][i[2]]
  <2>1. GoodDoc(cloud, writes, document[e], e)
    BY TableOfDevice DEF Inv
  <2>. QED BY <2>1, DocStays
<1>3. ASSUME NEW s \in SUBSET document[e], Tidy(writes, s, Alone(cloud, e))
      PROVE  Tidy(u, s, Alone(cloud, e))
  BY <1>2, <1>3, TidyHistory
<1>4. Tidy(u, document[e], Alone(cloud, e))
  BY <1>1, <1>3 DEF TidyDevice
<1>5. ASSUME e # d, phase[e] = "planned" PROVE Tidy(u, plan[e].doc, Alone(cloud, e))
  <2>1. GoodDoc(cloud, writes, plan[e].doc, e)
    BY <1>5, PlanReads
  <2>2. \A i \in plan[e].doc : u[i[1]][i[2]] = writes[i[1]][i[2]]
    BY <1>5, <2>1, DocStays
  <2>3. Tidy(writes, plan[e].doc, Alone(cloud, e))
    BY <1>1, <1>5 DEF TidyDevice
  <2>. QED BY <2>2, <2>3, TidyHistory
<1>6. ASSUME NEW s \in pending[e] PROVE Tidy(u, s, Alone(cloud, e))
  <2>1. s \in SUBSET document[e]
    BY DEF Inv, CloudInv, StagedFits
  <2>2. Tidy(writes, s, Alone(cloud, e))
    BY <1>1 DEF TidyCloud
  <2>. QED BY <1>3, <2>1, <2>2
<1>7. ASSUME NEW n \in 1 .. Len(cloud[e]) PROVE Tidy(u, cloud[e][n], Alone(cloud, e))
  <2>1. cloud[e][n] \in SUBSET document[e]
    BY DEF Inv, CloudInv, SnapshotsFit
  <2>2. Tidy(writes, cloud[e][n], Alone(cloud, e))
    BY <1>1 DEF TidyCloud
  <2>. QED BY <1>3, <2>1, <2>2
<1>. QED BY <1>4, <1>5, <1>6, <1>7

LEMMA CloudStaysTidy ==
  ASSUME Inv, HistoryInv, NEW d \in Devices, UNCHANGED <<pending, cloud>>,
         GoodTable(cloud, writes'), Remembers(writes', d), NEW e \in Devices
  PROVE  TidyCloud(e)'
<1>1. TidyCloud(e)
  BY DEF HistoryInv
<1>2. /\ \A s \in pending[e] : Tidy(writes', s, Alone(cloud, e))
      /\ \A n \in 1 .. Len(cloud[e]) : Tidy(writes', cloud[e][n], Alone(cloud, e))
  BY HistoriesStay
<1>3. Alone(cloud, e)' = Alone(cloud, e)
  BY DEF Alone
<1>. QED BY <1>1, <1>2, <1>3 DEF TidyCloud

(* A step of d leaves the plans of others, and what everybody has saved.    *)
LEMMA HistoryStays ==
  ASSUME Inv, HistoryInv, NEW d \in Devices, UNCHANGED <<document, pending, cloud>>,
         GoodTable(cloud, writes'), Remembers(writes', d),
         \A e \in Devices \ {d} : phase'[e] = phase[e] /\ plan'[e] = plan[e],
         phase'[d] = "planned" =>
           /\ Tidy(writes', plan'[d].doc, Alone(cloud, d))
           /\ plan'[d].choice # Absent => \E i, j \in plan'[d].choice.over : i # j
  PROVE  HistoryInv'
<1>. SUFFICES ASSUME NEW e \in Devices PROVE TidyDevice(e)' /\ TidyCloud(e)'
  BY DEF HistoryInv
<1>1. TidyCloud(e)'
  BY CloudStaysTidy
<1>2. TidyDevice(e)
  BY DEF HistoryInv
<1>3. /\ Tidy(writes', document[e], Alone(cloud, e))
      /\ e # d /\ phase[e] = "planned" => Tidy(writes', plan[e].doc, Alone(cloud, e))
  BY HistoriesStay
<1>4. Alone(cloud, e)' = Alone(cloud, e)
  BY DEF Alone
<1>5. Tidy(writes, document[e], Alone(cloud, e))'
  BY <1>3, <1>4
<1>6. ASSUME phase'[e] = "planned"
      PROVE  /\ Tidy(writes, plan[e].doc, Alone(cloud, e))'
             /\ plan'[e].choice # Absent => \E i, j \in plan'[e].choice.over : i # j
  <2>1. CASE e = d
    BY <1>4, <1>6, <2>1
  <2>2. CASE e # d
    BY <1>2, <1>3, <1>4, <1>6, <2>2 DEF TidyDevice
  <2>. QED BY <2>1, <2>2
<1>. QED BY <1>1, <1>5, <1>6 DEF TidyDevice

LEMMA HistoryInit == Init => HistoryInv
<1>. SUFFICES ASSUME Init PROVE HistoryInv
  OBVIOUS
<1>. SUFFICES ASSUME NEW d \in Devices PROVE TidyDevice(d) /\ TidyCloud(d)
  BY DEF HistoryInv
<1>1. /\ document[d] = {} /\ pending[d] = {} /\ Len(cloud[d]) = 0 /\ phase[d] = "idle"
  BY DEF Init
<1>2. Tidy(writes, {}, Alone(cloud, d))
  BY DEF Tidy, Closed, OneLine, Candidates
<1>. QED BY <1>1, <1>2 DEF TidyDevice, TidyCloud

-----------------------------------------------------------------------------
(* The actions keep the histories tidy.                                     *)

LEMMA EditTidy ==
  ASSUME Inv, HistoryInv, NEW d \in Devices, NEW c \in Configs, Edit(d, c)
  PROVE  HistoryInv'
  BY DEF Edit, localVars, HistoryInv, TidyDevice, TidyCloud, Tidy, Alone

LEMMA DropTidy ==
  ASSUME Inv, HistoryInv, NEW d \in Devices, DropPlan(d)
  PROVE  HistoryInv'
<1>1. /\ phase' = [phase EXCEPT ![d] = "idle"] /\ plan' = [plan EXCEPT ![d] = NoPlan]
      /\ writes' = [writes EXCEPT ![d] = Kept(d)]
      /\ UNCHANGED <<document, pending, cloud>>
  BY DEF DropPlan, localVars
<1>2. GoodTable(cloud, writes') /\ Remembers(writes', d)
  BY <1>1, KeptSteps
<1>3. /\ phase \in [Devices -> {"idle", "planned", "applied", "uploaded"}]
      /\ plan \in [Devices -> Plans \cup {NoPlan}]
  BY DEF Inv, Types
<1>4. /\ phase'[d] = "idle"
      /\ \A e \in Devices \ {d} : phase'[e] = phase[e] /\ plan'[e] = plan[e]
  BY <1>1, <1>3
<1>. QED BY <1>1, <1>2, <1>4, HistoryStays

LEMMA PrepareTidy ==
  ASSUME Inv, HistoryInv, NEW d \in Devices, NEW front \in FrontEnds[d],
         NEW asked \in {"Merge", "Download"}, Prepare(d, front, asked)
  PROVE  HistoryInv'
<1>. DEFINE r == Capture(Replica(d), d, effective[d], config[d])
<1>0. PICK direction \in SyncDirection, seen \in [Devices -> Nat] :
        plan' = [plan EXCEPT ![d] =
                  [front |-> front, direction |-> direction, doc |-> r.doc,
                   effective |-> config[d], seen |-> seen, choice |-> Absent]]
  BY Prepares
<1>. DEFINE p == [front |-> front, direction |-> direction, doc |-> r.doc,
                  effective |-> config[d], seen |-> seen, choice |-> Absent]
<1>1. /\ writes' = r.table
      /\ plan' = [plan EXCEPT ![d] = p] /\ phase' = [phase EXCEPT ![d] = "planned"]
      /\ UNCHANGED <<document, pending, cloud>>
  BY <1>0, Prepares DEF localVars
<1>2. /\ config[d] \in Configs /\ effective[d] \in Configs
      /\ phase \in [Devices -> {"idle", "planned", "applied", "uploaded"}]
      /\ plan \in [Devices -> Plans \cup {NoPlan}]
  BY DEF Inv, Types
<1>3. Sane(cloud, Replica(d), d, effective[d])
  BY DEF Inv, DeviceInv
<1>4. Tidy(writes, document[d], Alone(cloud, d))
  BY DEF HistoryInv, TidyDevice
<1>5. Grown(cloud, Replica(d), r, d)
  <2>. DEFINE x == Replica(d)
  <2>. HIDE DEF x
  <2>. QED BY <1>2, <1>3, CaptureSteps DEF x
<1>6. Continued(Replica(d), r, d)
  <2>. DEFINE x == Replica(d)
  <2>1. Good(cloud, x, d)
    BY TableOfDevice DEF Inv
  <2>2. Closed(x)
    BY <1>4 DEF Tidy, Replica
  <2>. HIDE DEF x
  <2>3. Causal(x)
    BY <2>1, <2>2, GoodClosed
  <2>. QED BY <1>2, <2>3, CaptureContinues DEF x
<1>. HIDE DEF r
<1>7. /\ Good(cloud, r, d) /\ Extends(writes, r.table, d)
  BY <1>5 DEF Grown, Replica
<1>8. GoodTable(cloud, writes') /\ TableType(writes')
  BY <1>1, <1>7 DEF Good, GoodTable
<1>9. Remembers(writes', d)
  <2>1. TableType(writes)
    BY TableOfDevice DEF Inv
  <2>. QED BY <1>1, <1>7, <1>8, <2>1, ExtendsRemembers
<1>10. Tidy(writes', p.doc, Alone(cloud, d))
  <2>1. Causal(r) /\ (OneLine(Replica(d)) => OneLine(r))
    BY <1>6 DEF Continued
  <2>2. Alone(cloud, d) => OneLine(Replica(d))
    BY <1>4 DEF Tidy, Replica
  <2>. DEFINE s == [table |-> writes', doc |-> p.doc]
  <2>3. s.doc = r.doc /\ \A i \in r.doc : WriteOf(s, i) = WriteOf(r, i)
    BY <1>1 DEF WriteOf
  <2>4. Closed(r)
    BY <2>1 DEF Causal
  <2>. HIDE DEF s
  <2>5. (Closed(r) => Closed(s)) /\ (OneLine(r) => OneLine(s))
    BY <2>3, SameHistory
  <2>. QED BY <2>1, <2>2, <2>4, <2>5 DEF Tidy, s
<1>11. p.choice = Absent
  OBVIOUS
<1>. HIDE DEF p
<1>12. /\ plan'[d] = p
       /\ \A e \in Devices \ {d} : phase'[e] = phase[e] /\ plan'[e] = plan[e]
  BY <1>1, <1>2
<1>. QED BY <1>1, <1>8, <1>9, <1>10, <1>11, <1>12, HistoryStays

(* What is in dispute has several candidates.                               *)
LEMMA ConflictHasTwo ==
  ASSUME NEW cl, NEW r, NEW d \in Devices, Good(cl, r, d), NEW field \in Conflicts(r)
  PROVE  \E i, j \in Candidates(r, field) : i # j
<1>1. field \in {"presence", "name"} /\ Disputed(r, field)
  BY DEF Conflicts
<1>2. \E x, y \in CandidateValues(r, field) : x # y
  BY <1>1, DisputedValues
<1>. QED BY <1>2 DEF CandidateValues

LEMMA ChooseTidy ==
  ASSUME Inv, HistoryInv, NEW d \in Devices, Choose(d)
  PROVE  HistoryInv'
<1>0. /\ phase[d] = "planned" /\ PlanFits(d) /\ plan[d] \in Plans
      /\ UNCHANGED <<writes, document, pending, cloud, phase>>
  BY DEF Choose, Inv, DeviceInv, PlanFits, localVars
<1>. DEFINE r == Merged(d, plan[d].effective)
<1>1. Good(cloud, r, d)
  <2>1. plan[d].effective \in Configs
    BY <1>0 DEF Plans
  <2>. QED BY <1>0, <2>1, MergedSteps
<1>2. PICK field \in Conflicts(r) : \E value \in CandidateValues(r, field) :
        plan' = [plan EXCEPT ![d].choice =
                   [field |-> field, value |-> value, over |-> Candidates(r, field)]]
  BY DEF Choose
<1>. HIDE DEF r
<1>3. PICK value \in CandidateValues(r, field) :
        plan' = [plan EXCEPT ![d].choice =
                   [field |-> field, value |-> value, over |-> Candidates(r, field)]]
  BY <1>2
<1>4. \E i, j \in Candidates(r, field) : i # j
  BY <1>1, ConflictHasTwo
<1>5. plan \in [Devices -> Plans \cup {NoPlan}]
  BY DEF Inv, Types
<1>6. /\ plan'[d].doc = plan[d].doc /\ plan'[d].choice.over = Candidates(r, field)
      /\ \A e \in Devices \ {d} : plan'[e] = plan[e]
  BY <1>0, <1>3, <1>5 DEF Plans
<1>7. GoodTable(cloud, writes') /\ Remembers(writes', d)
  <2>1. GoodTable(cloud, writes)
    BY TableOfDevice DEF Inv
  <2>. QED BY <1>0, <2>1 DEF Remembers
<1>8. Tidy(writes', plan'[d].doc, Alone(cloud, d))
  BY <1>0, <1>6 DEF HistoryInv, TidyDevice
<1>. QED BY <1>0, <1>4, <1>6, <1>7, <1>8, HistoryStays

LEMMA TurnTidy ==
  ASSUME Inv, HistoryInv, NEW d \in Devices, NEW direction \in SyncDirection,
         Turn(d, direction)
  PROVE  HistoryInv'
<1>1. /\ phase[d] = "planned"
      /\ UNCHANGED <<writes, document, pending, cloud, phase>>
      /\ plan'[d].doc = plan[d].doc /\ plan'[d].choice = Absent
      /\ \A e \in Devices \ {d} : plan'[e] = plan[e]
  BY Turns DEF localVars
<1>2. GoodTable(cloud, writes') /\ Remembers(writes', d)
  <2>1. GoodTable(cloud, writes)
    BY TableOfDevice DEF Inv
  <2>. QED BY <1>1, <2>1 DEF Remembers
<1>3. Tidy(writes', plan'[d].doc, Alone(cloud, d))
  BY <1>1 DEF HistoryInv, TidyDevice
<1>. QED BY <1>1, <1>2, <1>3, HistoryStays

LEMMA ApplyTidy ==
  ASSUME Inv, HistoryInv, NEW d \in Devices, Apply(d)
  PROVE  HistoryInv'
<1>. DEFINE desired == Materialize(Chosen(d), config[d])
            r == Combined(d, Chosen(d), desired)
<1>1. /\ phase[d] = "planned" /\ Applicable(d)
      /\ writes' = r.table
      /\ document' = [document EXCEPT ![d] = r.doc]
      /\ plan' = [plan EXCEPT ![d] = NoPlan]
      /\ UNCHANGED <<pending, cloud>>
      /\ \E x \in {"applied", "idle"} : phase' = [phase EXCEPT ![d] = x]
  BY DEF Apply, Publishing
<1>2. desired \in Configs /\ Sane(cloud, r, d, desired)
  BY <1>1, AppliedSteps
<1>3. /\ Causal(r) /\ Extends(writes, r.table, d)
      /\ Alone(cloud, d) => OneLine(r)
  <2>. HIDE DEF desired
  <2>. QED BY <1>1, <1>2, AppliedTidy
<1>. HIDE DEF desired, r
<1>4. GoodTable(cloud, writes') /\ TableType(writes')
  BY <1>1, <1>2 DEF Sane, Good, GoodTable
<1>5. Remembers(writes', d)
  <2>1. TableType(writes)
    BY TableOfDevice DEF Inv
  <2>. QED BY <1>1, <1>3, <1>4, <2>1, ExtendsRemembers
<1>6. /\ document \in [Devices -> SUBSET WriteIds] /\ plan \in [Devices -> Plans \cup {NoPlan}]
      /\ phase \in [Devices -> {"idle", "planned", "applied", "uploaded"}]
  BY DEF Inv, Types
<1>7. /\ document'[d] = r.doc /\ phase'[d] # "planned"
      /\ \A e \in Devices \ {d} :
           document'[e] = document[e] /\ phase'[e] = phase[e] /\ plan'[e] = plan[e]
  BY <1>1, <1>6
<1>8. Tidy(writes', document'[d], Alone(cloud, d))
  <2>. DEFINE s == [table |-> writes', doc |-> document'[d]]
  <2>1. s.doc = r.doc /\ \A i \in r.doc : WriteOf(s, i) = WriteOf(r, i)
    BY <1>1, <1>7 DEF WriteOf
  <2>2. Closed(r)
    BY <1>3 DEF Causal
  <2>. HIDE DEF s
  <2>3. (Closed(r) => Closed(s)) /\ (OneLine(r) => OneLine(s))
    BY <2>1, SameHistory
  <2>. QED BY <1>3, <2>2, <2>3 DEF Tidy, s
<1>. SUFFICES ASSUME NEW e \in Devices PROVE TidyDevice(e)' /\ TidyCloud(e)'
  BY DEF HistoryInv
<1>9. TidyCloud(e)'
  BY <1>1, <1>4, <1>5, CloudStaysTidy
<1>10. Alone(cloud, e)' = Alone(cloud, e)
  BY <1>1 DEF Alone
<1>11. CASE e = d
  BY <1>7, <1>8, <1>9, <1>10, <1>11 DEF TidyDevice
<1>12. CASE e # d
  <2>1. TidyDevice(e)
    BY DEF HistoryInv
  <2>2. /\ Tidy(writes', document[e], Alone(cloud, e))
        /\ phase[e] = "planned" => Tidy(writes', plan[e].doc, Alone(cloud, e))
    BY <1>4, <1>5, <1>12, HistoriesStay
  <2>3. document'[e] = document[e] /\ phase'[e] = phase[e] /\ plan'[e] = plan[e]
    BY <1>7, <1>12
  <2>. QED BY <1>9, <1>10, <2>1, <2>2, <2>3 DEF TidyDevice
<1>. QED BY <1>11, <1>12

(* What is staged is the document, which holds every earlier snapshot.      *)
LEMMA StageTidy ==
  ASSUME Inv, HistoryInv, NEW d \in Devices, Stage(d)
  PROVE  HistoryInv'
<1>1. /\ pending' = [pending EXCEPT ![d] = {document[d]}]
      /\ UNCHANGED <<writes, document, cloud, phase, plan>>
  BY DEF Stage
<1>2. pending \in [Devices -> SUBSET (SUBSET WriteIds)]
  BY DEF Inv, Types
<1>. SUFFICES ASSUME NEW e \in Devices PROVE TidyDevice(e)' /\ TidyCloud(e)'
  BY DEF HistoryInv
<1>3. TidyDevice(e) /\ TidyCloud(e)
  BY DEF HistoryInv
<1>4. TidyDevice(e)'
  BY <1>1, <1>3 DEF TidyDevice, Tidy, Alone
<1>5. CASE e = d
  <2>1. pending'[d] = {document[d]}
    BY <1>1, <1>2
  <2>2. Tidy(writes, document[d], Alone(cloud, d))
    BY <1>3, <1>5 DEF TidyDevice
  <2>3. \A n \in 1 .. Len(cloud[d]) : cloud[d][n] \subseteq document[d]
    BY DEF Inv, CloudInv, SnapshotsFit
  <2>4. Alone(cloud, d)' = Alone(cloud, d)
    BY <1>1 DEF Alone
  <2>5. TidyCloud(d)'
    BY <1>1, <1>3, <1>5, <2>1, <2>2, <2>3, <2>4 DEF TidyCloud
  <2>. QED BY <1>4, <1>5, <2>5
<1>6. CASE e # d
  <2>1. pending'[e] = pending[e]
    BY <1>1, <1>2, <1>6
  <2>. QED BY <1>1, <1>3, <1>4, <2>1 DEF TidyCloud, Alone
<1>. QED BY <1>5, <1>6

LEMMA ConfirmTidy ==
  ASSUME Inv, HistoryInv, NEW d \in Devices, Confirm(d)
  PROVE  HistoryInv'
<1>1. /\ pending' = [pending EXCEPT ![d] = {}] /\ phase[d] = "uploaded"
      /\ UNCHANGED <<writes, document, cloud, plan>>
      /\ \E x \in {"applied", "idle"} : phase' = [phase EXCEPT ![d] = x]
  BY DEF Confirm, Publishing
<1>2. /\ pending \in [Devices -> SUBSET (SUBSET WriteIds)]
      /\ phase \in [Devices -> {"idle", "planned", "applied", "uploaded"}]
  BY DEF Inv, Types
<1>. SUFFICES ASSUME NEW e \in Devices PROVE TidyDevice(e)' /\ TidyCloud(e)'
  BY DEF HistoryInv
<1>3. TidyDevice(e) /\ TidyCloud(e)
  BY DEF HistoryInv
<1>4. /\ phase'[e] = "planned" => phase[e] = "planned"
      /\ pending'[e] \subseteq pending[e]
  BY <1>1, <1>2
<1>5. Alone(cloud, e)' = Alone(cloud, e)
  BY <1>1 DEF Alone
<1>6. TidyDevice(e)'
  BY <1>1, <1>3, <1>4, <1>5 DEF TidyDevice
<1>7. TidyCloud(e)'
  BY <1>1, <1>3, <1>4, <1>5 DEF TidyCloud
<1>. QED BY <1>6, <1>7

(* A device is less alone for each snapshot in the cloud, and its own come  *)
(* from what it has staged.                                                 *)
LEMMA UploadTidy ==
  ASSUME Inv, HistoryInv, NEW d \in Devices, Upload(d)
  PROVE  HistoryInv'
<1>1. /\ phase[d] = "applied" /\ phase' = [phase EXCEPT ![d] = "uploaded"]
      /\ UNCHANGED <<writes, document, pending, plan>>
      /\ \E x \in pending[d] :
           cloud' = IF Len(cloud[d]) < sequence[d] - 1
                    THEN [cloud EXCEPT ![d] = Append(@, x)] ELSE cloud
  BY DEF Upload, localVars
<1>2. /\ cloud \in [Devices -> Seq(SUBSET WriteIds)]
      /\ phase \in [Devices -> {"idle", "planned", "applied", "uploaded"}]
      /\ pending \in [Devices -> SUBSET (SUBSET WriteIds)]
  BY DEF Inv, Types
<1>3. PICK s \in pending[d] : cloud' = IF Len(cloud[d]) < sequence[d] - 1
                                       THEN [cloud EXCEPT ![d] = Append(@, s)] ELSE cloud
  BY <1>1
<1>4. pending[d] = {s} /\ s \in SUBSET WriteIds
  BY <1>2 DEF Inv, CloudInv, StagedFits
<1>5. /\ \A e \in Devices \ {d} : cloud'[e] = cloud[e]
      /\ cloud'[d] \in {cloud[d], Append(cloud[d], s)}
  BY <1>2, <1>3
<1>6. \A e \in Devices : Alone(cloud', e) => Alone(cloud, e)
  <2>. SUFFICES ASSUME NEW e \in Devices, Alone(cloud', e), NEW f \in Devices \ {e}
                PROVE  cloud[f] = << >>
    BY DEF Alone
  <2>1. cloud'[f] = << >>
    BY DEF Alone
  <2>2. Append(cloud[d], s) # << >>
    BY <1>2, <1>4
  <2>. QED BY <1>5, <2>1, <2>2
<1>7. ASSUME NEW e \in Devices, NEW doc, Tidy(writes, doc, Alone(cloud, e))
      PROVE  Tidy(writes', doc, Alone(cloud', e))
  BY <1>1, <1>6, <1>7 DEF Tidy
<1>. SUFFICES ASSUME NEW e \in Devices PROVE TidyDevice(e)' /\ TidyCloud(e)'
  BY DEF HistoryInv
<1>8. TidyDevice(e) /\ TidyCloud(e)
  BY DEF HistoryInv
<1>9. TidyDevice(e)'
  <2>1. phase'[e] = "planned" => phase[e] = "planned"
    BY <1>1, <1>2
  <2>2. Tidy(writes', document'[e], Alone(cloud', e))
    BY <1>1, <1>7, <1>8 DEF TidyDevice
  <2>3. phase[e] = "planned" => Tidy(writes', plan'[e].doc, Alone(cloud', e))
    BY <1>1, <1>7, <1>8 DEF TidyDevice
  <2>. QED BY <1>1, <1>8, <2>1, <2>2, <2>3 DEF TidyDevice
<1>10. ASSUME NEW t \in pending[e] PROVE Tidy(writes', t, Alone(cloud', e))
  <2>1. Tidy(writes, t, Alone(cloud, e))
    BY <1>8 DEF TidyCloud
  <2>. QED BY <1>7, <2>1
<1>11. CASE cloud'[e] = cloud[e]
  <2>1. ASSUME NEW n \in 1 .. Len(cloud[e]) PROVE Tidy(writes', cloud[e][n], Alone(cloud', e))
    <3>1. Tidy(writes, cloud[e][n], Alone(cloud, e))
      BY <1>8 DEF TidyCloud
    <3>. QED BY <1>7, <3>1
  <2>. QED BY <1>1, <1>8, <1>9, <1>10, <1>11, <2>1 DEF TidyCloud
<1>12. CASE e = d /\ cloud'[d] = Append(cloud[d], s)
  <2>. DEFINE l == Len(cloud[d])
  <2>1. /\ l \in Nat /\ Len(cloud'[d]) = l + 1 /\ cloud'[d][l + 1] = s
        /\ \A n \in 1 .. l : cloud'[d][n] = cloud[d][n]
    BY <1>2, <1>4, <1>12
  <2>2. /\ \A n \in 1 .. l : cloud[d][n] \subseteq s
        /\ \A n, m \in 1 .. l : n <= m => cloud[d][n] \subseteq cloud[d][m]
    BY <1>8, <1>12 DEF TidyCloud
  <2>3. ASSUME NEW n \in 1 .. l PROVE Tidy(writes', cloud[d][n], Alone(cloud', d))
    <3>1. Tidy(writes, cloud[d][n], Alone(cloud, d))
      BY <1>8, <1>12 DEF TidyCloud
    <3>. QED BY <1>7, <3>1
  <2>4. Tidy(writes', s, Alone(cloud', d))
    BY <1>10, <1>12
  <2>. HIDE DEF l
  <2>5. \A n \in 1 .. Len(cloud'[d]) : n \in 1 .. l \/ n = l + 1
    BY <2>1
  <2>6. ASSUME NEW n \in 1 .. Len(cloud'[d]), NEW m \in 1 .. Len(cloud'[d]), n <= m
        PROVE  cloud'[d][n] \subseteq cloud'[d][m]
    <3>1. CASE m = l + 1
      BY <2>1, <2>2, <2>5, <3>1
    <3>2. CASE m \in 1 .. l
      <4>1. n \in 1 .. l
        BY <2>1, <2>6, <3>2
      <4>. QED BY <2>1, <2>2, <2>6, <3>2, <4>1
    <3>. QED BY <2>5, <3>1, <3>2
  <2>7. ASSUME NEW n \in 1 .. Len(cloud'[d]) PROVE Tidy(writes', cloud'[d][n], Alone(cloud', d))
    BY <2>1, <2>3, <2>4, <2>5
  <2>8. \A n \in 1 .. Len(cloud'[d]) : cloud'[d][n] \subseteq s
    BY <2>1, <2>2, <2>5
  <2>9. pending' = pending
    BY <1>1
  <2>10. TidyCloud(d)'
    BY <1>4, <2>4, <2>6, <2>7, <2>8, <2>9 DEF TidyCloud
  <2>. QED BY <1>9, <1>12, <2>10
<1>. QED BY <1>5, <1>11, <1>12

(* Every action keeps the histories closed, and the history of a device    *)
(* that is alone in one line.                                              *)
THEOREM HistoryNext == Inv /\ HistoryInv /\ [Next]_vars => HistoryInv'
<1>. SUFFICES ASSUME Inv, HistoryInv, [Next]_vars PROVE HistoryInv'
  OBVIOUS
<1>1. CASE Next
  <2>1. PICK d \in Devices :
          \/ \E c \in Configs : Edit(d, c)
          \/ \E front \in FrontEnds[d], asked \in {"Merge", "Download"} :
               Prepare(d, front, asked)
          \/ \E direction \in SyncDirection : Turn(d, direction)
          \/ Choose(d) \/ Apply(d) \/ ApplyFails(d) \/ Abandon(d)
          \/ Stage(d) \/ Upload(d) \/ Confirm(d)
    BY <1>1 DEF Next
  <2>2. ASSUME NEW front \in FrontEnds[d], NEW asked \in {"Merge", "Download"},
               Prepare(d, front, asked)
        PROVE  HistoryInv'
    BY <2>2, PrepareTidy
  <2>3. CASE Apply(d)
    BY <2>3, ApplyTidy
  <2>4. CASE ApplyFails(d) \/ Abandon(d)
    BY <2>4, DropTidy DEF ApplyFails, Abandon
  <2>5. CASE Stage(d)
    BY <2>5, StageTidy
  <2>6. CASE Upload(d)
    BY <2>6, UploadTidy
  <2>7. CASE Confirm(d)
    BY <2>7, ConfirmTidy
  <2>8. ASSUME NEW c \in Configs, Edit(d, c) PROVE HistoryInv'
    BY <2>8, EditTidy
  <2>9. CASE Choose(d)
    BY <2>9, ChooseTidy
  <2>10. ASSUME NEW direction \in SyncDirection, Turn(d, direction) PROVE HistoryInv'
    BY <2>10, TurnTidy
  <2>. QED BY <2>1, <2>2, <2>3, <2>4, <2>5, <2>6, <2>7, <2>8, <2>9, <2>10
<1>2. CASE UNCHANGED vars
  BY <1>2 DEF vars, HistoryInv, TidyDevice, TidyCloud, Tidy, Alone
<1>. QED BY <1>1, <1>2

(* The invariant of the histories holds of every run.                       *)
THEOREM HistoryHolds == Spec => []HistoryInv
  BY InvHolds, HistoryInit, HistoryNext, PTL DEF Spec

(* No device forgets, or keeps to itself, what a write replaced: whatever   *)
(* its document, its plan or a snapshot holds, it holds the writes that     *)
(* these replaced as well (SyncReplica::merge unites whole documents).      *)
HistoriesClosed ==
  \A d \in Devices :
    /\ Closed(Replica(d))
    /\ phase[d] = "planned" => Closed(Planned(d))
    /\ \A s \in pending[d] : Closed([table |-> writes, doc |-> s])
    /\ \A n \in 1 .. Len(cloud[d]) : Closed([table |-> writes, doc |-> cloud[d][n]])

(* So a value that a merge took the place of is always there to be had      *)
(* again, on every device that has seen what replaced it.                   *)
THEOREM HistoriesAreClosed == Spec => []HistoriesClosed
<1>1. HistoryInv => HistoriesClosed
  BY DEF HistoryInv, TidyDevice, TidyCloud, Tidy, HistoriesClosed, Replica, Planned
<1>. QED BY <1>1, HistoryHolds, PTL

(* The latest snapshot of a device holds all that its earlier ones held     *)
(* (next_sequence only grows, and stage_publication stages the document),   *)
(* so that a plan loses nothing by leaving those out.                       *)
SnapshotsGrow ==
  \A d \in Devices : \A n, m \in 1 .. Len(cloud[d]) :
    n <= m => cloud[d][n] \subseteq cloud[d][m]

(* A reader that was away for several publications misses nothing           *)
(* (Latest): neither a merge, which skips what it has observed, nor a       *)
(* directional sync, which reads the last snapshot of each writer.          *)
THEOREM LatestIsEnough == Spec => []SnapshotsGrow
<1>1. HistoryInv => SnapshotsGrow
  BY DEF HistoryInv, TidyCloud, SnapshotsGrow
<1>. QED BY <1>1, HistoryHolds, PTL

-----------------------------------------------------------------------------
(* What a device takes for published is in the cloud.                       *)

Up(cl, s) == \A i \in s : \E w \in Devices : \E k \in 1 .. Len(cl[w]) : i \in cl[w][k]

(* A device's own front ends made its plan, and a command only merges.      *)
Steered(d) ==
  /\ plan[d].front \in FrontEnds[d]
  /\ plan[d].front = "command" => plan[d].direction = "Merge"

UpInv ==
  \A d \in Devices :
    /\ \A s \in published[d] : Up(cloud, s)
    /\ phase[d] = "planned" => Steered(d)

(* Commands only, or two devices at most.                                   *)
Plain ==
  (\A d \in Devices : "desktop" \notin FrontEnds[d]) \/ \E x, y : Devices \subseteq {x, y}

LEMMA UpGrows ==
  ASSUME Inv, NEW cl, NEW s, Up(cloud, s), cl \in [Devices -> Seq(SUBSET WriteIds)],
         \A w \in Devices : /\ Len(cloud[w]) <= Len(cl[w])
                            /\ \A n \in 1 .. Len(cloud[w]) : cl[w][n] = cloud[w][n]
  PROVE  Up(cl, s)
<1>. SUFFICES ASSUME NEW i \in s
              PROVE  \E w \in Devices : \E k \in 1 .. Len(cl[w]) : i \in cl[w][k]
  BY DEF Up
<1>1. PICK w \in Devices : \E k \in 1 .. Len(cloud[w]) : i \in cloud[w][k]
  BY DEF Up
<1>2. PICK k \in 1 .. Len(cloud[w]) : i \in cloud[w][k]
  BY <1>1
<1>3. Len(cloud[w]) \in Nat /\ Len(cl[w]) \in Nat
  BY DEF Inv, Types
<1>4. k \in 1 .. Len(cl[w]) /\ i \in cl[w][k]
  BY <1>2, <1>3
<1>. QED BY <1>4

LEMMA RemoteIsUp ==
  ASSUME Inv, NEW d \in Devices, phase[d] = "planned"
  PROVE  Up(cloud, RemoteDocument(plan[d].seen))
<1>1. \A w \in Devices : plan[d].seen[w] > 0 => plan[d].seen[w] \in 1 .. Len(cloud[w])
  BY PlanReads
<1>. QED BY <1>1 DEF Up, RemoteDocument

(* A device that downloads before it has published anything finds only the  *)
(* other one's history, and that is a single line of writes: there is no    *)
(* conflict, nothing to choose, and nothing is written over it.             *)
LEMMA FirstDownload ==
  ASSUME Inv, HistoryInv, NEW d \in Devices, phase[d] = "planned", Applicable(d),
         plan[d].direction = "Download", FirstSync(d), NEW x, NEW y, Devices \subseteq {x, y}
  PROVE  Chosen(d) = [table |-> writes, doc |-> RemoteDocument(plan[d].seen)]
<1>1. PlanFits(d)
  BY DEF Inv, DeviceInv
<1>2. PICK w \in Devices : plan[d].seen[w] > 0
  BY <1>1 DEF PlanFits, HasRemote
<1>3. Len(cloud[w]) > 0
  <2>1. plan[d].seen[w] \in 1 .. Len(cloud[w])
    BY <1>2, PlanReads
  <2>2. Len(cloud[w]) \in Nat
    BY DEF Inv, Types
  <2>. QED BY <2>1, <2>2
<1>4. cloud[d] = << >>
  <2>1. StagedFits(d) /\ sequence[d] = 1
    BY DEF Inv, CloudInv, FirstSync
  <2>2. Len(cloud[d]) = 0
    BY <2>1 DEF StagedFits
  <2>3. cloud[d] \in Seq(SUBSET WriteIds)
    BY DEF Inv, Types
  <2>. QED BY <2>2, <2>3
<1>5. w # d
  BY <1>3, <1>4
<1>6. Devices \ {w} = {d}
  BY <1>5
<1>7. Alone(cloud, w)
  BY <1>4, <1>6 DEF Alone
<1>. QED BY <1>7, ChosenTidy

LEMMA UpInit == Init => UpInv
  BY DEF Init, UpInv

LEMMA UpUnpublished ==
  ASSUME Inv, UpInv, published' = published, cloud' = cloud,
         \A d \in Devices : phase'[d] = "planned" =>
           \/ /\ phase[d] = "planned"
              /\ plan'[d].direction = plan[d].direction /\ plan'[d].front = plan[d].front
           \/ Steered(d)'
  PROVE  UpInv'
<1>. SUFFICES ASSUME NEW d \in Devices
              PROVE  /\ \A s \in published'[d] : Up(cloud', s)
                     /\ phase'[d] = "planned" => Steered(d)'
  BY DEF UpInv
<1>. QED BY DEF UpInv, Steered

LEMMA UpApply ==
  ASSUME Plain, Inv, HistoryInv, UpInv, NEW d \in Devices, Apply(d)
  PROVE  UpInv'
<1>. DEFINE desired == Materialize(Chosen(d), config[d])
            r == Combined(d, Chosen(d), desired)
            fresh == plan[d].direction = "Download" /\ FirstSync(d)
<1>1. /\ phase[d] = "planned" /\ Applicable(d)
      /\ published' = IF fresh THEN [published EXCEPT ![d] = {r.doc}] ELSE published
      /\ plan' = [plan EXCEPT ![d] = NoPlan]
      /\ cloud' = cloud
      /\ \E x \in {"applied", "idle"} : phase' = [phase EXCEPT ![d] = x]
  BY DEF Apply, Publishing
<1>2. /\ published \in [Devices -> SUBSET (SUBSET WriteIds)]
      /\ plan \in [Devices -> Plans \cup {NoPlan}]
      /\ phase \in [Devices -> {"idle", "planned", "applied", "uploaded"}]
  BY DEF Inv, Types
<1>3. \A e \in Devices : phase'[e] = "planned" => phase[e] = "planned" /\ plan'[e] = plan[e]
  BY <1>1, <1>2
<1>4. CASE ~fresh
  <2>1. published' = published
    BY <1>1, <1>4
  <2>. QED BY <1>1, <1>3, <2>1, UpUnpublished
<1>5. CASE fresh
  <2>1. "desktop" \in FrontEnds[d]
    <3>1. plan[d].front \in {"desktop", "command"}
      BY <1>1 DEF Inv, DeviceInv, PlanFits, Plans
    <3>2. Steered(d)
      BY <1>1 DEF UpInv
    <3>. QED BY <1>5, <3>1, <3>2 DEF Steered
  <2>2. PICK x, y : Devices \subseteq {x, y}
    BY <2>1 DEF Plain
  <2>3. Chosen(d) = [table |-> writes, doc |-> RemoteDocument(plan[d].seen)]
    BY <1>1, <1>5, <2>2, FirstDownload
  <2>4. r = Chosen(d)
    BY <1>5 DEF Combined
  <2>5. r.doc = RemoteDocument(plan[d].seen)
    BY <2>3, <2>4
  <2>6. Up(cloud, r.doc)
    BY <1>1, <2>5, RemoteIsUp
  <2>. HIDE DEF r, desired
  <2>. SUFFICES ASSUME NEW e \in Devices
                PROVE  /\ \A s \in published'[e] : Up(cloud', s)
                       /\ phase'[e] = "planned" => Steered(e)'
    BY DEF UpInv
  <2>7. phase'[e] = "planned" => Steered(e)'
    BY <1>3 DEF UpInv, Steered
  <2>8. ASSUME NEW s \in published'[e] PROVE Up(cloud', s)
    <3>1. s \in published[e] \/ s = r.doc
      BY <1>1, <1>2, <1>5
    <3>2. Up(cloud, s)
      BY <2>6, <3>1 DEF UpInv
    <3>. QED BY <1>1, <3>2
  <2>. QED BY <2>7, <2>8
<1>. QED BY <1>4, <1>5

LEMMA UpConfirm ==
  ASSUME Inv, UpInv, NEW d \in Devices, Confirm(d)
  PROVE  UpInv'
<1>1. /\ phase[d] = "uploaded" /\ published' = [published EXCEPT ![d] = pending[d]]
      /\ UNCHANGED <<cloud, plan>>
      /\ \E x \in {"applied", "idle"} : phase' = [phase EXCEPT ![d] = x]
  BY DEF Confirm, Publishing
<1>2. /\ published \in [Devices -> SUBSET (SUBSET WriteIds)]
      /\ phase \in [Devices -> {"idle", "planned", "applied", "uploaded"}]
      /\ sequence[d] \in Nat \ {0} /\ Len(cloud[d]) \in Nat
  BY DEF Inv, Types
<1>3. PICK s : /\ pending[d] = {s} /\ Len(cloud[d]) = sequence[d] - 1
               /\ cloud[d][sequence[d] - 1] = s /\ sequence[d] > 1
  <2>1. StagedFits(d)
    BY DEF Inv, CloudInv
  <2>. QED BY <1>1, <2>1 DEF StagedFits
<1>4. Up(cloud, s)
  <2>1. sequence[d] - 1 \in 1 .. Len(cloud[d])
    BY <1>2, <1>3
  <2>. QED BY <1>3, <2>1 DEF Up
<1>. SUFFICES ASSUME NEW e \in Devices
              PROVE  /\ \A t \in published'[e] : Up(cloud', t)
                     /\ phase'[e] = "planned" => Steered(e)'
  BY DEF UpInv
<1>5. phase'[e] = "planned" => Steered(e)'
  <2>1. phase'[e] = "planned" => phase[e] = "planned"
    BY <1>1, <1>2
  <2>. QED BY <1>1, <2>1 DEF UpInv, Steered
<1>6. ASSUME NEW t \in published'[e] PROVE Up(cloud', t)
  <2>1. t \in published[e] \/ t = s
    BY <1>1, <1>2, <1>3
  <2>2. Up(cloud, t)
    BY <1>4, <2>1 DEF UpInv
  <2>. QED BY <1>1, <2>2
<1>. QED BY <1>5, <1>6

LEMMA UpUpload ==
  ASSUME Inv, UpInv, NEW d \in Devices, Upload(d)
  PROVE  UpInv'
<1>1. /\ phase' = [phase EXCEPT ![d] = "uploaded"]
      /\ UNCHANGED <<pending, published, plan>>
      /\ \E x \in pending[d] :
           cloud' = IF Len(cloud[d]) < sequence[d] - 1
                    THEN [cloud EXCEPT ![d] = Append(@, x)] ELSE cloud
  BY DEF Upload, localVars
<1>2. /\ cloud \in [Devices -> Seq(SUBSET WriteIds)]
      /\ phase \in [Devices -> {"idle", "planned", "applied", "uploaded"}]
      /\ pending \in [Devices -> SUBSET (SUBSET WriteIds)]
  BY DEF Inv, Types
<1>3. PICK s \in SUBSET WriteIds :
        cloud' = IF Len(cloud[d]) < sequence[d] - 1
                 THEN [cloud EXCEPT ![d] = Append(@, s)] ELSE cloud
  BY <1>1, <1>2
<1>4. /\ cloud' \in [Devices -> Seq(SUBSET WriteIds)]
      /\ \A w \in Devices : cloud'[w] = cloud[w] \/ cloud'[w] = Append(cloud[w], s)
  BY <1>2, <1>3
<1>5. ASSUME NEW w \in Devices
      PROVE  /\ Len(cloud[w]) <= Len(cloud'[w])
             /\ \A n \in 1 .. Len(cloud[w]) : cloud'[w][n] = cloud[w][n]
  <2>. DEFINE q == cloud[w]
  <2>1. q \in Seq(SUBSET WriteIds) /\ cloud'[w] \in {q, Append(q, s)}
    BY <1>2, <1>4
  <2>. HIDE DEF q
  <2>2. Len(q) \in Nat /\ Len(Append(q, s)) = Len(q) + 1
        /\ \A n \in 1 .. Len(q) : Append(q, s)[n] = q[n]
    BY <2>1
  <2>. QED BY <2>1, <2>2 DEF q
<1>. SUFFICES ASSUME NEW e \in Devices
              PROVE  /\ \A t \in published'[e] : Up(cloud', t)
                     /\ phase'[e] = "planned" => Steered(e)'
  BY DEF UpInv
<1>6. phase'[e] = "planned" => phase[e] = "planned"
  BY <1>1, <1>2
<1>7. ASSUME NEW t \in published[e] PROVE Up(cloud', t)
  <2>1. Up(cloud, t)
    BY DEF UpInv
  <2>. QED BY <1>4, <1>5, <2>1, UpGrows
<1>8. phase'[e] = "planned" => Steered(e)'
  BY <1>1, <1>6 DEF UpInv, Steered
<1>. QED BY <1>1, <1>7, <1>8

LEMMA UpNext == Plain /\ Inv /\ HistoryInv /\ UpInv /\ [Next]_vars => UpInv'
<1>. SUFFICES ASSUME Plain, Inv, HistoryInv, UpInv, [Next]_vars PROVE UpInv'
  OBVIOUS
<1>0. /\ phase \in [Devices -> {"idle", "planned", "applied", "uploaded"}]
      /\ plan \in [Devices -> Plans \cup {NoPlan}]
  BY DEF Inv, Types
<1>1. CASE Next
  <2>1. PICK d \in Devices :
          \/ \E c \in Configs : Edit(d, c)
          \/ \E front \in FrontEnds[d], asked \in {"Merge", "Download"} :
               Prepare(d, front, asked)
          \/ \E direction \in SyncDirection : Turn(d, direction)
          \/ Choose(d) \/ Apply(d) \/ ApplyFails(d) \/ Abandon(d)
          \/ Stage(d) \/ Upload(d) \/ Confirm(d)
    BY <1>1 DEF Next
  <2>2. ASSUME NEW front \in FrontEnds[d], NEW asked \in {"Merge", "Download"},
               Prepare(d, front, asked)
        PROVE  UpInv'
    <3>. DEFINE doc == Capture(Replica(d), d, effective[d], config[d]).doc
    <3>1. /\ published' = published /\ cloud' = cloud
          /\ phase' = [phase EXCEPT ![d] = "planned"]
      BY <2>2, Prepares DEF localVars
    <3>2. PICK direction \in SyncDirection, seen \in [Devices -> Nat] :
            /\ front = "command" => direction = "Merge"
            /\ plan' = [plan EXCEPT ![d] =
                          [front |-> front, direction |-> direction, doc |-> doc,
                           effective |-> config[d], seen |-> seen, choice |-> Absent]]
      BY <2>2, Prepares
    <3>. HIDE DEF doc
    <3>3. plan'[d].front = front /\ plan'[d].direction = direction
      BY <1>0, <3>2
    <3>4. \A e \in Devices \ {d} : phase'[e] = phase[e] /\ plan'[e] = plan[e]
      BY <1>0, <3>1, <3>2
    <3>5. Steered(d)'
      BY <3>2, <3>3 DEF Steered
    <3>. QED BY <3>1, <3>4, <3>5, UpUnpublished
  <2>3. CASE Apply(d)
    BY <2>3, UpApply
  <2>4. CASE DropPlan(d)
    <3>1. /\ published' = published /\ cloud' = cloud
          /\ phase' = [phase EXCEPT ![d] = "idle"] /\ plan' = [plan EXCEPT ![d] = NoPlan]
      BY <2>4 DEF DropPlan, localVars
    <3>2. \A e \in Devices : phase'[e] = "planned" => phase[e] = "planned" /\ plan'[e] = plan[e]
      BY <1>0, <3>1
    <3>. QED BY <3>1, <3>2, UpUnpublished
  <2>5. CASE Stage(d)
    BY <2>5, UpUnpublished DEF Stage
  <2>6. CASE Upload(d)
    BY <2>6, UpUpload
  <2>7. CASE Confirm(d)
    BY <2>7, UpConfirm
  <2>8. ASSUME NEW c, Edit(d, c) PROVE UpInv'
    BY <2>8, UpUnpublished DEF Edit, localVars
  <2>9. CASE Choose(d)
    <3>1. /\ published' = published /\ cloud' = cloud /\ phase' = phase
          /\ phase[d] = "planned"
          /\ \E c : plan' = [plan EXCEPT ![d].choice = c]
      BY <2>9 DEF Choose, localVars
    <3>2. plan[d] \in Plans
      BY <3>1 DEF Inv, DeviceInv, PlanFits
    <3>3. \A e \in Devices :
            plan'[e].direction = plan[e].direction /\ plan'[e].front = plan[e].front
      BY <1>0, <3>1, <3>2 DEF Plans
    <3>. QED BY <3>1, <3>3, UpUnpublished
  <2>10. ASSUME NEW direction \in SyncDirection, Turn(d, direction) PROVE UpInv'
    <3>1. /\ published' = published /\ cloud' = cloud /\ phase' = phase
          /\ phase[d] = "planned" /\ plan[d].front = "desktop"
          /\ plan'[d].front = plan[d].front
          /\ \A e \in Devices \ {d} : plan'[e] = plan[e]
      BY <2>10, Turns DEF localVars
    <3>2. Steered(d)'
      BY <3>1 DEF UpInv, Steered
    <3>. QED BY <3>1, <3>2, UpUnpublished
  <2>. QED BY <2>1, <2>2, <2>3, <2>4, <2>5, <2>6, <2>7, <2>8, <2>9, <2>10
           DEF ApplyFails, Abandon
<1>2. CASE UNCHANGED vars
  BY <1>2, UpUnpublished DEF vars
<1>. QED BY <1>1, <1>2

(* What a device publishes reaches the cloud, between two devices or among  *)
(* any number that are synced by commands.                                  *)
LEMMA UpHolds == ASSUME Plain PROVE Spec => []UpInv
<1>1. Init => UpInv
  BY UpInit
<1>2. Inv /\ HistoryInv /\ UpInv /\ [Next]_vars => UpInv'
  BY UpNext
<1>. QED BY <1>1, <1>2, InvHolds, HistoryHolds, PTL DEF Spec

(* Between two devices, or among any number that are synced by commands     *)
(* only, a device that sees nothing to publish holds nothing of its own:    *)
(* neither an upload that failed nor a plan that was dropped keeps a write  *)
(* from the others for good.  A third device can break this, when a device  *)
(* joins with a download and settles a conflict of the two others in its    *)
(* preview: accept_download takes the settled document for published.       *)
THEOREM NothingIsStranded ==
  ASSUME \/ \A d \in Devices : "desktop" \notin FrontEnds[d]
         \/ \E x, y : Devices \subseteq {x, y}
  PROVE  Spec => []NothingStranded
<1>1. UpInv => NothingStranded
  <2>. SUFFICES ASSUME UpInv, NEW d \in Devices, ~NeedsPublication(d), NEW i \in document[d]
                PROVE  \E w \in Devices : \E k \in 1 .. Len(cloud[w]) : i \in cloud[w][k]
    BY DEF NothingStranded
  <2>1. document[d] \in published[d]
    BY DEF NeedsPublication
  <2>2. Up(cloud, document[d])
    BY <2>1 DEF UpInv
  <2>. QED BY <2>2 DEF Up
<1>2. Plain
  BY DEF Plain
<1>3. Spec => []UpInv
  BY <1>2, UpHolds
<1>. QED BY <1>1, <1>3, PTL

(* Devices that have nothing left to sync agree, under the same assumption: *)
(* what the one has published is in the cloud, a later snapshot of a writer *)
(* contains the earlier ones, and the other has merged the last of each.    *)
THEOREM DevicesInStepAgree ==
  ASSUME \/ \A d \in Devices : "desktop" \notin FrontEnds[d]
         \/ \E x, y : Devices \subseteq {x, y}
  PROVE  Spec => []InStepAgree
<1>1. ASSUME Inv, SnapshotsGrow, UpInv, NEW d \in Devices, NEW e \in Devices,
             InStep(d), InStep(e)
      PROVE  document[d] \subseteq document[e]
  <2>. SUFFICES ASSUME NEW i \in document[d] PROVE i \in document[e]
    OBVIOUS
  <2>1. Up(cloud, document[d])
    BY <1>1 DEF UpInv, InStep, NeedsPublication
  <2>2. PICK w \in Devices : \E k \in 1 .. Len(cloud[w]) : i \in cloud[w][k]
    BY <2>1 DEF Up
  <2>3. PICK k \in 1 .. Len(cloud[w]) : i \in cloud[w][k]
    BY <2>2
  <2>4. Len(cloud[w]) \in Nat
    BY <1>1 DEF Inv, Types
  <2>5. i \in cloud[w][Len(cloud[w])]
    <3>1. Len(cloud[w]) \in 1 .. Len(cloud[w]) /\ k <= Len(cloud[w])
      BY <2>3, <2>4
    <3>. QED BY <1>1, <2>3, <3>1 DEF SnapshotsGrow
  <2>6. observed[e][w] = Len(cloud[w]) /\ observed[e][w] > 0
    BY <1>1, <2>3, <2>4 DEF InStep
  <2>. QED BY <1>1, <2>5, <2>6 DEF Inv, ObservedInv
<1>2. Inv /\ SnapshotsGrow /\ BaselineIsHistory /\ UpInv => InStepAgree
  <2>. SUFFICES ASSUME Inv, SnapshotsGrow, BaselineIsHistory, UpInv,
                       NEW d \in Devices, NEW e \in Devices, InStep(d), InStep(e)
                PROVE  /\ document[d] = document[e]
                       /\ Settled(Replica(d)) => config[d] = config[e]
    BY DEF InStepAgree
  <2>1. document[d] = document[e]
    BY <1>1
  <2>2. Replica(d) = Replica(e)
    BY <2>1 DEF Replica
  <2>. DEFINE names == CandidateValues(Replica(d), "name")
  <2>3. ASSUME Settled(Replica(d)) PROVE config[d] = config[e]
    <3>1. config[d] = effective[d] /\ config[e] = effective[e]
      BY DEF InStep
    <3>2. CASE CandidateValues(Replica(d), "presence") = {"gone"}
      BY <2>2, <3>1, <3>2 DEF BaselineIsHistory
    <3>3. CASE CandidateValues(Replica(d), "presence") = {"kept"} /\ Cardinality(names) = 1
      <4>1. effective[d] \in names /\ effective[e] \in names
        BY <2>2, <3>3 DEF BaselineIsHistory
      <4>2. PICK v : names = {v}
        <5>1. IsFiniteSet(names)
          <6>1. Good(cloud, Replica(d), d)
            BY DEF Inv, DeviceInv, Sane
          <6>. QED BY <6>1, GoodDocType, ValuesAreFinite
        <5>. HIDE DEF names
        <5>. QED BY <3>3, <5>1, FS_Singleton
      <4>. QED BY <3>1, <4>1, <4>2
    <3>. QED BY <2>3, <3>2, <3>3 DEF Settled
  <2>. QED BY <2>1, <2>3
<1>3. Plain
  BY DEF Plain
<1>4. Spec => []UpInv
  BY <1>3, UpHolds
<1>. QED BY <1>2, <1>4, InvHolds, LatestIsEnough, BaselinesAreHistory, PTL

-----------------------------------------------------------------------------
(* Where nothing is in conflict, no edit is lost.                           *)

Recorded(t, doc, value) == \E i \in doc : Known(t, i) /\ t[i[1]][i[2]].value = value

Undisputed(r) == Conflicts(r) = {}

(* What a preview has found before it asks: an edit it captured.            *)
PreviewFits(d) ==
  phase[d] = "planned" /\ Undisputed(Replica(d)) =>
    /\ Undisputed(Planned(d))
    /\ plan[d].effective \notin {Absent, effective[d]}
         => Recorded(writes, plan[d].doc, plan[d].effective)

PreviewInv == \A d \in Devices : PreviewFits(d)

LEMMA RecordedKept ==
  ASSUME NEW t, NEW u, NEW d \in Devices, TableType(t), TableType(u), Extends(t, u, d),
         NEW doc, NEW more, doc \subseteq more, NEW value, Recorded(t, doc, value)
  PROVE  Recorded(u, more, value)
<1>1. PICK i \in doc : Known(t, i) /\ t[i[1]][i[2]].value = value
  BY DEF Recorded
<1>2. Known(u, i) /\ u[i[1]][i[2]] = t[i[1]][i[2]]
  BY <1>1, ExtendsKnown
<1>. QED BY <1>1, <1>2 DEF Recorded

LEMMA CandidateIsRecorded ==
  ASSUME NEW cl, NEW r, NEW d \in Devices, Good(cl, r, d), NEW field, NEW value,
         value \in CandidateValues(r, field)
  PROVE  Recorded(r.table, r.doc, value)
<1>1. \A i \in r.doc : Known(r.table, i)
  BY GoodDocType
<1>. QED BY <1>1 DEF CandidateValues, Candidates, WriteOf, Recorded

LEMMA SameConflicts ==
  ASSUME NEW r, NEW s, s.doc = r.doc, \A i \in r.doc : WriteOf(s, i) = WriteOf(r, i)
  PROVE  Conflicts(s) = Conflicts(r)
<1>1. /\ CandidateValues(s, "presence") = CandidateValues(r, "presence")
      /\ CandidateValues(s, "name") = CandidateValues(r, "name")
  BY SameValues
<1>2. /\ Disputed(s, "presence") <=> Disputed(r, "presence")
      /\ Disputed(s, "name") <=> Disputed(r, "name")
  BY <1>1 DEF Disputed
<1>. QED BY <1>1, <1>2 DEF Conflicts

(* A field with one value is not in dispute.                                *)
LEMMA OneValue ==
  ASSUME NEW r, NEW field, NEW value, CandidateValues(r, field) = {value}
  PROVE  ~Disputed(r, field)
<1>1. Cardinality(CandidateValues(r, field)) = 1
  BY CardinalitySingleton
<1>. QED BY <1>1 DEF Disputed

(* A capture by a device without a conflict makes none, and has the edit.   *)
LEMMA CaptureRecords ==
  ASSUME NEW cl, NEW r, NEW d \in Devices, NEW baseline \in Configs, Sane(cl, r, d, baseline),
         NEW current \in Configs, NEW s, s = Capture(r, d, baseline, current),
         Undisputed(r)
  PROVE  /\ Undisputed(s)
         /\ current \notin {Absent, baseline} => Recorded(s.table, s.doc, current)
<1>0. /\ Good(cl, r, d) /\ Present(r) /\ Baseline(r, baseline)
      /\ Conflicts(r) = {}
  BY DEF Sane, Undisputed
<1>1. CASE baseline = current
  BY <1>1 DEF Capture
<1>2. CASE baseline # current /\ current = Absent
  <2>1. s = Put(r, d, "presence", "gone", "kept")
    BY <1>0, <1>2 DEF Capture
  <2>2. \A i \in Candidates(r, "presence") : WriteOf(r, i).value = "kept"
    BY <1>0, <1>2, BaselineSeen, CandidateHasValue
  <2>3. ValueFits("presence", "gone")
    BY DEF ValueFits
  <2>4. CandidateValues(s, "presence") = {"gone"}
    BY <1>0, <2>1, <2>2, <2>3, PutSteps
  <2>5. ~Disputed(s, "presence")
    BY <2>4, OneValue
  <2>. QED BY <1>2, <2>4, <2>5 DEF Conflicts, Undisputed
<1>3. CASE baseline # current /\ current # Absent
  <2>. DEFINE named == Put(r, d, "name", current, baseline)
              seen == IF baseline = Absent THEN Absent ELSE "kept"
  <2>1. s = Put(named, d, "presence", "kept", seen)
    BY <1>0, <1>3 DEF Capture
  <2>2. /\ ValueFits("presence", "kept") /\ ValueFits("name", current)
        /\ seen \in Configs \cup {"kept"} /\ baseline \in Configs \cup {"kept"}
    BY <1>3 DEF ValueFits, Configs
  <2>3. baseline # Absent => \A i \in Candidates(r, "name") : WriteOf(r, i).value = baseline
    BY <1>0, BaselineSeen, CandidateHasValue
  <2>4. /\ Good(cl, named, d)
        /\ CandidateValues(named, "presence") = CandidateValues(r, "presence")
        /\ CandidateValues(named, "name") = {current}
    <3>1. named = Put(r, d, "name", current, baseline)
      OBVIOUS
    <3>. HIDE DEF named
    <3>. QED BY <1>0, <2>2, <2>3, <3>1, PutSteps
  <2>. HIDE DEF named
  <2>5. seen # Absent => \A i \in Candidates(named, "presence") : WriteOf(named, i).value = seen
    <3>. SUFFICES ASSUME baseline # Absent
                  PROVE  \A i \in Candidates(named, "presence") : WriteOf(named, i).value = "kept"
      OBVIOUS
    <3>1. CandidateValues(named, "presence") \subseteq {"kept"}
      BY <1>0, <2>4, BaselineSeen
    <3>. QED BY <3>1, CandidateHasValue
  <2>. HIDE DEF seen
  <2>6. /\ Good(cl, s, d) /\ CandidateValues(s, "presence") = {"kept"}
        /\ CandidateValues(s, "name") = CandidateValues(named, "name")
    BY <2>1, <2>2, <2>4, <2>5, PutSteps
  <2>7. CandidateValues(s, "name") = {current}
    BY <2>4, <2>6
  <2>8. ~Disputed(s, "presence") /\ ~Disputed(s, "name")
    BY <2>6, <2>7, OneValue
  <2>9. Recorded(s.table, s.doc, current)
    BY <2>6, <2>7, CandidateIsRecorded
  <2>. QED BY <2>8, <2>9 DEF Conflicts, Undisputed
<1>. QED BY <1>1, <1>2, <1>3

LEMMA PreviewInit == Init => PreviewInv
  BY DEF Init, PreviewInv, PreviewFits

(* A preview goes on while the table changes by a step of another device.   *)
LEMMA PreviewStays ==
  ASSUME Inv, PreviewInv, NEW d \in Devices, GoodTable(cloud, writes'), Remembers(writes', d),
         NEW e \in Devices \ {d}, document'[e] = document[e], effective'[e] = effective[e],
         phase'[e] = phase[e], plan'[e] = plan[e]
  PROVE  PreviewFits(e)'
<1>. SUFFICES ASSUME phase[e] = "planned", Undisputed(Replica(e)')
              PROVE  /\ Undisputed(Planned(e)')
                     /\ plan[e].effective \notin {Absent, effective[e]}
                          => Recorded(writes', plan[e].doc, plan[e].effective)
  BY DEF PreviewFits
<1>1. GoodDoc(cloud, writes, document[e], e) /\ GoodDoc(cloud, writes, plan[e].doc, e)
  BY TableOfDevice, PlanReads DEF Inv
<1>2. /\ \A i \in document[e] : writes'[i[1]][i[2]] = writes[i[1]][i[2]]
      /\ \A i \in plan[e].doc : writes'[i[1]][i[2]] = writes[i[1]][i[2]]
      /\ GoodDoc(cloud, writes', plan[e].doc, e)
  BY <1>1, DocStays
<1>3. Undisputed(Replica(e)') <=> Undisputed(Replica(e))
  <2>1. /\ Replica(e)'.doc = Replica(e).doc
        /\ \A i \in Replica(e).doc : WriteOf(Replica(e)', i) = WriteOf(Replica(e), i)
    BY <1>2 DEF Replica, WriteOf
  <2>. QED BY <2>1, SameConflicts DEF Undisputed
<1>4. Undisputed(Planned(e)') <=> Undisputed(Planned(e))
  <2>1. /\ Planned(e)'.doc = Planned(e).doc
        /\ \A i \in Planned(e).doc : WriteOf(Planned(e)', i) = WriteOf(Planned(e), i)
    BY <1>2 DEF Planned, WriteOf
  <2>. QED BY <2>1, SameConflicts DEF Undisputed
<1>5. PreviewFits(e)
  BY DEF PreviewInv
<1>6. Recorded(writes, plan[e].doc, plan[e].effective)
        => Recorded(writes', plan[e].doc, plan[e].effective)
  BY <1>2 DEF Recorded, GoodDoc
<1>. QED BY <1>3, <1>4, <1>5, <1>6 DEF PreviewFits

LEMMA PreviewPrepare ==
  ASSUME Inv, PreviewInv, NEW d \in Devices, NEW front \in FrontEnds[d],
         NEW asked \in {"Merge", "Download"}, Prepare(d, front, asked)
  PROVE  PreviewInv'
<1>. DEFINE r == Capture(Replica(d), d, effective[d], config[d])
<1>0. PICK direction \in SyncDirection, seen \in [Devices -> Nat] :
        plan' = [plan EXCEPT ![d] =
                  [front |-> front, direction |-> direction, doc |-> r.doc,
                   effective |-> config[d], seen |-> seen, choice |-> Absent]]
  BY Prepares
<1>. DEFINE p == [front |-> front, direction |-> direction, doc |-> r.doc,
                  effective |-> config[d], seen |-> seen, choice |-> Absent]
<1>1. /\ writes' = r.table
      /\ plan' = [plan EXCEPT ![d] = p] /\ phase' = [phase EXCEPT ![d] = "planned"]
      /\ UNCHANGED <<document, effective>>
  BY <1>0, Prepares DEF localVars
<1>2. /\ config[d] \in Configs /\ effective[d] \in Configs
      /\ phase \in [Devices -> {"idle", "planned", "applied", "uploaded"}]
      /\ plan \in [Devices -> Plans \cup {NoPlan}]
  BY DEF Inv, Types
<1>3. Sane(cloud, Replica(d), d, effective[d])
  BY DEF Inv, DeviceInv
<1>4. Grown(cloud, Replica(d), r, d)
  <2>. DEFINE x == Replica(d)
  <2>. HIDE DEF x
  <2>. QED BY <1>2, <1>3, CaptureSteps DEF x
<1>5. Undisputed(Replica(d)) =>
        /\ Undisputed(r)
        /\ config[d] \notin {Absent, effective[d]} => Recorded(r.table, r.doc, config[d])
  <2>. DEFINE x == Replica(d)
  <2>. HIDE DEF x
  <2>. QED BY <1>2, <1>3, CaptureRecords DEF x
<1>. HIDE DEF r
<1>6. /\ Good(cloud, r, d) /\ Extends(writes, r.table, d)
  BY <1>4 DEF Grown, Replica
<1>7. GoodTable(cloud, writes') /\ TableType(writes') /\ TableType(writes)
  BY <1>1, <1>6, TableOfDevice DEF Good, GoodTable, Inv
<1>8. Remembers(writes', d)
  BY <1>1, <1>6, <1>7, ExtendsRemembers
<1>9. p.doc = r.doc /\ p.effective = config[d]
  OBVIOUS
<1>. HIDE DEF p
<1>10. /\ plan'[d] = p
       /\ \A e \in Devices \ {d} : phase'[e] = phase[e] /\ plan'[e] = plan[e]
  BY <1>1, <1>2
<1>11. PreviewFits(d)'
  <2>1. Undisputed(Replica(d)') <=> Undisputed(Replica(d))
    <3>1. GoodDoc(cloud, writes, document[d], d)
      BY TableOfDevice DEF Inv
    <3>2. \A i \in document[d] : writes'[i[1]][i[2]] = writes[i[1]][i[2]]
      BY <1>7, <1>8, <3>1, DocStays
    <3>3. /\ Replica(d)'.doc = Replica(d).doc
          /\ \A i \in Replica(d).doc : WriteOf(Replica(d)', i) = WriteOf(Replica(d), i)
      BY <1>1, <3>2 DEF Replica, WriteOf
    <3>. QED BY <3>3, SameConflicts DEF Undisputed
  <2>2. Undisputed(Planned(d)') <=> Undisputed(r)
    <3>1. /\ Planned(d)'.doc = r.doc
          /\ \A i \in r.doc : WriteOf(Planned(d)', i) = WriteOf(r, i)
      BY <1>1, <1>9, <1>10 DEF Planned, WriteOf
    <3>. QED BY <3>1, SameConflicts DEF Undisputed
  <2>. QED BY <1>1, <1>5, <1>9, <1>10, <2>1, <2>2 DEF PreviewFits
<1>. SUFFICES ASSUME NEW e \in Devices PROVE PreviewFits(e)'
  BY DEF PreviewInv
<1>12. CASE e # d
  BY <1>1, <1>7, <1>8, <1>10, <1>12, PreviewStays
<1>. QED BY <1>11, <1>12

LEMMA PreviewUnwritten ==
  ASSUME PreviewInv, UNCHANGED <<writes, document, effective>>,
         \A d \in Devices : phase'[d] = "planned" =>
           /\ phase[d] = "planned"
           /\ plan'[d].doc = plan[d].doc /\ plan'[d].effective = plan[d].effective
  PROVE  PreviewInv'
<1>. SUFFICES ASSUME NEW d \in Devices, phase'[d] = "planned"
              PROVE  PreviewFits(d)'
  BY DEF PreviewInv, PreviewFits
<1>1. Replica(d)' = Replica(d) /\ Planned(d)' = Planned(d)
  BY DEF Replica, Planned
<1>2. PreviewFits(d)
  BY DEF PreviewInv
<1>. QED BY <1>1, <1>2 DEF PreviewFits

LEMMA PreviewEnds ==
  ASSUME Inv, PreviewInv, NEW d \in Devices, GoodTable(cloud, writes'), Remembers(writes', d),
         phase'[d] # "planned",
         \A e \in Devices \ {d} : /\ document'[e] = document[e] /\ effective'[e] = effective[e]
                                  /\ phase'[e] = phase[e] /\ plan'[e] = plan[e]
  PROVE  PreviewInv'
<1>. SUFFICES ASSUME NEW e \in Devices PROVE PreviewFits(e)'
  BY DEF PreviewInv
<1>1. CASE e = d
  BY <1>1 DEF PreviewFits
<1>2. CASE e # d
  BY <1>2, PreviewStays
<1>. QED BY <1>1, <1>2

LEMMA PreviewNext == Inv /\ PreviewInv /\ [Next]_vars => PreviewInv'
<1>. SUFFICES ASSUME Inv, PreviewInv, [Next]_vars PROVE PreviewInv'
  OBVIOUS
<1>0. /\ phase \in [Devices -> {"idle", "planned", "applied", "uploaded"}]
      /\ plan \in [Devices -> Plans \cup {NoPlan}]
      /\ document \in [Devices -> SUBSET WriteIds] /\ effective \in [Devices -> Configs]
  BY DEF Inv, Types
<1>1. CASE Next
  <2>1. PICK d \in Devices :
          \/ \E c \in Configs : Edit(d, c)
          \/ \E front \in FrontEnds[d], asked \in {"Merge", "Download"} :
               Prepare(d, front, asked)
          \/ \E direction \in SyncDirection : Turn(d, direction)
          \/ Choose(d) \/ Apply(d) \/ ApplyFails(d) \/ Abandon(d)
          \/ Stage(d) \/ Upload(d) \/ Confirm(d)
    BY <1>1 DEF Next
  <2>2. ASSUME NEW front \in FrontEnds[d], NEW asked \in {"Merge", "Download"},
               Prepare(d, front, asked)
        PROVE  PreviewInv'
    BY <2>2, PreviewPrepare
  <2>3. CASE Apply(d)
    <3>. DEFINE desired == Materialize(Chosen(d), config[d])
                r == Combined(d, Chosen(d), desired)
    <3>1. /\ phase[d] = "planned" /\ Applicable(d)
          /\ writes' = r.table
          /\ document' = [document EXCEPT ![d] = r.doc]
          /\ effective' = [effective EXCEPT ![d] = desired]
          /\ plan' = [plan EXCEPT ![d] = NoPlan]
          /\ \E x \in {"applied", "idle"} : phase' = [phase EXCEPT ![d] = x]
      BY <2>3 DEF Apply, Publishing
    <3>2. Sane(cloud, r, d, desired) /\ Extends(writes, r.table, d)
      BY <3>1, AppliedSteps
    <3>. HIDE DEF desired, r
    <3>3. GoodTable(cloud, writes') /\ TableType(writes')
      BY <3>1, <3>2 DEF Sane, Good, GoodTable
    <3>4. Remembers(writes', d)
      <4>1. TableType(writes)
        BY TableOfDevice DEF Inv
      <4>. QED BY <3>1, <3>2, <3>3, <4>1, ExtendsRemembers
    <3>5. /\ phase'[d] # "planned"
          /\ \A e \in Devices \ {d} :
               /\ document'[e] = document[e] /\ effective'[e] = effective[e]
               /\ phase'[e] = phase[e] /\ plan'[e] = plan[e]
      BY <1>0, <3>1
    <3>. QED BY <3>3, <3>4, <3>5, PreviewEnds
  <2>4. CASE DropPlan(d)
    <3>1. /\ phase' = [phase EXCEPT ![d] = "idle"] /\ plan' = [plan EXCEPT ![d] = NoPlan]
          /\ writes' = [writes EXCEPT ![d] = Kept(d)]
          /\ document' = document /\ effective' = effective
      BY <2>4 DEF DropPlan, localVars
    <3>2. GoodTable(cloud, writes') /\ Remembers(writes', d)
      BY <3>1, KeptSteps
    <3>3. /\ phase'[d] # "planned"
          /\ \A e \in Devices \ {d} : phase'[e] = phase[e] /\ plan'[e] = plan[e]
      BY <1>0, <3>1
    <3>. QED BY <3>1, <3>2, <3>3, PreviewEnds
  <2>5. CASE Stage(d) \/ (\E c \in Configs : Edit(d, c))
    BY <2>5, PreviewUnwritten DEF Stage, Edit, localVars
  <2>6. CASE Upload(d)
    <3>1. /\ UNCHANGED <<writes, document, effective, plan>>
          /\ phase' = [phase EXCEPT ![d] = "uploaded"]
      BY <2>6 DEF Upload, localVars
    <3>2. \A e \in Devices : phase'[e] = "planned" => phase[e] = "planned"
      BY <1>0, <3>1
    <3>. QED BY <3>1, <3>2, PreviewUnwritten
  <2>7. CASE Confirm(d)
    <3>1. /\ UNCHANGED <<writes, document, effective, plan>>
          /\ \E x \in {"applied", "idle"} : phase' = [phase EXCEPT ![d] = x]
      BY <2>7 DEF Confirm, Publishing
    <3>2. \A e \in Devices : phase'[e] = "planned" => phase[e] = "planned"
      BY <1>0, <3>1
    <3>. QED BY <3>1, <3>2, PreviewUnwritten
  <2>8. CASE Choose(d)
    <3>1. /\ UNCHANGED <<writes, document, effective, phase>> /\ phase[d] = "planned"
          /\ \E c : plan' = [plan EXCEPT ![d].choice = c]
      BY <2>8 DEF Choose, localVars
    <3>2. plan[d] \in Plans
      BY <3>1 DEF Inv, DeviceInv, PlanFits
    <3>3. \A e \in Devices : plan'[e].doc = plan[e].doc /\ plan'[e].effective = plan[e].effective
      BY <1>0, <3>1, <3>2 DEF Plans
    <3>. QED BY <3>1, <3>3, PreviewUnwritten
  <2>9. ASSUME NEW direction \in SyncDirection, Turn(d, direction) PROVE PreviewInv'
    <3>1. /\ UNCHANGED <<writes, document, effective, phase>> /\ phase[d] = "planned"
          /\ plan' = [plan EXCEPT ![d].direction = direction, ![d].choice = Absent]
      BY <2>9 DEF Turn, localVars
    <3>2. plan[d] \in Plans
      BY <3>1 DEF Inv, DeviceInv, PlanFits
    <3>3. \A e \in Devices : plan'[e].doc = plan[e].doc /\ plan'[e].effective = plan[e].effective
      BY <1>0, <3>1, <3>2 DEF Plans
    <3>. QED BY <3>1, <3>3, PreviewUnwritten
  <2>. QED BY <2>1, <2>2, <2>3, <2>4, <2>5, <2>6, <2>7, <2>8, <2>9 DEF ApplyFails, Abandon
<1>2. CASE UNCHANGED vars
  BY <1>2, PreviewUnwritten DEF vars
<1>. QED BY <1>1, <1>2

LEMMA PutRecords ==
  ASSUME NEW r, NEW d \in Devices, Causal(r), NEW field \in {"presence", "name"}, NEW value,
         ValueFits(field, value), NEW s, s = Put(r, d, field, value, Absent)
  PROVE  Recorded(s.table, s.doc, value)
<1>. DEFINE w == [field |-> field, value |-> value, over |-> Candidates(r, field),
                  base |-> Absent]
            q == r.table[d]
<1>1. Causal(s)
  BY PutContinues DEF Continued, Configs
<1>2. s.table = [r.table EXCEPT ![d] = Append(q, w)] /\ s.doc = r.doc \cup {<<d, Len(q) + 1>>}
  BY DEF Put
<1>3. r.table \in [Devices -> Seq(Writes)]
  BY DEF Causal, TableType
<1>4. s.table[d] = Append(q, w) /\ q \in Seq(Writes) /\ w.value = value
  BY <1>2, <1>3
<1>. DEFINE l == Len(q)
<1>5. l \in Nat /\ Append(q, w)[l + 1] = w
  <2>. HIDE DEF q, w
  <2>. QED BY <1>4
<1>. HIDE DEF q, w, l
<1>6. <<d, l + 1>> \in s.doc
  BY <1>2 DEF l
<1>7. Known(s.table, <<d, l + 1>>)
  BY <1>1, <1>6 DEF Causal
<1>8. s.table[d][l + 1].value = value
  BY <1>4, <1>5
<1>. QED BY <1>6, <1>7, <1>8 DEF Recorded

(* What a merge has of the edits of its user, before a choice.              *)
LEMMA MergedRecords ==
  ASSUME Inv, HistoryInv, PreviewInv, NEW d \in Devices, phase[d] = "planned",
         plan[d].direction = "Merge", config[d] \notin {Absent, effective[d]},
         Undisputed(Replica(d)), NEW m, m = Merged(d, config[d])
  PROVE  Recorded(m.table, m.doc, config[d])
<1>. DEFINE p == plan[d]
            remote == RemoteDocument(p.seen)
            start == Planned(d)
            own == Capture(start, d, p.effective, config[d])
<1>1. /\ config[d] \in Configs /\ p.effective \in Configs
      /\ Sane(cloud, start, d, p.effective)
  BY DEF Inv, Types, DeviceInv, PlanFits, Plans
<1>2. /\ Undisputed(start)
      /\ p.effective \notin {Absent, effective[d]} => Recorded(writes, p.doc, p.effective)
  BY DEF PreviewInv, PreviewFits
<1>3. m = [table |-> own.table, doc |-> own.doc \cup remote]
  BY DEF Merged, Planned
<1>4. start.table = writes /\ start.doc = p.doc
  BY DEF Planned
<1>5. Recorded(own.table, own.doc, config[d])
  <2>1. CASE config[d] = p.effective
    <3>1. own = start
      BY <2>1 DEF Capture
    <3>. QED BY <1>2, <1>4, <2>1, <3>1
  <2>2. CASE config[d] # p.effective
    <3>1. own = Capture(start, d, p.effective, config[d])
      OBVIOUS
    <3>. HIDE DEF own, start, p
    <3>2. config[d] \notin {Absent, p.effective} => Recorded(own.table, own.doc, config[d])
      BY <1>1, <1>2, <3>1, CaptureRecords
    <3>. QED BY <2>2, <3>2
  <2>. QED BY <2>1, <2>2
<1>. HIDE DEF own, remote
<1>. QED BY <1>3, <1>5 DEF Recorded

LEMMA ApplyRecords ==
  ASSUME Inv, HistoryInv, PreviewInv, NEW d \in Devices, Apply(d),
         plan[d].direction # "Download", config[d] \notin {Absent, effective[d]},
         Undisputed(Replica(d))
  PROVE  Recorded(writes', document'[d], config[d])
<1>. DEFINE r == Chosen(d)
            m == Merged(d, config[d])
<1>1. /\ phase[d] = "planned" /\ Applicable(d)
      /\ writes' = r.table /\ document'[d] = r.doc
  <2>1. document \in [Devices -> SUBSET WriteIds]
    BY DEF Inv, Types
  <2>. QED BY <2>1 DEF Apply, Combined
<1>2. /\ config[d] \in Configs /\ config[d] \in Names /\ Absent \in Configs
      /\ plan[d].direction \in SyncDirection /\ plan[d].choice \in Choices \cup {Absent}
  <2>1. plan[d] \in Plans
    BY <1>1, PlanReads
  <2>. QED BY <2>1 DEF Inv, Types, Configs, Plans
<1>3. Causal(m)
  BY <1>1, <1>2, MergedTidy
<1>4. CASE plan[d].direction = "Upload"
  <2>. DEFINE first == Put(m, d, "presence", "kept", Absent)
  <2>1. r = Put(first, d, "name", config[d], Absent)
    BY <1>4 DEF Chosen, ReplaceFields
  <2>2. ValueFits("presence", "kept") /\ ValueFits("name", config[d])
    BY <1>2 DEF ValueFits
  <2>. HIDE DEF m, r
  <2>3. Causal(first)
    BY <1>2, <1>3, <2>2, PutContinues DEF Continued
  <2>. HIDE DEF first
  <2>. QED BY <1>1, <2>1, <2>2, <2>3, PutRecords
<1>5. CASE plan[d].direction = "Merge"
  <2>1. Recorded(m.table, m.doc, config[d])
    BY <1>1, <1>5, MergedRecords
  <2>2. r = Resolve(m, d, plan[d].choice)
    BY <1>5 DEF Chosen
  <2>. HIDE DEF m, r
  <2>3. Continued(m, r, d)
    BY <1>2, <1>3, <2>2, ResolveContinues
  <2>4. /\ TableType(m.table) /\ TableType(r.table)
        /\ Extends(m.table, r.table, d) /\ m.doc \subseteq r.doc
    BY <1>3, <2>3 DEF Causal, Continued
  <2>. QED BY <1>1, <2>1, <2>4, RecordedKept
<1>. QED BY <1>2, <1>4, <1>5 DEF SyncDirection

(* The edit of a user who has no conflict to settle is in the causal        *)
(* history once a merge or an upload has been applied, whether it was made  *)
(* before the sync, during its preview or both ("Re-read live local values  *)
(* so edits made during download remain concurrent",                        *)
(* docs/development/cloud-sync-v3.md).  EditsRemain says so of every edit,  *)
(* and is refuted by one that is made while a field is in conflict.         *)
UndisputedEditsRemain ==
  [][\A d \in Devices :
       /\ Apply(d) /\ plan[d].direction # "Download"
       /\ config[d] \notin {Absent, effective[d]} /\ Conflicts(Replica(d)) = {}
       => \E i \in document'[d] : WriteOf([table |-> writes'], i).value = config[d]]_vars

(* What is lost in finding 2 of the README is lost to the conflict alone:   *)
(* apply captures the live values of the stores before it merges, and       *)
(* capture_local skips the blocked fields only.                             *)
THEOREM UndisputedEditsAreKept == Spec => UndisputedEditsRemain
<1>1. Spec => []PreviewInv
  BY InvHolds, PreviewInit, PreviewNext, PTL DEF Spec
<1>2. Inv /\ HistoryInv /\ PreviewInv =>
        [\A d \in Devices :
           /\ Apply(d) /\ plan[d].direction # "Download"
           /\ config[d] \notin {Absent, effective[d]} /\ Conflicts(Replica(d)) = {}
           => \E i \in document'[d] : WriteOf([table |-> writes'], i).value = config[d]]_vars
  <2>. SUFFICES ASSUME Inv, HistoryInv, PreviewInv, NEW d \in Devices, Apply(d),
                       plan[d].direction # "Download",
                       config[d] \notin {Absent, effective[d]}, Conflicts(Replica(d)) = {}
                PROVE  \E i \in document'[d] : WriteOf([table |-> writes'], i).value = config[d]
    OBVIOUS
  <2>1. Recorded(writes', document'[d], config[d])
    BY ApplyRecords DEF Undisputed
  <2>. QED BY <2>1 DEF Recorded, WriteOf
<1>. QED BY <1>1, <1>2, InvHolds, HistoryHolds, PTL DEF UndisputedEditsRemain
=============================================================================
