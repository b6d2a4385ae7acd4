-------------------- MODULE ConnectionReferences_proofs --------------------
(***************************************************************************)
(* Proofs about the references the registry counts: the reference count of *)
(* an entry, the ancestor that a tunnelled entry owns, the retirement of a *)
(* dedicated connection whose last consumer is gone, the reference a       *)
(* tunnelled connection holds on its parent, and the timer of a connection *)
(* that nobody references.                                                 *)
(***************************************************************************)
EXTENDS ConnectionRegistry_proofs

-----------------------------------------------------------------------------
(* The reference count.  RefCountExact is inductive once the consumers are  *)
(* known to be finite; IndexInv says that no release is under way on a      *)
(* connection that does not exist yet, so that a new entry starts at zero.  *)

CountOK(c) ==
  /\ IsFiniteSet(entry[c].consumers)
  /\ entry[c].refCount = Cardinality(entry[c].consumers) + Cardinality(Releasing(c))

CountInv == \A c \in Conns : CountOK(c)

LEMMA CountInvExact == CountInv => RefCountExact
BY DEF CountInv, CountOK, RefCountExact

LEMMA ReleasingFinite ==
  ASSUME NEW c
  PROVE  IsFiniteSet(Releasing(c)) /\ Cardinality(Releasing(c)) \in Nat
<1>1. Releasing(c) \subseteq Tasks
  BY DEF Releasing
<1>2. IsFiniteSet(Tasks)
  BY RegistryAssumption, FS_Union DEF Tasks
<1> QED BY <1>1, <1>2, FS_Subset, FS_CardinalityType

(* No task enters or leaves "decrement".                                    *)
SameReleases ==
  \A x \in Tasks : /\ pc'[x] = "decrement" <=> pc[x] = "decrement"
                   /\ pc[x] = "decrement" => ent'[x] = ent[x]

SameReferences(c) ==
  entry'[c].consumers = entry[c].consumers /\ entry'[c].refCount = entry[c].refCount

LEMMA SameReleasing ==
  ASSUME SameReleases, NEW c
  PROVE  Releasing(c)' = Releasing(c)
BY DEF SameReleases, Releasing

LEMMA CountStep ==
  ASSUME CountInv, SameReleases, NEW e \in Conns,
         \A c \in Conns \ {e} : SameReferences(c), CountOK(e)'
  PROVE  CountInv'
<1>1. ASSUME NEW c \in Conns, c # e PROVE CountOK(c)'
  BY <1>1, SameReleasing DEF CountInv, CountOK, SameReferences
<1> QED BY <1>1 DEF CountInv

LEMMA CountUnchanged ==
  ASSUME CountInv, SameReleases, \A c \in Conns : SameReferences(c)
  PROVE  CountInv'
BY SameReleasing DEF CountInv, CountOK, SameReferences

(* A task that leaves a label other than "decrement" for another.           *)
LEMMA ReleasesMove ==
  ASSUME TypeInv, NEW t \in Tasks, pc[t] # "decrement",
         \/ \E s : Continue(t, s)
         \/ Finish(t)
         \/ \E label \in Labels \ {"decrement"} : Goto(t, label)
  PROVE  SameReleases
BY DEF SameReleases, Continue, Finish, Goto, TypeInv, TasksOK

LEMMA PushJoins ==
  ASSUME NEW e \in Entry, NEW u, NEW f, f = Push(e, u) \/ f = PushAndRevive(e, u)
  PROVE  /\ f.consumers = e.consumers \cup {u}
         /\ f.refCount = IF u \in e.consumers THEN e.refCount ELSE e.refCount + 1
<1>1. /\ Push(e, u).consumers = e.consumers \cup {u}
      /\ Push(e, u).refCount = IF u \in e.consumers THEN e.refCount ELSE e.refCount + 1
  BY DEF Push, Entry
<1>2. CASE f = Push(e, u)
  BY <1>1, <1>2
<1>3. CASE f = PushAndRevive(e, u) /\ f # Push(e, u)
  <2>1. f = [Push(e, u) EXCEPT !.armed = 0, !.captured = {},
               !.state = IF e.state = "Idle" /\ e.physical THEN "Active" ELSE @]
    BY <1>3 DEF PushAndRevive
  <2>2. f.consumers = Push(e, u).consumers /\ f.refCount = Push(e, u).refCount
    BY <2>1 DEF Push, Entry
  <2> QED BY <1>1, <2>2
<1> QED BY <1>2, <1>3

(* A consumer that joins is counted once.                                   *)
LEMMA PushCount ==
  ASSUME TypeInv, CountInv, SameReleases, NEW e \in Conns, NEW u \in Users,
         entry' = [entry EXCEPT ![e] = Push(@, u)]
                  \/ entry' = [entry EXCEPT ![e] = PushAndRevive(@, u)]
  PROVE  CountInv'
<1>1. entry[e] \in Entry /\ entry \in [Conns -> Entry]
  BY DEF TypeInv, RegistryOK
<1>2. /\ entry'[e].consumers = entry[e].consumers \cup {u}
      /\ entry'[e].refCount = IF u \in entry[e].consumers THEN entry[e].refCount
                                                         ELSE entry[e].refCount + 1
  BY <1>1, PushJoins
<1>3. \A c \in Conns \ {e} : SameReferences(c)
  BY <1>1 DEF SameReferences
<1>4. CountOK(e)'
  <2>1. /\ IsFiniteSet(entry[e].consumers) /\ Releasing(e)' = Releasing(e)
        /\ entry[e].refCount = Cardinality(entry[e].consumers) + Cardinality(Releasing(e))
    BY SameReleasing DEF CountInv, CountOK
  <2>2. /\ Cardinality(entry[e].consumers) \in Nat
        /\ Cardinality(Releasing(e)) \in Nat
    BY <2>1, ReleasingFinite, FS_CardinalityType
  <2>3. /\ IsFiniteSet(entry'[e].consumers)
        /\ Cardinality(entry'[e].consumers) =
             IF u \in entry[e].consumers THEN Cardinality(entry[e].consumers)
                                         ELSE Cardinality(entry[e].consumers) + 1
    <3> DEFINE S == entry[e].consumers
    <3>1. IsFiniteSet(S)
      BY <2>1
    <3> HIDE DEF S
    <3>2. /\ IsFiniteSet(S \cup {u})
          /\ Cardinality(S \cup {u}) = IF u \in S THEN Cardinality(S) ELSE Cardinality(S) + 1
      BY <3>1, FS_AddElement
    <3> QED BY <1>2, <3>2 DEF S
  <2> QED BY <1>2, <2>1, <2>2, <2>3 DEF CountOK
<1> QED BY <1>3, <1>4, CountStep

(* A new entry: nothing is releasing what did not exist.                    *)
LEMMA BornCount ==
  ASSUME TypeInv, IndexInv, CountInv, SameReleases, NEW c \in Conns, ~Born(c),
         IsFiniteSet(entry'[c].consumers),
         entry'[c].refCount = Cardinality(entry'[c].consumers),
         \A x \in Conns \ {c} : SameReferences(x)
  PROVE  CountInv'
<1>1. Releasing(c)' = {}
  <2>1. Releasing(c) = {}
    BY DEF Releasing, IndexInv, IndexTask
  <2> QED BY <2>1, SameReleasing
<1>2. CountOK(c)'
  BY <1>1, FS_EmptySet, FS_CardinalityType DEF CountOK
<1> QED BY <1>2, CountStep

LEMMA AcquireCount ==
  ASSUME TypeInv, IndexInv, CountInv, NEW t \in Tasks,
         Acquire(t) \/ AcquirePush(t) \/ Attach(t)
  PROVE  CountInv'
<1>1. pc[t] \notin {"free", "decrement"} /\ entry \in [Conns -> Entry] /\ TasksOK
  BY DEF Acquire, AcquirePush, Attach, At, AtCall, TypeInv, RegistryOK
<1>2. CASE AcquirePush(t) \/ Attach(t)
  <2>1. Cur(t).who \in Users /\ ent[t] \in Conns
    BY <1>1, <1>2, AtLabel, CallShape
    DEF AcquirePush, Attach, At, AtCall, TaskOK, Inside, Labels
  <2>2. SameReleases
    BY <1>1, <1>2, ReleasesMove DEF AcquirePush, Attach
  <2> QED BY <1>2, <2>1, <2>2, PushCount DEF AcquirePush, Attach
<1>3. CASE Acquire(t)
  <2>1. SameReleases
    BY <1>1, <1>3 DEF SameReleases, Acquire, TasksOK, AtCall
  <2>2. CASE UNCHANGED entry
    BY <2>1, <2>2, CountUnchanged DEF SameReferences
  <2>3. ASSUME NEW c \in Conns, ~Born(c),
               entry' = [entry EXCEPT ![c] = NewEntry(Cur(t).arg, FALSE, poolTimeout)]
        PROVE  CountInv'
    <3>1. entry'[c].consumers = {} /\ entry'[c].refCount = 0
      BY <1>1, <2>3 DEF NewEntry
    <3>2. \A x \in Conns \ {c} : SameReferences(x)
      BY <1>1, <2>3 DEF SameReferences
    <3> QED BY <2>1, <2>3, <3>1, <3>2, FS_EmptySet, BornCount
  <2> QED BY <1>3, <2>2, <2>3 DEF Acquire
<1> QED BY <1>2, <1>3

LEMMA ReleaseCount ==
  ASSUME TypeInv, CountInv, NEW t \in Tasks, ReleaseDetach(t) \/ ReleaseDecrement(t)
  PROVE  CountInv'
<1> DEFINE e == ent[t]
           u == Cur(t).who
<1>1. /\ pc[t] # "free" /\ entry \in [Conns -> Entry] /\ TasksOK /\ e \in Conns
      /\ entry[e] \in Entry /\ pc \in [Tasks -> Labels]
  BY AtLabel DEF ReleaseDetach, ReleaseDecrement, At, AtCall, TypeInv, RegistryOK,
     TasksOK, TaskOK, Inside, Labels
<1>2. /\ IsFiniteSet(entry[e].consumers) /\ IsFiniteSet(Releasing(e))
      /\ entry[e].refCount = Cardinality(entry[e].consumers) + Cardinality(Releasing(e))
      /\ Cardinality(entry[e].consumers) \in Nat /\ Cardinality(Releasing(e)) \in Nat
  BY <1>1, ReleasingFinite, FS_CardinalityType DEF CountInv, CountOK
<1>3. ASSUME \A c \in Conns \ {e} : SameReferences(c), CountOK(e)',
             \A x \in Tasks \ {t} : pc'[x] = pc[x] /\ ent'[x] = ent[x], ent'[t] = e
      PROVE  CountInv'
  <2>1. ASSUME NEW c \in Conns, c # e PROVE CountOK(c)'
    <3>1. Releasing(c)' = Releasing(c)
      BY <1>3, <2>1 DEF Releasing
    <3> QED BY <1>3, <2>1, <3>1 DEF CountInv, CountOK, SameReferences
  <2> QED BY <1>3, <2>1 DEF CountInv
<1>4. CASE ReleaseDetach(t)
  <2>1. /\ pc[t] = "enter" /\ ent' = ent
        /\ entry' = [entry EXCEPT ![e].consumers = entry[e].consumers \ {u}]
        /\ pc' = [pc EXCEPT ![t] = IF u \in entry[e].consumers THEN "decrement"
                                                               ELSE "decide"]
    BY <1>4 DEF ReleaseDetach, AtCall, Goto
  <2>2. /\ entry'[e].consumers = entry[e].consumers \ {u}
        /\ entry'[e].refCount = entry[e].refCount
        /\ \A c \in Conns \ {e} : SameReferences(c)
    BY <1>1, <2>1 DEF SameReferences, Entry
  <2>3. /\ IsFiniteSet(entry'[e].consumers)
        /\ Cardinality(entry'[e].consumers) =
             IF u \in entry[e].consumers THEN Cardinality(entry[e].consumers) - 1
                                         ELSE Cardinality(entry[e].consumers)
    <3> DEFINE S == entry[e].consumers
    <3>1. IsFiniteSet(S)
      BY <1>2
    <3> HIDE DEF S
    <3>2. /\ IsFiniteSet(S \ {u})
          /\ Cardinality(S \ {u}) = IF u \in S THEN Cardinality(S) - 1 ELSE Cardinality(S)
      BY <3>1, FS_RemoveElement
    <3> QED BY <2>2, <3>2 DEF S
  <2>4. Cardinality(Releasing(e)') =
          IF u \in entry[e].consumers THEN Cardinality(Releasing(e)) + 1
                                      ELSE Cardinality(Releasing(e))
    <3>1. t \notin Releasing(e)
      BY <2>1 DEF Releasing
    <3>2. Releasing(e)' = IF u \in entry[e].consumers THEN Releasing(e) \cup {t}
                                                      ELSE Releasing(e)
      BY <1>1, <2>1 DEF Releasing
    <3> QED BY <1>2, <3>1, <3>2, FS_AddElement
  <2>5. CountOK(e)'
    BY <1>2, <2>1, <2>2, <2>3, <2>4 DEF CountOK
  <2> QED BY <1>1, <1>3, <2>1, <2>2, <2>5
<1>5. CASE ReleaseDecrement(t)
  <2>1. /\ pc[t] = "decrement" /\ ent' = ent /\ pc' = [pc EXCEPT ![t] = "decide"]
        /\ entry' = [entry EXCEPT ![e].refCount = IF @ = 0 THEN 0 ELSE @ - 1]
    BY <1>5 DEF ReleaseDecrement, At, Goto
  <2>2. /\ entry'[e].consumers = entry[e].consumers
        /\ entry'[e].refCount = IF entry[e].refCount = 0 THEN 0 ELSE entry[e].refCount - 1
        /\ \A c \in Conns \ {e} : SameReferences(c)
    BY <1>1, <2>1 DEF SameReferences, Entry
  <2>3. /\ t \in Releasing(e) /\ Releasing(e)' = Releasing(e) \ {t}
        /\ Cardinality(Releasing(e)') = Cardinality(Releasing(e)) - 1
    <3>1. t \in Releasing(e) /\ Releasing(e)' = Releasing(e) \ {t}
      BY <1>1, <2>1 DEF Releasing
    <3> QED BY <1>2, <3>1, FS_RemoveElement
  <2>4. Cardinality(Releasing(e)') \in Nat
    <3>1. IsFiniteSet(Releasing(e)')
      BY <1>2, <2>3, FS_RemoveElement
    <3> QED BY <3>1, FS_CardinalityType
  <2>5. CountOK(e)'
    BY <1>2, <2>1, <2>2, <2>3, <2>4 DEF CountOK
  <2> QED BY <1>1, <1>3, <2>1, <2>2, <2>5
<1> QED BY <1>4, <1>5

LEMMA StartCount ==
  ASSUME TypeInv, IndexInv, CountInv, NEW t \in Workers, StartProgram(t)
  PROVE  CountInv'
<1>1. t \in Tasks /\ TasksOK /\ entry \in [Conns -> Entry]
  BY DEF Tasks, TypeInv, RegistryOK
<1>2. ASSUME NEW client, NEW s, Start(t, client, s) PROVE SameReleases
  <2>1. pc[t] # "decrement" /\ Continue(t, s)
    BY <1>2 DEF Start
  <2> QED BY <1>1, <2>1, ReleasesMove
<1>3. ASSUME NEW client, NEW s, Start(t, client, s), UNCHANGED entry PROVE CountInv'
  BY <1>2, <1>3, CountUnchanged DEF SameReferences
<1>4. ASSUME NEW c \in Conns, NEW u \in Consumers, NEW p \in Conns \cup {None},
             StartDedicated(t, c, u, p)
      PROVE  CountInv'
  <2>1. PICK call : Start(t, "dedicated", << call >>)
    BY <1>4 DEF StartDedicated
  <2>2. ~Born(c) /\ entry' = [entry EXCEPT ![c] = Push(NewEntry(c, TRUE, poolTimeout), u)]
    BY <1>4 DEF StartDedicated, OpenDedicated
  <2>3. /\ entry'[c].consumers = {u} /\ entry'[c].refCount = 1
        /\ \A x \in Conns \ {c} : SameReferences(x)
    BY <1>1, <2>2 DEF Push, NewEntry, SameReferences
  <2>4. SameReleases
    BY <1>2, <2>1
  <2>5. IsFiniteSet(entry'[c].consumers) /\ Cardinality(entry'[c].consumers) = 1
    BY <2>3, FS_Singleton
  <2> QED BY <1>1, <2>2, <2>3, <2>4, <2>5, BornCount
<1>5. ASSUME NEW c \in Conns, StartOnConnection(t, c) PROVE CountInv'
  <2>1. PICK client, call : StartCall(t, client, call)
    BY <1>5 DEF StartOnConnection
  <2> QED BY <1>3, <2>1 DEF StartCall
<1>6. ASSUME NEW k \in Keys, NEW u \in Consumers, StartNode(t, k, u) PROVE CountInv'
  BY <1>3, <1>6 DEF StartNode
<1>7. ASSUME NEW b \in BOOLEAN, StartSetIdleTimeout(t, b) PROVE CountInv'
  <2>1. PICK s : Start(t, "timeout", s)
    BY <1>7 DEF StartSetIdleTimeout
  <2> QED BY <1>3, <1>7, <2>1 DEF StartSetIdleTimeout
<1> QED BY <1>4, <1>5, <1>6, <1>7 DEF StartProgram

(* The steps that count no reference.                                       *)
LEMMA OtherCount ==
  ASSUME TypeInv, CountInv, NEW t \in Tasks,
         \/ LookupId(t) \/ LookupKey(t) \/ OutOfIds(t) \/ AcquireCancel(t)
         \/ DialReaches(t) \/ DialFails(t) \/ ClearPhysical(t)
         \/ Adopt(t) \/ Disown(t) \/ MarkState(t) \/ ReleaseDecide(t)
         \/ KeepCancel(t) \/ Disarm(t) \/ Capture(t) \/ Settle(t)
         \/ RetireEnter(t) \/ RetireUnlink(t) \/ RetireForget(t)
         \/ KeepAliveOn(t) \/ KeepAliveOff(t) \/ Rearm(t) \/ Disconnect(t)
  PROVE  CountInv'
<1>0. entry \in [Conns -> Entry] /\ TasksOK
  BY DEF TypeInv, RegistryOK
<1>1. pc[t] # "decrement"
  BY DEF LookupId, LookupKey, OutOfIds, AcquireCancel, DialReaches, DialFails,
     ClearPhysical, Adopt, Disown, MarkState, ReleaseDecide, KeepCancel, Disarm,
     Capture, Settle, RetireEnter, RetireUnlink, RetireForget, KeepAliveOn,
     KeepAliveOff, Rearm, Disconnect, At, AtCall
<1>2. \A c \in Conns : SameReferences(c)
  <2>a. \A e \in Entry : /\ Cancel(e).consumers = e.consumers
                         /\ Cancel(e).refCount = e.refCount
    BY DEF Cancel, Entry
  <2>1. CASE \/ LookupId(t) \/ LookupKey(t) \/ OutOfIds(t) \/ ReleaseDecide(t)
             \/ RetireUnlink(t) \/ RetireForget(t)
    BY <2>1 DEF LookupId, LookupKey, OutOfIds, ReleaseDecide, RetireUnlink,
       RetireForget, SameReferences
  <2>2. CASE AcquireCancel(t) \/ KeepCancel(t) \/ Disarm(t) \/ Rearm(t) \/ Disconnect(t)
    BY <1>0, <2>a, <2>2 DEF AcquireCancel, KeepCancel, Disarm, Rearm, Disconnect,
       SameReferences
  <2>3. CASE DialReaches(t) \/ DialFails(t) \/ ClearPhysical(t) \/ MarkState(t)
    BY <1>0, <2>3 DEF DialReaches, DialFails, ClearPhysical, MarkState, Entry,
       SameReferences
  <2>4. CASE Adopt(t) \/ Disown(t)
    <3>1. CASE UNCHANGED entry
      BY <3>1 DEF SameReferences
    <3>2. ASSUME NEW p, NEW u,
                 entry' = [entry EXCEPT ![ent[t]].parent = p, ![ent[t]].parentConsumer = u]
          PROVE  \A c \in Conns : SameReferences(c)
      BY <1>0, <3>2 DEF Entry, SameReferences
    <3> QED BY <2>4, <3>1, <3>2 DEF Adopt, Disown
  <2>5. CASE Capture(t) \/ KeepAliveOff(t)
    BY <1>0, <2>5 DEF Capture, KeepAliveOff, Entry, SameReferences
  <2>6. CASE Settle(t)
    BY <1>0, <2>6 DEF Settle, Entry, SameReferences
  <2>7. CASE KeepAliveOn(t) \/ RetireEnter(t)
    <3>1. CASE UNCHANGED entry
      BY <3>1 DEF SameReferences
    <3>2. PICK e : /\ e \in { [Cancel(entry[ent[t]]) EXCEPT !.keepAlive = TRUE],
                              [Cancel(entry[ent[t]]) EXCEPT !.parentConsumer = None] }
                   /\ entry' = [entry EXCEPT ![ent[t]] = e] \/ UNCHANGED entry
      BY <2>7 DEF KeepAliveOn, RetireEnter
    <3>3. ASSUME ent[t] \in Conns
          PROVE  /\ e.consumers = entry[ent[t]].consumers
                 /\ e.refCount = entry[ent[t]].refCount
      <4>1. entry[ent[t]] \in Entry
        BY <1>0, <3>3
      <4> QED BY <3>2, <4>1 DEF Cancel, Entry
    <3>4. ASSUME NEW c \in Conns, entry' = [entry EXCEPT ![ent[t]] = e]
          PROVE  SameReferences(c)
      BY <1>0, <3>3, <3>4 DEF SameReferences
    <3> QED BY <3>1, <3>2, <3>4
  <2> QED BY <2>1, <2>2, <2>3, <2>4, <2>5, <2>6, <2>7
<1>3. SameReleases
  <2>1. CASE LookupId(t) \/ LookupKey(t)
    BY <1>0, <1>1, <2>1 DEF LookupId, LookupKey, Missing, Continue, Finish,
       SameReleases, TasksOK
  <2>2. CASE RetireEnter(t) \/ Rearm(t)
    BY <1>0, <1>1, <2>2 DEF RetireEnter, Rearm, Continue, Finish, Goto,
       SameReleases, TasksOK
  <2>3. CASE \/ \E s : Continue(t, s)
             \/ Finish(t)
             \/ \E label \in Labels \ {"decrement"} : Goto(t, label)
    BY <1>1, <2>3, ReleasesMove
  <2> QED BY <2>1, <2>2, <2>3
      DEF OutOfIds, AcquireCancel, DialReaches, DialFails,
          ClearPhysical, Adopt, Disown, MarkState, ReleaseDecide, KeepCancel, Disarm,
          Capture, Settle, RetireUnlink, RetireForget, KeepAliveOn,
          KeepAliveOff, Disconnect, Labels
<1> QED BY <1>2, <1>3, CountUnchanged

LEMMA WakeCount ==
  ASSUME TypeInv, CountInv, NEW t \in Reapers, NEW c \in Conns, Wake(t, c)
  PROVE  CountInv'
<1>1. t \in Tasks /\ pc[t] # "decrement"
  BY DEF Tasks, Wake
<1>2. \A x \in Conns : SameReferences(x)
  BY DEF Wake, TypeInv, RegistryOK, Entry, SameReferences
<1>3. SameReleases
  <2>1. CASE UNCHANGED taskVars
    BY <2>1 DEF taskVars, SameReleases
  <2>2. CASE \E s : Continue(t, s)
    BY <1>1, <2>2, ReleasesMove
  <2> QED BY <2>1, <2>2 DEF Wake
<1> QED BY <1>2, <1>3, CountUnchanged

LEMMA TransportCount ==
  ASSUME TypeInv, CountInv, NEW t \in Tasks, TakeTransport(t)
  PROVE  CountInv'
BY TransportOnly, CountUnchanged DEF SameReferences, SameReleases

LEMMA StepCountInv ==
  ASSUME TypeInv, IndexInv, CountInv, [Next]_vars
  PROVE  CountInv'
<1>1. ASSUME NEW t \in Tasks, Step(t) PROVE CountInv'
  BY <1>1, AcquireCount, ReleaseCount, TransportCount, OtherCount DEF Step
<1>2. CASE UNCHANGED vars
  BY <1>2, CountUnchanged DEF SameReferences, SameReleases, vars
<1> QED BY <1>1, <1>2, StartCount, WakeCount DEF Next

LEMMA InitCountInv == Init => CountInv
<1> SUFFICES ASSUME Init, NEW c \in Conns PROVE CountOK(c)
  BY DEF CountInv
<1>1. entry[c].consumers = {} /\ entry[c].refCount = 0 /\ Releasing(c) = {}
  BY DEF Init, NewEntry, Releasing
<1> QED BY <1>1, FS_EmptySet DEF CountOK

(* The reference count of a connection is the number of its consumers and   *)
(* of the releases that have left the consumers lock and not yet            *)
(* decremented it, in every interleaving of any number of threads.          *)
THEOREM RefCountAlwaysExact == Spec => []RefCountExact
<1>1. Spec => []CountInv
  BY InitCountInv, StepCountInv, TypeInvariant, IndexInvariant, PTL DEF Spec
<1> QED BY <1>1, CountInvExact, PTL

-----------------------------------------------------------------------------
(* Ownership of the ancestor.  An entry that owns its parent is registered  *)
(* and nobody is retiring it: retire_connection takes the ownership before  *)
(* it unregisters the entry, and an adoption checks the registration under  *)
(* the lock that a retirement holds.                                        *)

OwnInv ==
  \A c \in Conns : entry[c].parentConsumer # None => Registered(c) /\ ~Locked(c)

LEMMA OwnInvRetired == OwnInv => RetiredOwnNoParent
BY DEF OwnInv, RetiredOwnNoParent

(* No retirement begins, and no registration ends.                          *)
KeepsRegistered ==
  /\ \A c \in Conns : Registered(c) => Registered(c)'
  /\ \A x \in Tasks : pc'[x] \in {"unlink", "forget"} => pc'[x] = pc[x] /\ ent'[x] = ent[x]

LEMMA OwnKept ==
  ASSUME OwnInv, KeepsRegistered,
         \A c \in Conns : entry'[c].parentConsumer \in {entry[c].parentConsumer, None}
  PROVE  OwnInv'
<1>1. \A c : ~Locked(c) => ~Locked(c)'
  BY DEF KeepsRegistered, Locked
<1> QED BY <1>1 DEF OwnInv, KeepsRegistered

LEMMA QuietStep ==
  ASSUME TypeInv, NEW t \in Tasks, UNCHANGED indexVars,
         \/ \E s : Continue(t, s)
         \/ Finish(t)
         \/ \E label \in Labels \ {"unlink", "forget"} : Goto(t, label)
         \/ UNCHANGED taskVars
  PROVE  KeepsRegistered
BY DEF KeepsRegistered, Registered, indexVars, taskVars, Continue, Finish, Goto,
   TypeInv, TasksOK

(* A connection registered under a free pool key displaces no other.        *)
LEMMA BornOwn ==
  ASSUME TypeInv, IndexInv, OwnInv, NEW c \in Conns, NEW k \in PoolKeys,
         ~Born(c), byKey[k] = None,
         byKey' = [byKey EXCEPT ![k] = c], byId' = [byId EXCEPT ![c] = k],
         entry'[c].parentConsumer = None,
         \A x \in Conns \ {c} : entry'[x].parentConsumer = entry[x].parentConsumer,
         \A x \in Tasks : pc'[x] \in {"unlink", "forget"} => pc'[x] = pc[x] /\ ent'[x] = ent[x]
  PROVE  OwnInv'
<1>1. ASSUME NEW x \in Conns, Registered(x) PROVE Registered(x)'
  <2>1. x # c
    BY <1>1, RegisteredBorn DEF Registered
  <2>2. byId'[x] = byId[x] /\ byId[x] \in PoolKeys /\ byKey[byId[x]] = x /\ x # None
    BY <1>1, <2>1, RegistryAssumption DEF Registered, TypeInv, RegistryOK
  <2>3. byId[x] # k
    BY <2>2
  <2> QED BY <1>1, <2>2, <2>3 DEF Registered
<1>2. KeepsRegistered
  BY <1>1 DEF KeepsRegistered
<1> QED BY <1>2, OwnKept

LEMMA AcquireOwn ==
  ASSUME TypeInv, IndexInv, OwnInv, NEW t \in Tasks, Acquire(t)
  PROVE  OwnInv'
<1> DEFINE k == Cur(t).arg
<1>1. /\ pc[t] = "start" /\ k \in PoolKeys /\ TasksOK /\ RegistryOK
      /\ pc' = [pc EXCEPT ![t] = "cancel"]
  BY AtLabel, CallShape DEF Acquire, AtCall, PoolKeys
<1>2. \A x \in Tasks : pc'[x] \in {"unlink", "forget"} => pc'[x] = pc[x] /\ ent'[x] = ent[x]
  BY <1>1 DEF Acquire, TasksOK
<1>3. CASE UNCHANGED <<indexVars, entry>>
  <2>1. KeepsRegistered
    BY <1>2, <1>3 DEF KeepsRegistered, Registered, indexVars
  <2> QED BY <1>3, <2>1, OwnKept
<1>4. ASSUME NEW c \in Conns, ~Born(c), byKey[k] = None,
             byKey' = [byKey EXCEPT ![k] = c], byId' = [byId EXCEPT ![c] = k],
             entry' = [entry EXCEPT ![c] = NewEntry(k, FALSE, poolTimeout)]
      PROVE  OwnInv'
  <2>1. /\ entry'[c].parentConsumer = None
        /\ \A x \in Conns \ {c} : entry'[x].parentConsumer = entry[x].parentConsumer
    BY <1>1, <1>4 DEF NewEntry, RegistryOK
  <2> QED BY <1>1, <1>2, <1>4, <2>1, BornOwn
<1> QED BY <1>3, <1>4 DEF Acquire

LEMMA StartOwn ==
  ASSUME TypeInv, IndexInv, OwnInv, NEW t \in Workers, StartProgram(t)
  PROVE  OwnInv'
<1>1. t \in Tasks /\ TasksOK /\ RegistryOK
  BY DEF Tasks, TypeInv
<1>2. ASSUME NEW client, NEW s, Start(t, client, s), UNCHANGED <<indexVars, entry>>
      PROVE  OwnInv'
  <2>1. KeepsRegistered
    BY <1>1, <1>2, QuietStep DEF Start
  <2> QED BY <1>2, <2>1, OwnKept
<1>3. ASSUME NEW c \in Conns, NEW u \in Consumers, NEW p \in Conns \cup {None},
             StartDedicated(t, c, u, p)
      PROVE  OwnInv'
  <2>1. /\ ~Born(c)
        /\ byKey' = [byKey EXCEPT ![c] = c] /\ byId' = [byId EXCEPT ![c] = c]
        /\ entry' = [entry EXCEPT ![c] = Push(NewEntry(c, TRUE, poolTimeout), u)]
    BY <1>3 DEF StartDedicated, OpenDedicated
  <2>2. c \in PoolKeys /\ byKey[c] = None
    <3>1. c \in PoolKeys
      BY DEF PoolKeys
    <3>2. ASSUME byKey[c] # None PROVE FALSE
      <4>1. byKey[c] \in Conns /\ Born(byKey[c]) /\ entry[byKey[c]].key = c
        BY <3>1, <3>2, RegisteredBorn
      <4>2. byKey[c] = c
        BY <4>1 DEF IndexInv
      <4> QED BY <2>1, <4>1, <4>2
    <3> QED BY <3>1, <3>2
  <2>3. PICK x : Start(t, "dedicated", << x >>)
    BY <1>3 DEF StartDedicated
  <2>4. \A y \in Tasks : pc'[y] \in {"unlink", "forget"} => pc'[y] = pc[y] /\ ent'[y] = ent[y]
    BY <1>1, <2>3 DEF Start, Continue, TasksOK
  <2>5. /\ entry'[c].parentConsumer = None
        /\ \A y \in Conns \ {c} : entry'[y].parentConsumer = entry[y].parentConsumer
    BY <1>1, <2>1 DEF NewEntry, Push, RegistryOK
  <2> QED BY <2>1, <2>2, <2>4, <2>5, BornOwn
<1>4. ASSUME NEW c \in Conns, StartOnConnection(t, c) PROVE OwnInv'
  <2>1. PICK client, call : StartCall(t, client, call)
    BY <1>4 DEF StartOnConnection
  <2> QED BY <1>2, <2>1 DEF StartCall
<1>5. ASSUME NEW k \in Keys, NEW u \in Consumers, StartNode(t, k, u) PROVE OwnInv'
  BY <1>2, <1>5 DEF StartNode
<1>6. ASSUME NEW b \in BOOLEAN, StartSetIdleTimeout(t, b) PROVE OwnInv'
  <2>1. PICK s : Start(t, "timeout", s)
    BY <1>6 DEF StartSetIdleTimeout
  <2> QED BY <1>2, <1>6, <2>1 DEF StartSetIdleTimeout
<1> QED BY <1>3, <1>4, <1>5, <1>6 DEF StartProgram

(* The registration that adopt and retire check is that of the entry found. *)
LEMMA StillRegisteredEntry ==
  ASSUME TypeInv, IndexInv, NEW t \in Tasks, pc[t] = "enter", StillRegistered(t)
  PROVE  ent[t] = Cur(t).conn /\ ent[t] \in Conns /\ Registered(ent[t])
<1>1. key[t] \in PoolKeys /\ ent[t] \in Conns /\ IndexTask(t)
  BY AtLabel DEF TaskOK, Inside, Labels, IndexInv
<1>2. ent[t] = Cur(t).conn
  BY <1>1 DEF IndexTask, StillRegistered
<1>3. key[t] # None
  BY <1>1, RegistryAssumption DEF PoolKeys
<1> QED BY <1>1, <1>2, <1>3 DEF StillRegistered, Registered

LEMMA OwnershipOwn ==
  ASSUME TypeInv, IndexInv, OwnInv, NEW t \in Tasks, Adopt(t) \/ Disown(t)
  PROVE  OwnInv'
<1>1. pc[t] = "enter" /\ entry \in [Conns -> Entry] /\ ~Locked(ent[t]) /\ UNCHANGED indexVars
  BY DEF Adopt, Disown, AtCall, TypeInv, RegistryOK
<1>2. KeepsRegistered
  <2>1. Finish(t) \/ \E s : Continue(t, s)
    BY DEF Adopt, Disown
  <2> QED BY <1>1, <2>1, QuietStep
<1>3. \A c : Locked(c)' => Locked(c)
  BY <1>2 DEF KeepsRegistered, Locked
<1>4. CASE UNCHANGED entry
  BY <1>2, <1>4, OwnKept
<1>5. ASSUME NEW p, NEW u, StillRegistered(t),
             entry' = [entry EXCEPT ![ent[t]].parent = p, ![ent[t]].parentConsumer = u]
      PROVE  OwnInv'
  <2>1. ent[t] \in Conns /\ Registered(ent[t]) /\ ~Locked(ent[t])
    BY <1>1, <1>5, StillRegisteredEntry
  <2>2. \A c \in Conns \ {ent[t]} : entry'[c] = entry[c]
    BY <1>1, <1>5
  <2> QED BY <1>2, <1>3, <2>1, <2>2 DEF OwnInv, KeepsRegistered
<1> QED BY <1>4, <1>5 DEF Adopt, Disown

LEMMA RetireOwn ==
  ASSUME TypeInv, IndexInv, OwnInv, NEW t \in Tasks,
         RetireEnter(t) \/ RetireUnlink(t) \/ RetireForget(t)
  PROVE  OwnInv'
<1>0. TasksOK /\ RegistryOK
  BY DEF TypeInv
<1>1. CASE RetireEnter(t) /\ ~StillRegistered(t)
  <2>1. KeepsRegistered
    BY <1>1, QuietStep DEF RetireEnter
  <2> QED BY <1>1, <2>1, OwnKept DEF RetireEnter
<1>2. CASE RetireEnter(t) /\ StillRegistered(t)
  <2> DEFINE f == [Cancel(entry[ent[t]]) EXCEPT !.parentConsumer = None]
  <2>1. pc[t] = "enter" /\ ent[t] \in Conns
    BY <1>2, StillRegisteredEntry DEF RetireEnter, AtCall
  <2>2. /\ UNCHANGED <<byKey, byId>> /\ pc' = [pc EXCEPT ![t] = "unlink"] /\ ent' = ent
        /\ entry' = [entry EXCEPT ![ent[t]] = f]
    BY <1>2 DEF RetireEnter, indexVars
  <2>3. f.parentConsumer = None
    <3>1. entry[ent[t]] \in Entry
      BY <1>0, <2>1 DEF RegistryOK
    <3> QED BY <3>1 DEF Cancel, Entry
  <2> HIDE DEF f
  <2>4. ASSUME NEW c \in Conns, entry'[c].parentConsumer # None
        PROVE  Registered(c)' /\ ~Locked(c)'
    <3>1. c # ent[t] /\ entry'[c] = entry[c]
      BY <1>0, <2>1, <2>2, <2>3, <2>4 DEF RegistryOK
    <3>2. Registered(c)'
      BY <2>2, <2>4, <3>1 DEF OwnInv, Registered
    <3>3. ~Locked(c)'
      BY <1>0, <2>2, <2>4, <3>1 DEF OwnInv, Locked, TasksOK
    <3> QED BY <3>2, <3>3
  <2> QED BY <2>4 DEF OwnInv
<1>3. CASE RetireUnlink(t) \/ RetireForget(t)
  <2>1. pc[t] \in {"unlink", "forget"} /\ pc[t] # "free"
    BY <1>3 DEF RetireUnlink, RetireForget, At
  <2>2. /\ ent[t] = Cur(t).conn /\ ent[t] \in Conns /\ key[t] \in PoolKeys
        /\ byId[ent[t]] = key[t] /\ Locked(ent[t])
    <3>1. IndexTask(t) /\ TaskOK(t)
      BY <1>0 DEF IndexInv, TasksOK
    <3>2. ent[t] \in Conns /\ key[t] \in PoolKeys
      BY <2>1, <3>1 DEF TaskOK, Inside, Labels
    <3> QED BY <2>1, <3>1, <3>2 DEF IndexTask, Locked
  <2>3. ASSUME NEW x \in Tasks, pc'[x] \in {"unlink", "forget"}
        PROVE  pc[x] \in {"unlink", "forget"} /\ ent'[x] = ent[x]
    BY <1>0, <1>3, <2>1, <2>3 DEF RetireUnlink, RetireForget, Finish, Continue, Goto, TasksOK
  <2>4. \A c \in Conns : c # ent[t] /\ Registered(c) => Registered(c)'
    <3>1. CASE RetireUnlink(t)
      <4>1. byKey[key[t]] = ent[t]
        BY <3>1 DEF RetireUnlink, At, IndexInv, IndexTask
      <4>2. byId' = byId /\ \A k \in PoolKeys \ {key[t]} : byKey'[k] = byKey[k]
        BY <1>0, <3>1 DEF RetireUnlink, RegistryOK
      <4> QED BY <1>0, <4>1, <4>2 DEF Registered, RegistryOK
    <3>2. CASE RetireForget(t)
      <4>1. byKey' = byKey /\ \A c \in Conns \ {ent[t]} : byId'[c] = byId[c]
        BY <1>0, <2>2, <3>2 DEF RetireForget, RegistryOK
      <4> QED BY <4>1 DEF Registered
    <3> QED BY <1>3, <3>1, <3>2
  <2>5. entry' = entry
    BY <1>3 DEF RetireUnlink, RetireForget
  <2>6. \A c : Locked(c)' => Locked(c)
    BY <2>3 DEF Locked
  <2> QED BY <2>2, <2>4, <2>5, <2>6 DEF OwnInv
<1> QED BY <1>1, <1>2, <1>3

(* The steps that leave the indexes and the ownership alone.                *)
LEMMA OtherOwn ==
  ASSUME TypeInv, OwnInv, NEW t \in Tasks,
         \/ LookupId(t) \/ LookupKey(t) \/ OutOfIds(t) \/ AcquireCancel(t)
         \/ AcquirePush(t) \/ Attach(t)
         \/ DialReaches(t) \/ DialFails(t) \/ ClearPhysical(t) \/ MarkState(t)
         \/ ReleaseDetach(t) \/ ReleaseDecrement(t) \/ ReleaseDecide(t)
         \/ KeepCancel(t) \/ Disarm(t) \/ Capture(t) \/ Settle(t)
         \/ KeepAliveOn(t) \/ KeepAliveOff(t) \/ Rearm(t) \/ Disconnect(t)
  PROVE  OwnInv'
<1>0. entry \in [Conns -> Entry] /\ TasksOK
  BY DEF TypeInv, RegistryOK
<1>1. UNCHANGED indexVars
  BY DEF LookupId, LookupKey, OutOfIds, AcquireCancel, AcquirePush, Attach,
     DialReaches, DialFails, ClearPhysical, MarkState, ReleaseDetach,
     ReleaseDecrement, ReleaseDecide, KeepCancel, Disarm, Capture, Settle,
     KeepAliveOn, KeepAliveOff, Rearm, Disconnect
<1>2. \A c \in Conns : entry'[c].parentConsumer = entry[c].parentConsumer
  <2>a. \A e \in Entry : Cancel(e).parentConsumer = e.parentConsumer
    BY DEF Cancel, Entry
  <2>1. CASE LookupId(t) \/ LookupKey(t) \/ OutOfIds(t) \/ ReleaseDecide(t)
    BY <2>1 DEF LookupId, LookupKey, OutOfIds, ReleaseDecide
  <2>2. CASE AcquireCancel(t) \/ KeepCancel(t) \/ Disarm(t) \/ Rearm(t) \/ Disconnect(t)
    BY <1>0, <2>a, <2>2 DEF AcquireCancel, KeepCancel, Disarm, Rearm, Disconnect
  <2>3. CASE DialReaches(t) \/ DialFails(t) \/ ClearPhysical(t) \/ MarkState(t)
    BY <1>0, <2>3 DEF DialReaches, DialFails, ClearPhysical, MarkState, Entry
  <2>4. CASE AcquirePush(t) \/ Attach(t)
    <3>1. \A u : \A e \in Entry : Push(e, u).parentConsumer = e.parentConsumer
      BY DEF Push, Entry
    <3>2. \A u : \A e \in Entry : PushAndRevive(e, u).parentConsumer = e.parentConsumer
      BY DEF Push, PushAndRevive, Entry
    <3> QED BY <1>0, <2>4, <3>1, <3>2 DEF AcquirePush, Attach
  <2>5. CASE Capture(t) \/ KeepAliveOff(t)
    BY <1>0, <2>5 DEF Capture, KeepAliveOff, Entry
  <2>6. CASE Settle(t)
    BY <1>0, <2>6 DEF Settle, Entry
  <2>7. CASE KeepAliveOn(t)
    BY <1>0, <2>7 DEF KeepAliveOn, Cancel, Entry
  <2>8. CASE ReleaseDetach(t) \/ ReleaseDecrement(t)
    BY <1>0, <2>8 DEF ReleaseDetach, ReleaseDecrement, Entry
  <2> QED BY <2>1, <2>2, <2>3, <2>4, <2>5, <2>6, <2>7, <2>8
<1>3. KeepsRegistered
  <2>1. CASE LookupId(t) \/ LookupKey(t)
    BY <1>0, <1>1, <2>1 DEF LookupId, LookupKey, Missing, Continue, Finish,
       KeepsRegistered, Registered, indexVars, TasksOK
  <2>2. CASE Rearm(t)
    BY <1>0, <1>1, <2>2 DEF Rearm, Continue, Finish, KeepsRegistered, Registered,
       indexVars, TasksOK
  <2>3. CASE \/ \E s : Continue(t, s)
             \/ Finish(t)
             \/ \E label \in Labels \ {"unlink", "forget"} : Goto(t, label)
    BY <1>1, <2>3, QuietStep
  <2> QED BY <2>1, <2>2, <2>3
      DEF OutOfIds, AcquireCancel, AcquirePush, Attach,
          DialReaches, DialFails, ClearPhysical, MarkState, ReleaseDetach,
          ReleaseDecrement, ReleaseDecide, KeepCancel, Disarm, Capture, Settle,
          KeepAliveOn, KeepAliveOff, Disconnect, Labels
<1> QED BY <1>2, <1>3, OwnKept

LEMMA WakeOwn ==
  ASSUME TypeInv, OwnInv, NEW t \in Reapers, NEW c \in Conns, Wake(t, c)
  PROVE  OwnInv'
<1>1. t \in Tasks /\ UNCHANGED indexVars
  BY DEF Tasks, Wake
<1>2. \A x \in Conns : entry'[x].parentConsumer = entry[x].parentConsumer
  BY DEF Wake, TypeInv, RegistryOK, Entry
<1>3. KeepsRegistered
  BY <1>1, QuietStep DEF Wake
<1> QED BY <1>2, <1>3, OwnKept

LEMMA TransportOwn ==
  ASSUME TypeInv, OwnInv, NEW t \in Tasks, TakeTransport(t)
  PROVE  OwnInv'
<1>1. KeepsRegistered
  BY TransportOnly DEF KeepsRegistered, Registered, indexVars
<1> QED BY <1>1, TransportOnly, OwnKept

LEMMA StepOwnInv ==
  ASSUME TypeInv, IndexInv, OwnInv, [Next]_vars
  PROVE  OwnInv'
<1>1. ASSUME NEW t \in Tasks, Step(t) PROVE OwnInv'
  BY <1>1, AcquireOwn, OwnershipOwn, RetireOwn, TransportOwn, OtherOwn DEF Step
<1>2. CASE UNCHANGED vars
  BY <1>2 DEF OwnInv, Registered, Locked, vars
<1> QED BY <1>1, <1>2, StartOwn, WakeOwn DEF Next

LEMMA InitOwnInv == Init => OwnInv
BY DEF Init, OwnInv, NewEntry

(* A retired connection owns no ancestor, whichever of its retirement and   *)
(* its adoption takes ownership_transition first.                           *)
THEOREM RetiredNeverOwn == Spec => []RetiredOwnNoParent
<1>1. Spec => []OwnInv
  BY InitOwnInv, StepOwnInv, TypeInvariant, IndexInvariant, PTL DEF Spec
<1> QED BY <1>1, OwnInvRetired, PTL

-----------------------------------------------------------------------------
(* What a task has still to do.  The calls of a dial come last, because a   *)
(* hand-over to a child that fails drops whatever would follow it; and the  *)
(* consumer of a client is never an ancestor consumer.                      *)

LateOps == {"acquire", "borrow", "dial", "activate"}

Shape(s) ==
  \A i \in 1 .. Len(s) :
    /\ s[i].op \in LateOps => i = Len(s)
    /\ s[i].op = "adopt" =>
         /\ i + 1 = Len(s)
         /\ s[i + 1] = Call("activate", s[i].conn, s[i].who, s[i].arg)

ByConsumer(m) ==
  /\ m.op \in {"acquire", "attach", "dial", "adopt", "activate"} => m.who \in Consumers
  /\ m.op = "borrow" => m.arg \in Consumers

TodoOK(s) == Shape(s) /\ \A i \in 1 .. Len(s) : ByConsumer(s[i])

TodoInv == \A t \in Tasks : TodoOK(todo[t]) /\ (pc[t] = "free" => todo[t] = << >>)

PlainOps == {"release", "disown", "mark", "retire", "keepOn", "keepOff", "rearm",
             "clear", "kill"}

LEMMA TodoSame ==
  ASSUME TodoInv, todo' = todo,
         \A x \in Tasks : pc'[x] = "free" <=> pc[x] = "free"
  PROVE  TodoInv'
BY DEF TodoInv, TodoOK, Shape

LEMMA TodoContinue ==
  ASSUME TypeInv, TodoInv, NEW t \in Tasks, NEW s, Continue(t, s), TodoOK(s)
  PROVE  TodoInv'
<1>1. TasksOK
  BY DEF TypeInv
<1>2. ASSUME NEW x \in Tasks
      PROVE  /\ todo'[x] = IF x = t THEN s ELSE todo[x]
             /\ pc'[x] = IF x = t THEN IF s = << >> THEN "free" ELSE "start" ELSE pc[x]
  BY <1>1 DEF TasksOK, Continue
<1>3. ASSUME NEW x \in Tasks PROVE TodoOK(todo'[x]) /\ (pc'[x] = "free" => todo'[x] = << >>)
  BY <1>2 DEF TodoInv
<1> QED BY <1>3 DEF TodoInv, TodoOK, Shape

LEMMA TodoEmpty == TodoOK(<< >>)
BY DEF TodoOK, Shape

LEMMA TodoOne ==
  ASSUME NEW m, ByConsumer(m), m.op # "adopt"
  PROVE  TodoOK(<< m >>)
BY DEF TodoOK, Shape

(* The current call and the rest.                                           *)
LEMMA TodoRest ==
  ASSUME TypeInv, TodoInv, NEW t \in Tasks, pc[t] # "free"
  PROVE  /\ TodoOK(Rest(t)) /\ ByConsumer(Cur(t))
         /\ Cur(t).op \in LateOps => Rest(t) = << >>
         /\ Cur(t).op = "adopt" =>
              Rest(t) = << Call("activate", Cur(t).conn, Cur(t).who, Cur(t).arg) >>
<1> DEFINE s == todo[t]
           r == Tail(s)
<1>1. s \in Seq(Calls) /\ s # << >> /\ TodoOK(s)
  BY DEF TypeInv, TasksOK, TaskOK, TodoInv
<1>2. Cur(t) = Head(s) /\ Rest(t) = r
  BY DEF Cur, Rest
<1>3. /\ Len(s) \in Nat /\ Len(s) >= 1 /\ Cur(t) = s[1] /\ r \in Seq(Calls)
      /\ Len(r) \in Nat /\ Len(r) = Len(s) - 1
      /\ \A i \in 1 .. Len(r) : r[i] = s[i + 1]
  BY <1>1, <1>2
<1> HIDE DEF s, r
<1>s. \A i \in 1 .. Len(s) :
        /\ ByConsumer(s[i])
        /\ s[i].op \in LateOps => i = Len(s)
        /\ s[i].op = "adopt" =>
             /\ i + 1 = Len(s)
             /\ s[i + 1] = Call("activate", s[i].conn, s[i].who, s[i].arg)
  BY <1>1 DEF TodoOK, Shape
<1>4. ASSUME NEW i \in 1 .. Len(r)
      PROVE  /\ ByConsumer(r[i])
             /\ r[i].op \in LateOps => i = Len(r)
             /\ r[i].op = "adopt" =>
                  /\ i + 1 = Len(r)
                  /\ r[i + 1] = Call("activate", r[i].conn, r[i].who, r[i].arg)
  <2> DEFINE j == i + 1
  <2>1. j \in 1 .. Len(s) /\ r[i] = s[j]
    BY <1>3
  <2>2. /\ ByConsumer(s[j])
        /\ s[j].op \in LateOps => j = Len(s)
        /\ s[j].op = "adopt" =>
             /\ j + 1 = Len(s)
             /\ s[j + 1] = Call("activate", s[j].conn, s[j].who, s[j].arg)
    BY <1>s, <2>1
  <2>3. j + 1 = Len(s) => i + 1 = Len(r) /\ r[i + 1] = s[j + 1]
    BY <1>3
  <2>4. j = Len(s) => i = Len(r)
    BY <1>3
  <2> HIDE DEF j
  <2> QED BY <2>1, <2>2, <2>3, <2>4
<1>5. TodoOK(r)
  BY <1>4 DEF TodoOK, Shape
<1>6. /\ ByConsumer(s[1])
      /\ s[1].op \in LateOps => Len(s) = 1
      /\ s[1].op = "adopt" =>
           Len(s) = 2 /\ s[2] = Call("activate", s[1].conn, s[1].who, s[1].arg)
  <2>1. 1 \in 1 .. Len(s)
    BY <1>3
  <2>2. /\ ByConsumer(s[1])
        /\ s[1].op \in LateOps => 1 = Len(s)
        /\ s[1].op = "adopt" =>
             /\ 1 + 1 = Len(s)
             /\ s[1 + 1] = Call("activate", s[1].conn, s[1].who, s[1].arg)
    BY <1>s, <2>1
  <2> QED BY <2>2
<1>7. Len(s) = 1 => r = << >>
  BY <1>3
<1>8. Len(s) = 2 => r = << s[2] >>
  <2>1. Len(s) = 2 => Len(r) = 1 /\ r[1] = s[2]
    BY <1>3
  <2> QED BY <1>3, <2>1
<1> QED BY <1>2, <1>3, <1>5, <1>6, <1>7, <1>8

(* Calls of other kinds may be put before the rest.                         *)
LEMMA TodoPrepend ==
  ASSUME NEW a \in Seq(Calls), NEW b \in Seq(Calls), TodoOK(b),
         \A i \in 1 .. Len(a) : a[i].op \in PlainOps
  PROVE  TodoOK(a \o b)
<1>1. /\ a \o b \in Seq(Calls) /\ Len(a) \in Nat /\ Len(b) \in Nat
      /\ Len(a \o b) = Len(a) + Len(b)
      /\ \A i \in 1 .. Len(a \o b) : (a \o b)[i] = IF i <= Len(a) THEN a[i] ELSE b[i - Len(a)]
  OBVIOUS
<1>2. \A m : m.op \in PlainOps => m.op \notin LateOps \cup {"adopt"} /\ ByConsumer(m)
  BY DEF PlainOps, LateOps, ByConsumer
<1>3. ASSUME NEW i \in 1 .. Len(a \o b)
      PROVE  /\ ByConsumer((a \o b)[i])
             /\ (a \o b)[i].op \in LateOps => i = Len(a \o b)
             /\ (a \o b)[i].op = "adopt" =>
                  /\ i + 1 = Len(a \o b)
                  /\ (a \o b)[i + 1] = Call("activate", (a \o b)[i].conn, (a \o b)[i].who,
                                            (a \o b)[i].arg)
  <2>1. CASE i <= Len(a)
    BY <1>1, <1>2, <2>1
  <2>2. CASE i > Len(a)
    <3> DEFINE j == i - Len(a)
    <3>1. j \in 1 .. Len(b) /\ (a \o b)[i] = b[j]
      BY <1>1, <2>2
    <3>2. j + 1 \in 1 .. Len(b) => (a \o b)[i + 1] = b[j + 1]
      BY <1>1, <2>2
    <3>3. /\ ByConsumer(b[j]) /\ (b[j].op \in LateOps => j = Len(b))
          /\ b[j].op = "adopt" => j + 1 = Len(b)
               /\ b[j + 1] = Call("activate", b[j].conn, b[j].who, b[j].arg)
      BY <3>1 DEF TodoOK, Shape
    <3> QED BY <1>1, <3>1, <3>2, <3>3
  <2> QED BY <1>1, <2>1, <2>2
<1> QED BY <1>3 DEF TodoOK, Shape

(* Sequences of calls of the plain kinds.                                   *)
Plain(s) == s \in Seq(Calls) /\ \A i \in 1 .. Len(s) : s[i].op \in PlainOps

LEMMA PlainOne ==
  ASSUME NEW m \in Calls, m.op \in PlainOps
  PROVE  Plain(<< m >>)
BY DEF Plain

LEMMA PlainJoin ==
  ASSUME NEW a, NEW b, Plain(a), Plain(b)
  PROVE  Plain(a \o b)
<1>1. /\ a \in Seq(Calls) /\ b \in Seq(Calls) /\ a \o b \in Seq(Calls)
      /\ Len(a) \in Nat /\ Len(b) \in Nat /\ Len(a \o b) = Len(a) + Len(b)
      /\ \A i \in 1 .. Len(a \o b) : (a \o b)[i] = IF i <= Len(a) THEN a[i] ELSE b[i - Len(a)]
  BY DEF Plain
<1>2. ASSUME NEW i \in 1 .. Len(a \o b) PROVE (a \o b)[i].op \in PlainOps
  <2>1. CASE i <= Len(a)
    BY <1>1, <2>1 DEF Plain
  <2>2. CASE i > Len(a)
    <3>1. i - Len(a) \in 1 .. Len(b) /\ (a \o b)[i] = b[i - Len(a)]
      BY <1>1, <2>2
    <3> QED BY <3>1 DEF Plain
  <2> QED BY <1>1, <2>1, <2>2
<1> QED BY <1>1, <1>2 DEF Plain

(* Following the rest, or some calls and then the rest.                     *)
LEMMA TodoFinish ==
  ASSUME TypeInv, TodoInv, NEW t \in Tasks, pc[t] # "free", Finish(t)
  PROVE  TodoInv'
BY TodoRest, TodoContinue DEF Finish

LEMMA TodoBefore ==
  ASSUME TypeInv, TodoInv, NEW t \in Tasks, pc[t] # "free", NEW a, Plain(a),
         Continue(t, a \o Rest(t))
  PROVE  TodoInv'
<1>1. TodoOK(Rest(t)) /\ Rest(t) \in Seq(Calls)
  BY TodoRest, AtLabel
<1>2. TodoOK(a \o Rest(t))
  BY <1>1, TodoPrepend DEF Plain
<1> QED BY <1>2, TodoContinue

LEMMA TodoInstead ==
  ASSUME TypeInv, TodoInv, NEW t \in Tasks, NEW a, Plain(a), Continue(t, a)
  PROVE  TodoInv'
<1>1. TodoOK(a \o << >>)
  <2>1. << >> \in Seq(Calls)
    OBVIOUS
  <2> QED BY <2>1, TodoEmpty, TodoPrepend DEF Plain
<1>2. a \o << >> = a
  BY DEF Plain
<1> QED BY <1>1, <1>2, TodoContinue

LEMMA TodoGoto ==
  ASSUME TypeInv, TodoInv, NEW t \in Tasks, pc[t] # "free", NEW label \in Inside,
         Goto(t, label)
  PROVE  TodoInv'
<1>1. \A x \in Tasks : pc'[x] = "free" <=> pc[x] = "free"
  BY DEF Goto, Inside, TypeInv, TasksOK
<1> QED BY <1>1, TodoSame DEF Goto

LEMMA AbandonPlain ==
  ASSUME NEW c \in Conns, NEW u \in Users, NEW p \in Conns
  PROVE  /\ Plain(Abandon(c, u, p))
         /\ Plain(Abandon(c, u, p) \o << Call("clear", c, None, None) >>)
<1> DEFINE x == Release(p, c)
           y == Release(c, u)
           z == Call("clear", c, None, None)
<1>1. x \in Calls /\ y \in Calls /\ z \in Calls
  BY ReleaseCall, UnaryCall DEF Users
<1>2. x.op \in PlainOps /\ y.op \in PlainOps /\ z.op \in PlainOps
  BY DEF Release, Call, PlainOps
<1>3. Abandon(c, u, p) = << x, y >>
  BY DEF Abandon
<1> HIDE DEF x, y, z
<1>4. Plain(<< x, y >>)
  BY <1>1, <1>2 DEF Plain
<1>5. Plain(<< z >>)
  BY <1>1, <1>2, PlainOne
<1>6. Plain(<< x, y >> \o << z >>)
  BY <1>4, <1>5, PlainJoin
<1> QED BY <1>3, <1>4, <1>6 DEF z

LEMMA MissingTodo ==
  ASSUME TypeInv, TodoInv, NEW t \in Tasks, pc[t] # "free", Missing(t)
  PROVE  TodoInv'
<1> DEFINE m == Cur(t)
<1>0. /\ m \in Calls
      /\ m.op = "borrow" => m.who \in Conns /\ m.arg \in Users
      /\ m.op \in {"adopt", "activate"} => m.conn \in Conns /\ m.who \in Users /\ m.arg \in Conns
  BY AtLabel, CallShape
<1>1. CASE m.op = "borrow"
  <2>1. Release(m.who, m.arg) \in Calls /\ Release(m.who, m.arg).op \in PlainOps
    BY <1>0, <1>1, ReleaseCall DEF Release, Call, PlainOps
  <2>2. Continue(t, << Release(m.who, m.arg) >> \o Rest(t))
    BY <1>1 DEF Missing
  <2>3. Plain(<< Release(m.who, m.arg) >>)
    BY <2>1, PlainOne
  <2> QED BY <2>2, <2>3, TodoBefore
<1>2. CASE m.op \in {"adopt", "activate"}
  <2>1. Continue(t, Abandon(m.conn, m.who, m.arg) \o << Call("clear", m.conn, None, None) >>)
    BY <1>2 DEF Missing
  <2> QED BY <1>0, <1>2, <2>1, AbandonPlain, TodoInstead
<1>3. CASE m.op \notin {"borrow", "adopt", "activate"}
  BY <1>3, TodoFinish DEF Missing
<1> QED BY <1>1, <1>2, <1>3

LEMMA LookupTodo ==
  ASSUME TypeInv, TodoInv, NEW t \in Tasks, LookupId(t) \/ LookupKey(t)
  PROVE  TodoInv'
<1>1. pc[t] # "free" /\ TasksOK
  BY DEF LookupId, LookupKey, At, TypeInv
<1>2. CASE Missing(t)
  BY <1>1, <1>2, MissingTodo
<1>3. ASSUME NEW label \in {"byKey", "enter"}, pc' = [pc EXCEPT ![t] = label], todo' = todo
      PROVE  TodoInv'
  <2>1. \A x \in Tasks : pc'[x] = "free" <=> pc[x] = "free"
    BY <1>1, <1>3 DEF TasksOK
  <2> QED BY <1>3, <2>1, TodoSame
<1> QED BY <1>2, <1>3 DEF LookupId, LookupKey

LEMMA AcquireTodo ==
  ASSUME TypeInv, TodoInv, NEW t \in Tasks,
         Acquire(t) \/ OutOfIds(t) \/ AcquireCancel(t) \/ AcquirePush(t) \/ Attach(t)
  PROVE  TodoInv'
<1> DEFINE m == Cur(t)
<1>1. pc[t] # "free" /\ TasksOK /\ m \in Calls
  <2>1. pc[t] # "free"
    BY DEF Acquire, OutOfIds, AcquireCancel, AcquirePush, Attach, At, AtCall
  <2> QED BY <2>1, AtLabel
<1>2. CASE Acquire(t)
  <2>1. pc' = [pc EXCEPT ![t] = "cancel"] /\ todo' = todo
    BY <1>2 DEF Acquire
  <2>2. \A x \in Tasks : pc'[x] = "free" <=> pc[x] = "free"
    BY <1>1, <2>1 DEF TasksOK
  <2> QED BY <2>1, <2>2, TodoSame
<1>3. CASE OutOfIds(t)
  BY <1>1, <1>3, TodoFinish DEF OutOfIds
<1>4. CASE AcquireCancel(t)
  BY <1>1, <1>4, TodoGoto DEF AcquireCancel, Inside, Labels
<1>5. CASE AcquirePush(t)
  <2>1. m.op = "acquire"
    BY <1>1, <1>5 DEF AcquirePush, At, TasksOK, TaskOK
  <2>2. Rest(t) = << >> /\ m.who \in Consumers
    BY <1>1, <2>1, TodoRest DEF LateOps, ByConsumer
  <2>3. Continue(t, << Call("dial", ent[t], m.who, None) >>)
    BY <1>5, <2>2 DEF AcquirePush
  <2>4. TodoOK(<< Call("dial", ent[t], m.who, None) >>)
    BY <2>2, TodoOne DEF ByConsumer, Call
  <2> QED BY <2>3, <2>4, TodoContinue
<1>6. CASE Attach(t)
  <2>1. CASE m.op = "borrow"
    <3>1. Rest(t) = << >> /\ m.arg \in Consumers
      BY <1>1, <2>1, TodoRest DEF LateOps, ByConsumer
    <3>2. Continue(t, << Call("dial", m.who, m.arg, ent[t]) >>)
      BY <1>6, <2>1, <3>1 DEF Attach
    <3>3. TodoOK(<< Call("dial", m.who, m.arg, ent[t]) >>)
      BY <3>1, TodoOne DEF ByConsumer, Call
    <3> QED BY <3>2, <3>3, TodoContinue
  <2>2. CASE m.op # "borrow"
    BY <1>1, <1>6, <2>2, TodoFinish DEF Attach
  <2> QED BY <2>1, <2>2
<1> QED BY <1>2, <1>3, <1>4, <1>5, <1>6

LEMMA DialTodo ==
  ASSUME TypeInv, TodoInv, NEW t \in Tasks, DialReaches(t) \/ DialFails(t)
  PROVE  TodoInv'
<1> DEFINE m == Cur(t)
           c == m.conn
           u == m.who
           p == m.arg
<1>1. pc[t] # "free" /\ m \in Calls /\ m.op = "dial"
  <2>1. pc[t] # "free" /\ m.op = "dial"
    BY DEF DialReaches, DialFails, AtCall
  <2> QED BY <2>1, AtLabel
<1>2. /\ c \in Conns /\ u \in Consumers /\ u \in Users /\ p \in Conns \cup {None}
      /\ Rest(t) = << >>
  BY <1>1, CallShape, TodoRest DEF LateOps, ByConsumer, Users
<1>3. CASE DialReaches(t) /\ p # None
  <2>1. Continue(t, << Call("adopt", c, u, p), Call("activate", c, u, p) >>)
    BY <1>2, <1>3 DEF DialReaches
  <2>2. TodoOK(<< Call("adopt", c, u, p), Call("activate", c, u, p) >>)
    <3> DEFINE s == << Call("adopt", c, u, p), Call("activate", c, u, p) >>
    <3>1. Len(s) = 2 /\ s[1] = Call("adopt", c, u, p) /\ s[2] = Call("activate", c, u, p)
      OBVIOUS
    <3>2. /\ s[1].op = "adopt" /\ s[1].conn = c /\ s[1].who = u /\ s[1].arg = p
          /\ s[2].op = "activate" /\ s[2].who = u
      BY <3>1 DEF Call
    <3> HIDE DEF s
    <3>3. ByConsumer(s[1]) /\ ByConsumer(s[2])
      BY <1>2, <3>2 DEF ByConsumer
    <3>4. Shape(s)
      BY <3>1, <3>2 DEF Shape, LateOps
    <3> QED BY <3>1, <3>3, <3>4 DEF TodoOK, s
  <2> QED BY <2>1, <2>2, TodoContinue
<1>4. CASE DialReaches(t) /\ p = None
  <2> DEFINE a == << Call("disown", c, None, None), Mark(c, "Active") >>
  <2>1. Continue(t, a \o Rest(t))
    BY <1>4 DEF DialReaches
  <2>2. Plain(a)
    <3>1. Call("disown", c, None, None) \in Calls /\ Mark(c, "Active") \in Calls
      BY <1>2, UnaryCall, MarkCall DEF States
    <3>2. Call("disown", c, None, None).op \in PlainOps /\ Mark(c, "Active").op \in PlainOps
      BY DEF Call, Mark, PlainOps
    <3> QED BY <3>1, <3>2 DEF Plain
  <2> HIDE DEF a
  <2> QED BY <1>1, <2>1, <2>2, TodoBefore
<1>5. CASE DialFails(t)
  <2> DEFINE b == IF p = None THEN << Release(c, u) >> ELSE Abandon(c, u, p)
             a == << Mark(c, "Error") >> \o b
  <2>1. Continue(t, << Mark(c, "Error") >> \o b \o Rest(t))
    BY <1>5 DEF DialFails
  <2>2. Plain(b)
    <3>1. CASE p = None
      <4>1. Release(c, u) \in Calls /\ Release(c, u).op \in PlainOps
        BY <1>2, ReleaseCall DEF Release, Call, PlainOps
      <4> QED BY <3>1, <4>1, PlainOne
    <3>2. CASE p # None
      BY <1>2, <3>2, AbandonPlain
    <3> QED BY <3>1, <3>2
  <2>3. Mark(c, "Error") \in Calls /\ Mark(c, "Error").op \in PlainOps
    BY <1>2, MarkCall DEF States, Mark, Call, PlainOps
  <2> HIDE DEF b
  <2>4. Plain(a)
    BY <2>2, <2>3, PlainOne, PlainJoin
  <2>5. Continue(t, a \o Rest(t))
    BY <2>1
  <2> HIDE DEF a
  <2> QED BY <1>1, <2>4, <2>5, TodoBefore
<1> QED BY <1>3, <1>4, <1>5

LEMMA UnaryPlain ==
  ASSUME NEW c \in Conns,
         NEW op \in {"disown", "retire", "keepOn", "keepOff", "rearm", "clear", "kill"}
  PROVE  Call(op, c, None, None) \in Calls /\ Call(op, c, None, None).op \in PlainOps
BY UnaryCall DEF Call, PlainOps

LEMMA ReleasePlain ==
  ASSUME NEW c \in Conns, NEW u \in Users
  PROVE  Plain(<< Release(c, u) >>)
<1>1. Release(c, u) \in Calls /\ Release(c, u).op \in PlainOps
  BY ReleaseCall DEF Release, Call, PlainOps
<1> QED BY <1>1, PlainOne

LEMMA NonePlain == Plain(<< >>)
BY DEF Plain

(* The release of the parent an entry owns, if it owns one.                 *)
LEMMA OwnedPlain ==
  ASSUME NEW e \in Entry
  PROVE  Plain(IF e.parent # None /\ e.parentConsumer # None
                 THEN << Release(e.parent, e.parentConsumer) >> ELSE << >>)
<1>1. e.parent \in Conns \cup {None} /\ e.parentConsumer \in Users \cup {None}
  BY DEF Entry
<1>2. CASE e.parent # None /\ e.parentConsumer # None
  <2>1. e.parent \in Conns /\ e.parentConsumer \in Users
    BY <1>1, <1>2
  <2>2. Plain(<< Release(e.parent, e.parentConsumer) >>)
    BY <2>1, ReleasePlain
  <2> QED BY <1>2, <2>2
<1>3. CASE ~(e.parent # None /\ e.parentConsumer # None)
  BY <1>3, NonePlain
<1> QED BY <1>2, <1>3

LEMMA OwnershipTodo ==
  ASSUME TypeInv, TodoInv, NEW t \in Tasks, Adopt(t) \/ Disown(t)
  PROVE  TodoInv'
<1> DEFINE m == Cur(t)
           e == entry[ent[t]]
<1>1. pc[t] = "enter" /\ m.op \in {"adopt", "disown"}
  BY DEF Adopt, Disown, AtCall
<1>2. m \in Calls /\ e \in Entry /\ TasksOK
  BY <1>1, AtLabel DEF Inside, Labels
<1>3. CASE Finish(t)
  BY <1>1, <1>3, TodoFinish
<1>4. CASE /\ Adopt(t)
           /\ Continue(t, Abandon(m.conn, m.who, m.arg) \o << Call("clear", m.conn, None, None) >>)
  <2>1. m.conn \in Conns /\ m.who \in Users /\ m.arg \in Conns
    BY <1>2, <1>4, CallShape DEF Adopt, AtCall
  <2>2. Plain(Abandon(m.conn, m.who, m.arg) \o << Call("clear", m.conn, None, None) >>)
    BY <2>1, AbandonPlain
  <2> QED BY <1>4, <2>2, TodoInstead
<1>5. CASE Continue(t, (IF e.parent # None /\ e.parentConsumer # None
                          THEN << Release(e.parent, e.parentConsumer) >>
                          ELSE << >>) \o Rest(t))
  <2> DEFINE a == IF e.parent # None /\ e.parentConsumer # None
                    THEN << Release(e.parent, e.parentConsumer) >> ELSE << >>
  <2>1. Plain(a)
    BY <1>2, OwnedPlain
  <2>2. Continue(t, a \o Rest(t))
    BY <1>5
  <2> HIDE DEF a
  <2> QED BY <1>1, <2>1, <2>2, TodoBefore
<1> QED BY <1>3, <1>4, <1>5 DEF Adopt, Disown

LEMMA RetireTodo ==
  ASSUME TypeInv, TodoInv, NEW t \in Tasks,
         RetireEnter(t) \/ RetireUnlink(t) \/ RetireForget(t)
  PROVE  TodoInv'
<1>1. pc[t] # "free" /\ TasksOK
  BY DEF RetireEnter, RetireUnlink, RetireForget, At, AtCall, TypeInv
<1>2. CASE Finish(t)
  BY <1>1, <1>2, TodoFinish
<1>3. CASE RetireUnlink(t)
  BY <1>1, <1>3, TodoGoto DEF RetireUnlink, Inside, Labels
<1>4. CASE RetireEnter(t) /\ StillRegistered(t)
  <2> DEFINE e == entry[ent[t]]
             a == IF e.parent # None /\ e.parentConsumer # None
                    THEN << Release(e.parent, e.parentConsumer) >> ELSE << >>
             b == << Cur(t) >> \o a
  <2>1. pc[t] = "enter" /\ Cur(t).op = "retire"
    BY <1>4 DEF RetireEnter, AtCall
  <2>2. Cur(t) \in Calls /\ e \in Entry /\ Rest(t) \in Seq(Calls)
    BY <2>1, AtLabel DEF Inside, Labels
  <2>3. Plain(a)
    BY <2>2, OwnedPlain
  <2>4. /\ todo' = [todo EXCEPT ![t] = << Cur(t) >> \o a \o Rest(t)]
        /\ pc' = [pc EXCEPT ![t] = "unlink"]
    BY <1>4 DEF RetireEnter
  <2> HIDE DEF a
  <2>5. Plain(b)
    BY <2>1, <2>2, <2>3, PlainOne, PlainJoin DEF PlainOps
  <2>6. todo' = [todo EXCEPT ![t] = b \o Rest(t)]
    BY <2>4
  <2> HIDE DEF b
  <2>7. TodoOK(b \o Rest(t))
    BY <1>1, <2>2, <2>5, TodoRest, TodoPrepend DEF Plain
  <2>8. ASSUME NEW x \in Tasks
        PROVE  TodoOK(todo'[x]) /\ (pc'[x] = "free" => todo'[x] = << >>)
    BY <1>1, <2>4, <2>6, <2>7 DEF TodoInv, TasksOK
  <2> QED BY <2>8 DEF TodoInv, TodoOK, Shape
<1> QED BY <1>2, <1>3, <1>4 DEF RetireEnter, RetireForget

LEMMA DisconnectTodo ==
  ASSUME TypeInv, TodoInv, NEW t \in Tasks, Disconnect(t)
  PROVE  TodoInv'
<1> DEFINE c == Cur(t).conn
           e == entry[ent[t]]
<1>1. pc[t] = "enter" /\ Cur(t).op = "kill"
  BY DEF Disconnect, AtCall
<1>2. c \in Conns /\ e \in Entry /\ ent[t] \in Conns
  BY <1>1, AtLabel DEF Inside, Labels
<1>3. CASE Finish(t)
  BY <1>1, <1>3, TodoFinish
<1>4. ASSUME NEW known \in BOOLEAN,
             Continue(t, (IF known /\ e.parent # None THEN << Release(e.parent, c) >> ELSE << >>)
                         \o << Call("clear", ent[t], None, None),
                               Mark(c, "Disconnected"), Retire(c) >> \o Rest(t))
      PROVE  TodoInv'
  <2> DEFINE a == IF known /\ e.parent # None THEN << Release(e.parent, c) >> ELSE << >>
             x == Call("clear", ent[t], None, None)
             y == Mark(c, "Disconnected")
             z == Retire(c)
  <2>1. /\ x \in Calls /\ y \in Calls /\ z \in Calls
        /\ x.op \in PlainOps /\ y.op \in PlainOps /\ z.op \in PlainOps
    BY <1>2, UnaryPlain, MarkCall DEF Retire, Mark, Call, PlainOps, States
  <2>2. Plain(a)
    <3>1. CASE known /\ e.parent # None
      <4>1. e.parent \in Conns /\ c \in Users
        BY <1>2, <3>1 DEF Entry, Users
      <4>2. Plain(<< Release(e.parent, c) >>)
        BY <4>1, ReleasePlain
      <4> QED BY <3>1, <4>2
    <3>2. CASE ~(known /\ e.parent # None)
      BY <3>2, NonePlain
    <3> QED BY <3>1, <3>2
  <2>3. Continue(t, a \o << x, y, z >> \o Rest(t))
    BY <1>4
  <2> HIDE DEF a, x, y, z
  <2>4. Plain(<< x, y, z >>)
    BY <2>1 DEF Plain
  <2>5. Plain(a \o << x, y, z >>)
    BY <2>2, <2>4, PlainJoin
  <2> QED BY <1>1, <2>3, <2>5, TodoBefore
<1> QED BY <1>3, <1>4 DEF Disconnect

LEMMA OtherTodo ==
  ASSUME TypeInv, TodoInv, NEW t \in Tasks,
         \/ ClearPhysical(t) \/ MarkState(t)
         \/ ReleaseDetach(t) \/ ReleaseDecrement(t) \/ ReleaseDecide(t)
         \/ KeepCancel(t) \/ Disarm(t) \/ Capture(t) \/ Settle(t)
         \/ KeepAliveOn(t) \/ KeepAliveOff(t)
  PROVE  TodoInv'
<1>1. pc[t] # "free"
  BY DEF ClearPhysical, MarkState, ReleaseDetach, ReleaseDecrement, ReleaseDecide,
     KeepCancel, Disarm, Capture, Settle, KeepAliveOn, KeepAliveOff, At, AtCall
<1>2. CASE Finish(t)
  BY <1>1, <1>2, TodoFinish
<1>3. CASE \E label \in Inside : Goto(t, label)
  BY <1>1, <1>3, TodoGoto
<1>4. CASE ReleaseDecide(t) /\ Continue(t, << Retire(Cur(t).conn) >> \o Rest(t))
  <2>1. Cur(t).op = "release"
    BY <1>1, <1>4, AtLabel DEF ReleaseDecide, At, TaskOK
  <2>2. Cur(t).conn \in Conns
    BY <1>1, <2>1, AtLabel
  <2>3. Plain(<< Retire(Cur(t).conn) >>)
    BY <2>2, UnaryPlain, PlainOne DEF Retire
  <2> QED BY <1>1, <1>4, <2>3, TodoBefore
<1> QED BY <1>2, <1>3, <1>4
    DEF ClearPhysical, MarkState, ReleaseDetach, ReleaseDecrement, ReleaseDecide,
        KeepCancel, Disarm, Capture, Settle, KeepAliveOn, KeepAliveOff, Inside, Labels

LEMMA TransportTodo ==
  ASSUME TypeInv, TodoInv, NEW t \in Tasks, TakeTransport(t)
  PROVE  TodoInv'
BY TransportOnly, TodoSame

LEMMA RearmTodo ==
  ASSUME TypeInv, TodoInv, NEW t \in Tasks, Rearm(t)
  PROVE  TodoInv'
<1>1. pc[t] # "free" /\ TasksOK
  BY DEF Rearm, AtCall, TypeInv
<1>2. CASE Finish(t)
  BY <1>1, <1>2, TodoFinish
<1>3. CASE pc' = [pc EXCEPT ![t] = "disarm"] /\ todo' = todo
  <2>1. \A x \in Tasks : pc'[x] = "free" <=> pc[x] = "free"
    BY <1>1, <1>3 DEF TasksOK
  <2> QED BY <1>3, <2>1, TodoSame
<1> QED BY <1>2, <1>3 DEF Rearm

(* A sequence of the same plain call on several connections.                *)
LEMMA EachPlain ==
  ASSUME NEW S, S \subseteq Conns, NEW s \in Orders(S), NEW op \in {"kill", "rearm"}
  PROVE  Plain([i \in DOMAIN s |-> Call(op, s[i], None, None)])
<1>1. IsFiniteSet(S)
  BY FS_Subset, RegistryAssumption
<1>2. s \in Seq(S) /\ DOMAIN s = 1 .. Len(s) /\ Len(s) \in Nat
  BY <1>1, OrdersAreSequences
<1>3. \A c \in Conns : Call(op, c, None, None) \in Calls /\ Call(op, c, None, None).op \in PlainOps
  BY UnaryPlain
<1>4. \A i \in 1 .. Len(s) : s[i] \in Conns
  BY <1>2
<1> DEFINE r == [i \in 1 .. Len(s) |-> Call(op, s[i], None, None)]
<1>5. r \in Seq(Calls) /\ Len(r) = Len(s) /\ \A i \in 1 .. Len(s) : r[i].op \in PlainOps
  BY <1>2, <1>3, <1>4
<1> QED BY <1>2, <1>5 DEF Plain

LEMMA WakeTodo ==
  ASSUME TypeInv, TodoInv, NEW t \in Reapers, NEW c \in Conns, Wake(t, c)
  PROVE  TodoInv'
<1>1. t \in Tasks
  BY DEF Tasks
<1>2. CASE UNCHANGED taskVars
  BY <1>2, TodoSame DEF taskVars
<1>3. ASSUME NEW s \in Orders(Descendants(c)),
             Continue(t, [i \in DOMAIN s |-> Kill(s[i])] \o << Kill(c) >>)
      PROVE  TodoInv'
  <2> DEFINE r == [i \in DOMAIN s |-> Kill(s[i])]
  <2>1. Descendants(c) \subseteq Conns
    BY DEF Descendants, Pooled
  <2>2. Plain(r)
    BY <2>1, EachPlain DEF Kill
  <2>3. Plain(<< Kill(c) >>)
    BY UnaryPlain, PlainOne DEF Kill
  <2>4. Continue(t, r \o << Kill(c) >>)
    BY <1>3
  <2> HIDE DEF r
  <2>5. Plain(r \o << Kill(c) >>)
    BY <2>2, <2>3, PlainJoin
  <2> QED BY <1>1, <2>4, <2>5, TodoInstead
<1> QED BY <1>2, <1>3 DEF Wake

LEMMA StartTodo ==
  ASSUME TypeInv, TodoInv, NEW t \in Workers, StartProgram(t)
  PROVE  TodoInv'
<1>1. t \in Tasks
  BY DEF Tasks
<1>2. ASSUME NEW client, NEW m, Start(t, client, << m >>), ByConsumer(m), m.op # "adopt"
      PROVE  TodoInv'
  BY <1>1, <1>2, TodoOne, TodoContinue DEF Start
<1>3. ASSUME NEW k \in Keys, NEW u \in Consumers, StartNode(t, k, u) PROVE TodoInv'
  <2>1. ByConsumer(Call("acquire", None, u, k)) /\ Call("acquire", None, u, k).op # "adopt"
    BY DEF ByConsumer, Call
  <2> QED BY <1>2, <1>3, <2>1 DEF StartNode
<1>4. ASSUME NEW c \in Conns, NEW u \in Consumers, NEW p \in Conns \cup {None},
             StartDedicated(t, c, u, p)
      PROVE  TodoInv'
  <2> DEFINE m == IF p = None THEN Call("dial", c, u, None) ELSE Call("borrow", p, c, u)
  <2>1. ByConsumer(m) /\ m.op # "adopt"
    BY DEF ByConsumer, Call
  <2>2. Start(t, "dedicated", << m >>)
    BY <1>4 DEF StartDedicated
  <2> HIDE DEF m
  <2> QED BY <1>2, <2>1, <2>2
<1>5. ASSUME NEW c \in Conns, StartOnConnection(t, c) PROVE TodoInv'
  <2>1. /\ \A u \in Consumers : ByConsumer(Call("attach", c, u, None))
        /\ \A u : ByConsumer(Release(c, u))
        /\ ByConsumer(Retire(c)) /\ ByConsumer(Mark(c, "LinkDown"))
        /\ \A op \in {"keepOn", "keepOff"} : ByConsumer(Call(op, c, None, None))
    BY DEF ByConsumer, Call, Release, Retire, Mark
  <2>2. /\ \A u : Call("attach", c, u, None).op # "adopt"
        /\ \A u : Release(c, u).op # "adopt"
        /\ Retire(c).op # "adopt" /\ Mark(c, "LinkDown").op # "adopt"
        /\ \A op \in {"keepOn", "keepOff"} : Call(op, c, None, None).op # "adopt"
    BY DEF Call, Release, Retire, Mark
  <2> QED BY <1>2, <1>5, <2>1, <2>2 DEF StartOnConnection, StartCall
<1>6. ASSUME NEW b \in BOOLEAN, StartSetIdleTimeout(t, b) PROVE TodoInv'
  <2>1. PICK s \in Orders(Pooled) :
          Start(t, "timeout", [i \in DOMAIN s |-> Call("rearm", s[i], None, None)])
    BY <1>6 DEF StartSetIdleTimeout
  <2> DEFINE r == [i \in DOMAIN s |-> Call("rearm", s[i], None, None)]
  <2>2. Plain(r)
    <3>1. Pooled \subseteq Conns
      BY DEF Pooled
    <3> QED BY <3>1, EachPlain
  <2>3. Continue(t, r)
    BY <2>1 DEF Start
  <2> HIDE DEF r
  <2> QED BY <1>1, <2>2, <2>3, TodoInstead
<1> QED BY <1>3, <1>4, <1>5, <1>6 DEF StartProgram

LEMMA StepTodoInv ==
  ASSUME TypeInv, TodoInv, [Next]_vars
  PROVE  TodoInv'
<1>1. ASSUME NEW t \in Tasks, Step(t) PROVE TodoInv'
  BY <1>1, LookupTodo, AcquireTodo, DialTodo, OwnershipTodo, RetireTodo,
     DisconnectTodo, TransportTodo, OtherTodo, RearmTodo DEF Step
<1>2. CASE UNCHANGED vars
  BY <1>2, TodoSame DEF vars
<1> QED BY <1>1, <1>2, StartTodo, WakeTodo DEF Next

LEMMA InitTodoInv == Init => TodoInv
BY TodoEmpty DEF Init, TodoInv

-----------------------------------------------------------------------------
(* The calls in a sequence, regardless of their order.                      *)

Elements(s) == {s[i] : i \in 1 .. Len(s)}

LEMMA ElementsNone == Elements(<< >>) = {}
BY DEF Elements

LEMMA ElementsOne ==
  ASSUME NEW m
  PROVE  Elements(<< m >>) = {m}
<1>1. Len(<< m >>) = 1 /\ << m >>[1] = m
  OBVIOUS
<1> QED BY <1>1 DEF Elements

LEMMA ElementsJoin ==
  ASSUME NEW a \in Seq(Calls), NEW b \in Seq(Calls)
  PROVE  Elements(a \o b) = Elements(a) \cup Elements(b)
<1>1. /\ Len(a) \in Nat /\ Len(b) \in Nat /\ Len(a \o b) = Len(a) + Len(b)
      /\ \A i \in 1 .. Len(a \o b) : (a \o b)[i] = IF i <= Len(a) THEN a[i] ELSE b[i - Len(a)]
  OBVIOUS
<1>2. ASSUME NEW i \in 1 .. Len(a \o b) PROVE (a \o b)[i] \in Elements(a) \cup Elements(b)
  <2>1. CASE i <= Len(a)
    BY <1>1, <2>1 DEF Elements
  <2>2. CASE i > Len(a)
    <3>1. i - Len(a) \in 1 .. Len(b) /\ (a \o b)[i] = b[i - Len(a)]
      BY <1>1, <2>2
    <3> QED BY <3>1 DEF Elements
  <2> QED BY <1>1, <2>1, <2>2
<1>3. ASSUME NEW i \in 1 .. Len(a) PROVE a[i] \in Elements(a \o b)
  <2>1. i \in 1 .. Len(a \o b) /\ (a \o b)[i] = a[i]
    BY <1>1
  <2> QED BY <2>1 DEF Elements
<1>4. ASSUME NEW i \in 1 .. Len(b) PROVE b[i] \in Elements(a \o b)
  <2>1. i + Len(a) \in 1 .. Len(a \o b) /\ (a \o b)[i + Len(a)] = b[i]
    BY <1>1
  <2> QED BY <2>1 DEF Elements
<1>5. \A m \in Elements(a \o b) : m \in Elements(a) \cup Elements(b)
  BY <1>2 DEF Elements
<1>6. \A m \in Elements(a) : m \in Elements(a \o b)
  BY <1>3 DEF Elements
<1>7. \A m \in Elements(b) : m \in Elements(a \o b)
  BY <1>4 DEF Elements
<1> QED BY <1>5, <1>6, <1>7

LEMMA ElementsAre ==
  ASSUME NEW s \in Seq(Calls)
  PROVE  \A m \in Elements(s) : m \in Calls
BY DEF Elements

(* What a task has to do is its current call and the rest.                  *)
LEMMA ElementsTodo ==
  ASSUME TypeInv, NEW t \in Tasks, pc[t] # "free"
  PROVE  Elements(todo[t]) = {Cur(t)} \cup Elements(Rest(t))
<1> DEFINE s == todo[t]
           r == Tail(s)
<1>1. s \in Seq(Calls) /\ s # << >>
  BY DEF TypeInv, TasksOK, TaskOK
<1>2. Cur(t) = Head(s) /\ Rest(t) = r
  BY DEF Cur, Rest
<1>3. /\ Len(s) \in Nat /\ Len(s) >= 1 /\ Cur(t) = s[1]
      /\ Len(r) \in Nat /\ Len(r) = Len(s) - 1
      /\ \A i \in 1 .. Len(r) : r[i] = s[i + 1]
  BY <1>1, <1>2
<1> HIDE DEF s, r
<1>4. ASSUME NEW i \in 1 .. Len(s) PROVE s[i] \in {Cur(t)} \cup Elements(r)
  <2>1. CASE i = 1
    BY <1>3, <2>1
  <2>2. CASE i # 1
    <3>1. i - 1 \in 1 .. Len(r) /\ r[i - 1] = s[i]
      BY <1>3, <2>2
    <3> QED BY <3>1 DEF Elements
  <2> QED BY <2>1, <2>2
<1>5. ASSUME NEW i \in 1 .. Len(r) PROVE r[i] \in Elements(s)
  <2>1. i + 1 \in 1 .. Len(s) /\ s[i + 1] = r[i]
    BY <1>3
  <2> QED BY <2>1 DEF Elements
<1>6. Cur(t) \in Elements(s)
  BY <1>3 DEF Elements
<1>7. \A m \in Elements(s) : m \in {Cur(t)} \cup Elements(r)
  BY <1>4 DEF Elements
<1>8. \A m \in Elements(r) : m \in Elements(s)
  BY <1>5 DEF Elements
<1> QED BY <1>2, <1>6, <1>7, <1>8 DEF s

-----------------------------------------------------------------------------
(* A retirement that is due stays due until the connection is out of the    *)
(* registry, and so does a disconnect, until it is made.                    *)

LEMMA DoomedElements ==
  \A c : Doomed(c) <=> \E t \in Tasks : \E m \in Elements(todo[t]) :
                          m.op = "retire" /\ m.conn = c
BY DEF Doomed, Elements

(* Task t drops no retirement of a connection that is still registered, and *)
(* no disconnect but the one it makes.                                      *)
KeepsDoom(t) ==
  /\ \A x \in Tasks \ {t} : todo'[x] = todo[x]
  /\ \A m \in Elements(todo[t]) :
       m.op \in {"retire", "kill"} /\ Registered(m.conn)'
         => m \in Elements(todo'[t]) \/ (Disconnect(t) /\ m = Cur(t))

DoomStays == \A c \in Conns : Registered(c)' /\ Doomed(c) => Doomed(c)'

LEMMA KeepsDoomStays ==
  ASSUME NEW t \in Tasks, KeepsDoom(t)
  PROVE  DoomStays
<1>1. ASSUME NEW c \in Conns, Registered(c)', Doomed(c) PROVE Doomed(c)'
  <2>1. PICK x \in Tasks : \E m \in Elements(todo[x]) : m.op = "retire" /\ m.conn = c
    BY <1>1, DoomedElements
  <2>2. PICK m \in Elements(todo[x]) : m.op = "retire" /\ m.conn = c
    BY <2>1
  <2>3. m \in Elements(todo'[x])
    BY <1>1, <2>2 DEF KeepsDoom, Disconnect, AtCall
  <2>4. \E i \in 1 .. Len(todo'[x]) : todo'[x][i] = m
    BY <2>3 DEF Elements
  <2> QED BY <2>2, <2>4 DEF Doomed
<1> QED BY <1>1 DEF DoomStays

(* Task t goes on with some calls and then the rest.                        *)
Advances(t) == \E a \in Seq(Calls) : Continue(t, a \o Rest(t))

LEMMA FinishAdvances ==
  ASSUME TypeInv, NEW t \in Tasks, pc[t] # "free", Finish(t)
  PROVE  Advances(t)
<1>1. Rest(t) \in Seq(Calls) /\ << >> \in Seq(Calls)
  BY AtLabel
<1> DEFINE r == Rest(t)
<1>2. << >> \o r = r
  <2> HIDE DEF r
  <2> QED BY <1>1 DEF r
<1>3. Continue(t, << >> \o r)
  BY <1>2 DEF Finish
<1> QED BY <1>1, <1>3 DEF Advances

LEMMA AdvanceDoom ==
  ASSUME TypeInv, NEW t \in Tasks, pc[t] # "free", Advances(t),
         \A c : Cur(t).op \in {"retire", "kill"} /\ Cur(t).conn = c
                 => ~Registered(c)' \/ Disconnect(t)
  PROVE  KeepsDoom(t)
<1>1. PICK a \in Seq(Calls) : Continue(t, a \o Rest(t))
  BY DEF Advances
<1>2. Rest(t) \in Seq(Calls) /\ TasksOK
  BY AtLabel
<1>3. todo'[t] = a \o Rest(t) /\ \A x \in Tasks \ {t} : todo'[x] = todo[x]
  BY <1>1, <1>2 DEF Continue, TasksOK
<1>4. \A m \in Elements(Rest(t)) : m \in Elements(todo'[t])
  BY <1>2, <1>3, ElementsJoin
<1> QED BY <1>3, <1>4, ElementsTodo DEF KeepsDoom

LEMMA SameTodoDoom ==
  ASSUME TypeInv, NEW t \in Tasks, todo' = todo
  PROVE  KeepsDoom(t)
BY DEF KeepsDoom

(* A hand-over that fails drops no retirement.                              *)
LEMMA DropDoom ==
  ASSUME TypeInv, TodoInv, NEW t \in Tasks, pc[t] # "free", NEW s, Continue(t, s),
         Cur(t).op \in {"adopt", "activate"}
  PROVE  KeepsDoom(t)
<1>1. \A m \in Elements(Rest(t)) : m.op = "activate"
  <2>1. CASE Cur(t).op = "activate"
    BY <2>1, TodoRest, ElementsNone DEF LateOps
  <2>2. CASE Cur(t).op = "adopt"
    <3> DEFINE m == Call("activate", Cur(t).conn, Cur(t).who, Cur(t).arg)
    <3>1. Rest(t) = << m >> /\ m.op = "activate"
      BY <2>2, TodoRest DEF Call
    <3> HIDE DEF m
    <3> QED BY <3>1, ElementsOne
  <2> QED BY <2>1, <2>2
<1>2. \A m \in Elements(todo[t]) : m.op \notin {"retire", "kill"}
  BY <1>1, ElementsTodo
<1> QED BY <1>2 DEF KeepsDoom, Continue, TypeInv, TasksOK

(* Nothing is registered under an id whose lookup fails.                    *)
LEMMA MissingUnregistered ==
  ASSUME TypeInv, IndexInv, NEW t \in Tasks,
         \/ LookupId(t) /\ byId[Cur(t).conn] = None
         \/ LookupKey(t) /\ byKey[key[t]] = None
  PROVE  /\ Cur(t).conn \in Conns
         /\ \A c : Cur(t).conn = c => ~Registered(c) /\ ~Registered(c)'
<1>1. UNCHANGED <<byKey, byId>>
  BY DEF LookupId, LookupKey, indexVars
<1>2. pc[t] \in {"start", "byKey"} /\ Cur(t).op \in LookupOps
  BY AtLabel DEF LookupId, LookupKey, At, TaskOK
<1>3. Cur(t).conn \in Conns
  BY <1>2, AtLabel DEF LookupOps
<1>4. ~Registered(Cur(t).conn)
  <2>1. CASE byId[Cur(t).conn] = None
    BY <2>1 DEF Registered
  <2>2. CASE LookupKey(t) /\ byKey[key[t]] = None
    <3>1. entry[Cur(t).conn].key = key[t]
      BY <2>2 DEF LookupKey, At, IndexInv, IndexTask
    <3>2. byId[Cur(t).conn] # None => byId[Cur(t).conn] = key[t]
      BY <1>3, <3>1 DEF IndexInv
    <3> QED BY <1>3, <2>2, <3>2, RegistryAssumption DEF Registered
  <2> QED BY <2>1, <2>2
<1> QED BY <1>1, <1>3, <1>4 DEF Registered

LEMMA MissingDoom ==
  ASSUME TypeInv, TodoInv, NEW t \in Tasks, pc[t] # "free", Missing(t),
         \A c : Cur(t).conn = c => ~Registered(c)'
  PROVE  KeepsDoom(t)
<1>1. CASE Cur(t).op = "borrow"
  <2>1. Release(Cur(t).who, Cur(t).arg) \in Calls
    BY <1>1, AtLabel, CallShape, ReleaseCall
  <2>2. << Release(Cur(t).who, Cur(t).arg) >> \in Seq(Calls)
    BY <2>1
  <2>3. Advances(t)
    BY <1>1, <2>2 DEF Missing, Advances
  <2> QED BY <2>3, AdvanceDoom
<1>2. CASE Cur(t).op \in {"adopt", "activate"}
  <2>1. PICK s : Continue(t, s)
    BY <1>2 DEF Missing
  <2> QED BY <1>2, <2>1, DropDoom
<1>3. CASE Cur(t).op \notin {"borrow", "adopt", "activate"}
  <2>1. Advances(t)
    BY <1>3, FinishAdvances DEF Missing
  <2> QED BY <2>1, AdvanceDoom
<1> QED BY <1>1, <1>2, <1>3

LEMMA LookupDoom ==
  ASSUME TypeInv, IndexInv, TodoInv, NEW t \in Tasks, LookupId(t) \/ LookupKey(t)
  PROVE  KeepsDoom(t)
<1>1. CASE todo' = todo
  BY <1>1, SameTodoDoom
<1>2. CASE todo' # todo
  <2>1. pc[t] # "free"
    BY DEF LookupId, LookupKey, At
  <2>2. /\ Missing(t)
        /\ \/ LookupId(t) /\ byId[Cur(t).conn] = None
           \/ LookupKey(t) /\ byKey[key[t]] = None
    BY <1>2 DEF LookupId, LookupKey
  <2> QED BY <2>1, <2>2, MissingUnregistered, MissingDoom
<1> QED BY <1>1, <1>2

LEMMA AcquireDoom ==
  ASSUME TypeInv, NEW t \in Tasks,
         \/ Acquire(t) \/ OutOfIds(t) \/ AcquireCancel(t) \/ AcquirePush(t) \/ Attach(t)
         \/ DialReaches(t) \/ DialFails(t)
  PROVE  KeepsDoom(t)
<1>1. pc[t] # "free" /\ Cur(t).op \in {"acquire", "attach", "borrow", "dial"}
  <2>1. pc[t] # "free" /\ (pc[t] \in {"cancel", "push"} \/ Cur(t).op \in {"acquire", "attach", "borrow", "dial"})
    BY DEF Acquire, OutOfIds, AcquireCancel, AcquirePush, Attach, DialReaches, DialFails,
       At, AtCall
  <2> QED BY <2>1, AtLabel DEF TaskOK
<1>2. Cur(t) \in Calls /\ Rest(t) \in Seq(Calls)
  BY <1>1, AtLabel
<1>3. CASE Acquire(t) \/ AcquireCancel(t)
  BY <1>3, SameTodoDoom DEF Acquire, AcquireCancel, Goto
<1>4. CASE Finish(t)
  BY <1>1, <1>4, FinishAdvances, AdvanceDoom
<1>5. CASE AcquirePush(t)
  <2>1. Call("dial", ent[t], Cur(t).who, None) \in Calls
    <3>1. ent[t] \in Conns /\ Cur(t).who \in Users
      BY <1>1, <1>2, <1>5, AtLabel, CallShape DEF AcquirePush, At, Inside, Labels
    <3> QED BY <3>1 DEF Call, Calls
  <2>2. << Call("dial", ent[t], Cur(t).who, None) >> \in Seq(Calls)
    BY <2>1
  <2>3. Advances(t)
    BY <1>5, <2>2 DEF AcquirePush, Advances
  <2> QED BY <1>1, <2>3, AdvanceDoom
<1>6. CASE Attach(t) /\ Cur(t).op = "borrow"
  <2>1. Call("dial", Cur(t).who, Cur(t).arg, ent[t]) \in Calls
    <3>1. ent[t] \in Conns /\ Cur(t).who \in Conns /\ Cur(t).arg \in Users
      BY <1>1, <1>2, <1>6, AtLabel, CallShape DEF Attach, AtCall, Inside, Labels
    <3> QED BY <3>1 DEF Call, Calls
  <2>2. << Call("dial", Cur(t).who, Cur(t).arg, ent[t]) >> \in Seq(Calls)
    BY <2>1
  <2>3. Advances(t)
    BY <1>6, <2>2 DEF Attach, Advances
  <2> QED BY <1>1, <2>3, AdvanceDoom
<1>7. CASE DialReaches(t) \/ DialFails(t)
  <2> DEFINE c == Cur(t).conn
             u == Cur(t).who
             p == Cur(t).arg
  <2>1. c \in Conns /\ u \in Users /\ p \in Conns \cup {None}
    BY <1>2, <1>7, CallShape DEF DialReaches, DialFails, AtCall
  <2>2. CASE DialReaches(t)
    <3> DEFINE a == IF p = None
                      THEN << Call("disown", c, None, None), Mark(c, "Active") >>
                      ELSE << Call("adopt", c, u, p), Call("activate", c, u, p) >>
    <3>1. Continue(t, a \o Rest(t))
      BY <2>2 DEF DialReaches
    <3>2. a \in Seq(Calls)
      <4>1. /\ Call("disown", c, None, None) \in Calls /\ Mark(c, "Active") \in Calls
            /\ p # None => Call("adopt", c, u, p) \in Calls /\ Call("activate", c, u, p) \in Calls
        BY <2>1, UnaryCall, MarkCall DEF States, Call, Calls
      <4> QED BY <4>1
    <3> HIDE DEF a
    <3> QED BY <1>1, <3>1, <3>2, AdvanceDoom DEF Advances
  <2>3. CASE DialFails(t)
    <3> DEFINE b == IF p = None THEN << Release(c, u) >> ELSE Abandon(c, u, p)
    <3>1. Continue(t, << Mark(c, "Error") >> \o b \o Rest(t))
      BY <2>3 DEF DialFails
    <3>2. b \in Seq(Calls) /\ << Mark(c, "Error") >> \in Seq(Calls)
      <4>1. Mark(c, "Error") \in Calls /\ Release(c, u) \in Calls
        BY <2>1, MarkCall, ReleaseCall DEF States
      <4>2. p # None => Abandon(c, u, p) \in Seq(Calls)
        BY <2>1, AbandonCalls
      <4> QED BY <4>1, <4>2
    <3> HIDE DEF b
    <3>3. << Mark(c, "Error") >> \o b \in Seq(Calls)
      BY <3>2
    <3> QED BY <1>1, <3>1, <3>3, AdvanceDoom DEF Advances
  <2> QED BY <1>7, <2>2, <2>3
<1> QED BY <1>3, <1>4, <1>5, <1>6, <1>7 DEF OutOfIds, Attach,
        Acquire, AcquireCancel, AcquirePush, DialReaches, DialFails

(* The operations that let an entry go idle.                                *)
SettleInv ==
  \A t \in Tasks : pc[t] \in {"disarm", "capture", "settle"} =>
                     Cur(t).op \in {"release", "keepOff", "rearm"}

LEMMA OwnershipDoom ==
  ASSUME TypeInv, TodoInv, NEW t \in Tasks, Adopt(t) \/ Disown(t)
  PROVE  KeepsDoom(t)
<1> DEFINE e == entry[ent[t]]
<1>1. pc[t] = "enter" /\ Cur(t).op \in {"adopt", "disown"}
  BY DEF Adopt, Disown, AtCall
<1>2. CASE Finish(t)
  BY <1>1, <1>2, FinishAdvances, AdvanceDoom
<1>3. CASE Adopt(t) /\ \E s : Continue(t, s)
  BY <1>1, <1>3, DropDoom DEF Adopt, AtCall
<1>4. CASE Continue(t, (IF e.parent # None /\ e.parentConsumer # None
                          THEN << Release(e.parent, e.parentConsumer) >>
                          ELSE << >>) \o Rest(t))
  <2> DEFINE a == IF e.parent # None /\ e.parentConsumer # None
                    THEN << Release(e.parent, e.parentConsumer) >> ELSE << >>
  <2>1. a \in Seq(Calls)
    BY <1>1, AtLabel, OwnedPlain DEF Plain, Inside, Labels
  <2>2. Continue(t, a \o Rest(t))
    BY <1>4
  <2> HIDE DEF a
  <2> QED BY <1>1, <2>1, <2>2, AdvanceDoom DEF Advances
<1> QED BY <1>2, <1>3, <1>4 DEF Adopt, Disown

LEMMA DisconnectDoom ==
  ASSUME TypeInv, NEW t \in Tasks, Disconnect(t)
  PROVE  KeepsDoom(t)
<1> DEFINE c == Cur(t).conn
           e == entry[ent[t]]
<1>1. pc[t] = "enter" /\ Cur(t).op = "kill"
  BY DEF Disconnect, AtCall
<1>2. c \in Conns /\ e \in Entry /\ ent[t] \in Conns
  BY <1>1, AtLabel DEF Inside, Labels
<1>3. CASE Finish(t)
  BY <1>1, <1>3, FinishAdvances, AdvanceDoom
<1>4. ASSUME NEW known \in BOOLEAN,
             Continue(t, (IF known /\ e.parent # None THEN << Release(e.parent, c) >> ELSE << >>)
                         \o << Call("clear", ent[t], None, None),
                               Mark(c, "Disconnected"), Retire(c) >> \o Rest(t))
      PROVE  KeepsDoom(t)
  <2> DEFINE a == IF known /\ e.parent # None THEN << Release(e.parent, c) >> ELSE << >>
             b == << Call("clear", ent[t], None, None), Mark(c, "Disconnected"), Retire(c) >>
  <2>1. b \in Seq(Calls)
    <3>1. /\ Call("clear", ent[t], None, None) \in Calls
          /\ Mark(c, "Disconnected") \in Calls /\ Retire(c) \in Calls
      BY <1>2, UnaryCall, MarkCall DEF Retire, States
    <3> QED BY <3>1
  <2>2. a \in Seq(Calls)
    <3>1. e.parent # None => Release(e.parent, c) \in Calls
      BY <1>2, ReleaseCall DEF Entry, Users
    <3> QED BY <3>1
  <2>3. Continue(t, a \o b \o Rest(t))
    BY <1>4
  <2> HIDE DEF a, b
  <2>4. a \o b \in Seq(Calls)
    BY <2>1, <2>2
  <2> QED BY <1>1, <2>3, <2>4, AdvanceDoom DEF Advances
<1> QED BY <1>3, <1>4 DEF Disconnect

LEMMA OtherDoom ==
  ASSUME TypeInv, SettleInv, NEW t \in Tasks,
         \/ ClearPhysical(t) \/ MarkState(t)
         \/ ReleaseDetach(t) \/ ReleaseDecrement(t) \/ ReleaseDecide(t)
         \/ KeepCancel(t) \/ Disarm(t) \/ Capture(t) \/ Settle(t)
         \/ KeepAliveOn(t) \/ KeepAliveOff(t) \/ Rearm(t)
  PROVE  KeepsDoom(t)
<1>1. pc[t] # "free"
  BY DEF ClearPhysical, MarkState, ReleaseDetach, ReleaseDecrement, ReleaseDecide,
     KeepCancel, Disarm, Capture, Settle, KeepAliveOn, KeepAliveOff, Rearm, At, AtCall
<1>2. CASE todo' = todo
  BY <1>2, SameTodoDoom
<1>3. CASE Finish(t) /\ Cur(t).op \notin {"retire", "kill"}
  BY <1>1, <1>3, FinishAdvances, AdvanceDoom
<1>4. CASE ReleaseDecide(t)
  <2>1. Cur(t).op = "release"
    BY <1>1, <1>4, AtLabel DEF ReleaseDecide, At, TaskOK
  <2>2. << Retire(Cur(t).conn) >> \in Seq(Calls)
    <3>1. Retire(Cur(t).conn) \in Calls
      BY <1>1, <2>1, AtLabel, UnaryCall DEF Retire
    <3> QED BY <3>1
  <2>3. todo' = todo \/ Advances(t)
    BY <1>1, <1>4, <2>2, FinishAdvances DEF ReleaseDecide, Goto, Advances
  <2> QED BY <1>1, <2>1, <2>3, SameTodoDoom, AdvanceDoom
<1>5. CASE Settle(t)
  <2>1. Cur(t).op \notin {"retire", "kill"}
    BY <1>5 DEF Settle, At, SettleInv
  <2> QED BY <1>1, <1>5, <2>1, FinishAdvances, AdvanceDoom DEF Settle
<1> QED BY <1>1, <1>2, <1>3, <1>4, <1>5, AtLabel
    DEF ClearPhysical, MarkState, ReleaseDetach, ReleaseDecrement,
        KeepCancel, Disarm, Capture, KeepAliveOn, KeepAliveOff, Rearm,
        At, AtCall, Goto, TaskOK

LEMMA TransportDoom ==
  ASSUME TypeInv, NEW t \in Tasks, TakeTransport(t)
  PROVE  KeepsDoom(t)
BY TransportOnly, SameTodoDoom

LEMMA SettleStays ==
  ASSUME TypeInv, SettleInv, NEW t \in Tasks,
         \A x \in Tasks \ {t} : pc'[x] = pc[x] /\ todo'[x] = todo[x],
         pc'[t] \in {"disarm", "capture", "settle"} =>
           todo'[t] = todo[t] /\ Cur(t).op \in {"release", "keepOff", "rearm"}
  PROVE  SettleInv'
BY DEF SettleInv, Cur

LEMMA StepSettleInv ==
  ASSUME TypeInv, SettleInv, [Next]_vars
  PROVE  SettleInv'
<1>0. TasksOK
  BY DEF TypeInv
<1>1. ASSUME NEW t \in Tasks, NEW s, Continue(t, s) PROVE SettleInv'
  BY <1>0, <1>1, SettleStays DEF Continue, TasksOK
<1>2. ASSUME NEW t \in Tasks, NEW label \in Labels, Goto(t, label),
             label \in {"disarm", "capture", "settle"} => Cur(t).op \in {"release", "keepOff", "rearm"}
      PROVE  SettleInv'
  BY <1>0, <1>2, SettleStays DEF Goto, TasksOK
<1>3. ASSUME NEW t \in Tasks, Step(t) PROVE SettleInv'
  <2>1. CASE LookupId(t) \/ LookupKey(t)
    <3>1. CASE Missing(t)
      BY <1>1, <3>1 DEF Missing, Finish
    <3>2. ASSUME NEW label \in {"byKey", "enter"}, pc' = [pc EXCEPT ![t] = label], todo' = todo
          PROVE  SettleInv'
      BY <1>0, <3>2, SettleStays DEF TasksOK
    <3> QED BY <2>1, <3>1, <3>2 DEF LookupId, LookupKey
  <2>2. CASE Acquire(t)
    BY <1>0, <2>2, SettleStays DEF Acquire, TasksOK
  <2>3. CASE \/ OutOfIds(t) \/ AcquirePush(t) \/ Attach(t) \/ DialReaches(t) \/ DialFails(t)
             \/ ClearPhysical(t) \/ Adopt(t) \/ Disown(t) \/ MarkState(t) \/ Settle(t)
             \/ RetireForget(t) \/ KeepAliveOn(t) \/ Disconnect(t)
    <3>1. \E s : Continue(t, s)
      BY <2>3 DEF OutOfIds, AcquirePush, Attach, DialReaches, DialFails, ClearPhysical,
         Adopt, Disown, MarkState, Settle, RetireForget, KeepAliveOn, Disconnect, Finish
    <3> QED BY <1>1, <3>1
  <2>4. CASE AcquireCancel(t) \/ ReleaseDetach(t) \/ ReleaseDecrement(t) \/ RetireUnlink(t)
    BY <1>2, <2>4 DEF AcquireCancel, ReleaseDetach, ReleaseDecrement, RetireUnlink, Labels
  <2>5. CASE ReleaseDecide(t) \/ KeepCancel(t)
    <3>1. Cur(t).op = "release"
      BY <1>0, <2>5 DEF ReleaseDecide, KeepCancel, At, TasksOK, TaskOK
    <3>2. (\E s : Continue(t, s)) \/ \E label \in Labels : Goto(t, label)
      BY <2>5 DEF ReleaseDecide, KeepCancel, Finish, Labels
    <3> QED BY <1>1, <1>2, <3>1, <3>2
  <2>6. CASE Disarm(t) \/ Capture(t)
    <3>1. Cur(t).op \in {"release", "keepOff", "rearm"}
      BY <2>6 DEF Disarm, Capture, At, SettleInv
    <3> QED BY <1>2, <2>6, <3>1 DEF Disarm, Capture, Labels
  <2>7. CASE RetireEnter(t)
    <3>1. CASE Finish(t)
      BY <1>1, <3>1 DEF Finish
    <3>2. CASE StillRegistered(t)
      <4>1. /\ pc' = [pc EXCEPT ![t] = "unlink"]
            /\ \A x \in Tasks \ {t} : todo'[x] = todo[x]
        BY <1>0, <2>7, <3>2 DEF RetireEnter, TasksOK
      <4> QED BY <1>0, <4>1, SettleStays DEF TasksOK
    <3> QED BY <2>7, <3>1, <3>2 DEF RetireEnter
  <2>8. CASE KeepAliveOff(t)
    <3>1. Cur(t).op = "keepOff"
      BY <2>8 DEF KeepAliveOff, AtCall
    <3>2. Finish(t) \/ Goto(t, "disarm")
      BY <2>8 DEF KeepAliveOff
    <3> QED BY <1>1, <1>2, <3>1, <3>2 DEF Finish, Labels
  <2>9. CASE Rearm(t)
    <3>1. Cur(t).op = "rearm"
      BY <2>9 DEF Rearm, AtCall
    <3>2. Finish(t) \/ (pc' = [pc EXCEPT ![t] = "disarm"] /\ todo' = todo)
      BY <2>9 DEF Rearm
    <3>3. CASE Finish(t)
      BY <1>1, <3>3 DEF Finish
    <3>4. CASE pc' = [pc EXCEPT ![t] = "disarm"] /\ todo' = todo
      BY <1>0, <3>1, <3>4, SettleStays DEF TasksOK
    <3> QED BY <3>2, <3>3, <3>4
  <2>10. CASE TakeTransport(t)
    BY <2>10, TransportOnly DEF SettleInv, Cur
  <2> QED BY <1>3, <2>1, <2>2, <2>3, <2>4, <2>5, <2>6, <2>7, <2>8, <2>9, <2>10 DEF Step
<1>4. ASSUME NEW t \in Workers, StartProgram(t) PROVE SettleInv'
  <2>1. \E s : Continue(t, s)
    BY <1>4 DEF StartProgram, StartNode, StartDedicated, StartOnConnection, StartCall,
       StartSetIdleTimeout, Start
  <2> QED BY <1>1, <2>1 DEF Tasks
<1>5. ASSUME NEW t \in Reapers, NEW c \in Conns, Wake(t, c) PROVE SettleInv'
  <2>1. (\E s : Continue(t, s)) \/ UNCHANGED taskVars
    BY <1>5 DEF Wake
  <2>2. CASE UNCHANGED taskVars
    BY <2>2 DEF SettleInv, Cur, taskVars
  <2> QED BY <1>1, <2>1, <2>2 DEF Tasks
<1>6. CASE UNCHANGED vars
  BY <1>6 DEF SettleInv, Cur, vars
<1> QED BY <1>3, <1>4, <1>5, <1>6 DEF Next

LEMMA RetireDoom ==
  ASSUME TypeInv, IndexInv, NEW t \in Tasks,
         RetireEnter(t) \/ RetireUnlink(t) \/ RetireForget(t)
  PROVE  KeepsDoom(t)
<1>1. pc[t] \in {"enter", "unlink", "forget"} /\ Cur(t).op = "retire"
  BY AtLabel DEF RetireEnter, RetireUnlink, RetireForget, At, AtCall, TaskOK
<1>2. TasksOK /\ Cur(t).conn \in Conns
  BY <1>1, AtLabel
<1>3. CASE RetireUnlink(t)
  BY <1>3, SameTodoDoom DEF RetireUnlink, Goto
<1>4. CASE RetireForget(t)
  <2>1. \A c : Cur(t).conn = c => ~Registered(c)'
    BY <1>2, <1>4 DEF RetireForget, Registered, TypeInv, RegistryOK
  <2> QED BY <1>1, <1>4, <2>1, FinishAdvances, AdvanceDoom DEF RetireForget
<1>5. CASE RetireEnter(t) /\ ~StillRegistered(t)
  <2>1. ~Registered(Cur(t).conn)
    <3>1. entry[Cur(t).conn].key = key[t]
      BY <1>5 DEF RetireEnter, AtCall, IndexInv, IndexTask
    <3>2. byId[Cur(t).conn] # None => byId[Cur(t).conn] = key[t]
      BY <1>2, <3>1 DEF IndexInv
    <3> QED BY <1>5, <3>2 DEF Registered, StillRegistered
  <2>2. \A c : Cur(t).conn = c => ~Registered(c)'
    BY <1>5, <2>1 DEF RetireEnter, Registered, indexVars
  <2> QED BY <1>1, <1>5, <2>2, FinishAdvances, AdvanceDoom DEF RetireEnter
<1>6. CASE RetireEnter(t) /\ StillRegistered(t)
  <2> DEFINE e == entry[ent[t]]
             a == IF e.parent # None /\ e.parentConsumer # None
                    THEN << Release(e.parent, e.parentConsumer) >> ELSE << >>
  <2>1. Cur(t) \in Calls /\ e \in Entry /\ Rest(t) \in Seq(Calls)
    BY <1>1, <1>6, AtLabel DEF RetireEnter, AtCall, Inside, Labels
  <2>2. a \in Seq(Calls)
    BY <2>1, OwnedPlain DEF Plain
  <2>3. todo' = [todo EXCEPT ![t] = << Cur(t) >> \o a \o Rest(t)]
    BY <1>6 DEF RetireEnter
  <2> HIDE DEF a
  <2>4. << Cur(t) >> \in Seq(Calls) /\ << Cur(t) >> \o a \in Seq(Calls)
    BY <2>1, <2>2
  <2>5. Elements(<< Cur(t) >> \o a \o Rest(t)) = {Cur(t)} \cup Elements(a) \cup Elements(Rest(t))
    <3> DEFINE b == << Cur(t) >> \o a
    <3>1. Elements(b) = Elements(<< Cur(t) >>) \cup Elements(a)
      BY <2>2, <2>4, ElementsJoin
    <3>2. Elements(<< Cur(t) >>) = {Cur(t)}
      BY ElementsOne
    <3>3. b \in Seq(Calls)
      BY <2>4
    <3> HIDE DEF b
    <3>4. Elements(b \o Rest(t)) = Elements(b) \cup Elements(Rest(t))
      BY <2>1, <3>3, ElementsJoin
    <3> QED BY <3>1, <3>2, <3>4 DEF b
  <2>6. todo'[t] = << Cur(t) >> \o a \o Rest(t) /\ \A x \in Tasks \ {t} : todo'[x] = todo[x]
    BY <1>2, <2>3 DEF TasksOK
  <2> QED BY <1>1, <2>5, <2>6, ElementsTodo DEF KeepsDoom
<1> QED BY <1>3, <1>4, <1>5, <1>6

(* No step loses a retirement that is due.                                  *)
LEMMA StepDoom ==
  ASSUME TypeInv, IndexInv, TodoInv, SettleInv, [Next]_vars
  PROVE  DoomStays
<1>1. ASSUME NEW t \in Tasks, Step(t) PROVE DoomStays
  BY <1>1, LookupDoom, AcquireDoom, TransportDoom, OtherDoom, OwnershipDoom, DisconnectDoom,
     RetireDoom, KeepsDoomStays DEF Step
<1>2. ASSUME NEW t \in Tasks, pc[t] = "free", NEW s, Continue(t, s) PROVE DoomStays
  <2>1. todo[t] = << >>
    BY <1>2 DEF TodoInv
  <2>2. KeepsDoom(t)
    BY <1>2, <2>1, ElementsNone DEF KeepsDoom, Continue, TypeInv, TasksOK
  <2> QED BY <2>2, KeepsDoomStays
<1>3. CASE todo' = todo
  BY <1>3 DEF DoomStays, Doomed
<1>4. ASSUME NEW t \in Workers, StartProgram(t) PROVE DoomStays
  <2>1. pc[t] = "free" /\ \E s : Continue(t, s)
    BY <1>4 DEF StartProgram, StartNode, StartDedicated, StartOnConnection, StartCall,
       StartSetIdleTimeout, Start
  <2> QED BY <1>2, <2>1 DEF Tasks
<1>5. ASSUME NEW t \in Reapers, NEW c \in Conns, Wake(t, c) PROVE DoomStays
  <2>1. pc[t] = "free" /\ ((\E s : Continue(t, s)) \/ todo' = todo)
    BY <1>5 DEF Wake, taskVars
  <2> QED BY <1>2, <1>3, <2>1 DEF Tasks
<1> QED BY <1>1, <1>3, <1>4, <1>5 DEF Next, vars

-----------------------------------------------------------------------------
(* A dedicated connection.  Whoever brings its count to zero is about to    *)
(* decide on it, and a decision on a count of zero leaves a retirement that *)
(* is due.                                                                  *)

Deciding(c) == \E t \in Tasks : pc[t] = "decide" /\ ent[t] = c

DedicatedInv ==
  /\ \A c \in Conns : entry[c].dedicated => entry[c].key = c
  /\ \A t \in Tasks : pc[t] \in {"enter", "decrement", "decide"} =>
       Born(ent[t]) /\ entry[ent[t]].key = entry[Cur(t).conn].key
  /\ \A c \in Conns : entry[c].dedicated /\ Registered(c) /\ entry[c].refCount = 0 =>
       Doomed(c) \/ Deciding(c)

LEMMA DedicatedInvRetires == TodoInv /\ DedicatedInv /\ TypeInv => DedicatedRetires
<1> SUFFICES ASSUME TodoInv, DedicatedInv, TypeInv, Quiet,
                    NEW c \in Conns, entry[c].dedicated, Registered(c)
             PROVE  entry[c].refCount > 0
  BY DEF DedicatedRetires
<1>1. ~Deciding(c)
  BY DEF Quiet, Deciding
<1>2. ~Doomed(c)
  BY DEF Quiet, Doomed, TodoInv
<1>3. entry[c].refCount \in Nat
  BY DEF TypeInv, RegistryOK, Entry
<1> QED BY <1>1, <1>2, <1>3 DEF DedicatedInv

(* Connections keep their pool key and their kind.                          *)
SameKind == \A c \in Conns : /\ entry'[c].key = entry[c].key
                             /\ entry'[c].dedicated = entry[c].dedicated

(* A connection that was made in this step, and not before, is registered.  *)
NewlyMade(c) ==
  /\ ~Born(c)
  /\ entry'[c].dedicated => entry'[c].key = c /\ entry'[c].refCount = 1
  /\ \A x \in Conns \ {c} : entry'[x] = entry[x]

LEMMA KindKept ==
  ASSUME TypeInv, NEW t \in Tasks, Step(t), ~Acquire(t)
  PROVE  SameKind
<1>0. entry \in [Conns -> Entry]
  BY DEF TypeInv, RegistryOK
<1>a. \A e \in Entry : Cancel(e).key = e.key /\ Cancel(e).dedicated = e.dedicated
  BY DEF Cancel, Entry
<1>1. CASE \/ LookupId(t) \/ LookupKey(t) \/ OutOfIds(t) \/ ReleaseDecide(t)
           \/ TakeTransport(t) \/ RetireUnlink(t) \/ RetireForget(t)
  BY <1>1 DEF LookupId, LookupKey, OutOfIds, TakeTransport, ReleaseDecide, RetireUnlink,
     RetireForget, SameKind
<1>2. CASE AcquireCancel(t) \/ KeepCancel(t) \/ Disarm(t) \/ Rearm(t) \/ Disconnect(t)
  BY <1>0, <1>a, <1>2 DEF AcquireCancel, KeepCancel, Disarm, Rearm, Disconnect, SameKind
<1>3. CASE DialReaches(t) \/ DialFails(t) \/ ClearPhysical(t) \/ MarkState(t)
  BY <1>0, <1>3 DEF DialReaches, DialFails, ClearPhysical, MarkState, Entry, SameKind
<1>4. CASE Adopt(t) \/ Disown(t)
  <2>1. CASE UNCHANGED entry
    BY <2>1 DEF SameKind
  <2>2. ASSUME NEW p, NEW u,
               entry' = [entry EXCEPT ![ent[t]].parent = p, ![ent[t]].parentConsumer = u]
        PROVE  SameKind
    BY <1>0, <2>2 DEF Entry, SameKind
  <2> QED BY <1>4, <2>1, <2>2 DEF Adopt, Disown
<1>5. CASE AcquirePush(t) \/ Attach(t)
  <2>1. \A e \in Entry : \A u : Push(e, u).key = e.key /\ Push(e, u).dedicated = e.dedicated
    BY DEF Push, Entry
  <2>2. \A e \in Entry : \A u : /\ PushAndRevive(e, u).key = e.key
                                /\ PushAndRevive(e, u).dedicated = e.dedicated
    BY DEF Push, PushAndRevive, Entry
  <2> QED BY <1>0, <1>5, <2>1, <2>2 DEF AcquirePush, Attach, SameKind
<1>6. CASE ReleaseDetach(t) \/ ReleaseDecrement(t) \/ Capture(t) \/ KeepAliveOff(t)
  BY <1>0, <1>6 DEF ReleaseDetach, ReleaseDecrement, Capture, KeepAliveOff, Entry, SameKind
<1>7. CASE Settle(t)
  BY <1>0, <1>7 DEF Settle, Entry, SameKind
<1>8. CASE KeepAliveOn(t) \/ RetireEnter(t)
  <2>1. CASE UNCHANGED entry
    BY <2>1 DEF SameKind
  <2>2. CASE entry' = [entry EXCEPT ![ent[t]] = [Cancel(@) EXCEPT !.keepAlive = TRUE]]
    BY <1>0, <2>2 DEF Cancel, Entry, SameKind
  <2>3. CASE entry' = [entry EXCEPT ![ent[t]] =
                         [Cancel(entry[ent[t]]) EXCEPT !.parentConsumer = None]]
    BY <1>0, <2>3 DEF Cancel, Entry, SameKind
  <2> QED BY <1>8, <2>1, <2>2, <2>3 DEF KeepAliveOn, RetireEnter
<1> QED BY <1>1, <1>2, <1>3, <1>4, <1>5, <1>6, <1>7, <1>8 DEF Step

(* Nothing that is there already becomes registered.                        *)
NoneRegisters(S) == \A c \in S : Registered(c)' => Registered(c)

LEMMA RegistersNone ==
  ASSUME TypeInv, NEW t \in Tasks, Step(t), ~Acquire(t)
  PROVE  NoneRegisters(Conns)
<1>1. CASE UNCHANGED indexVars
  BY <1>1 DEF NoneRegisters, Registered, indexVars
<1>2. CASE RetireUnlink(t)
  <2>1. byKey \in [PoolKeys -> Conns \cup {None}] /\ byId' = byId
        /\ byKey' = [byKey EXCEPT ![key[t]] = IF ent[t] = Cur(t).conn THEN None ELSE @]
        /\ byId \in [Conns -> PoolKeys \cup {None}]
    BY <1>2 DEF RetireUnlink, TypeInv, RegistryOK
  <2>2. ASSUME NEW c \in Conns, Registered(c)' PROVE Registered(c)
    <3>1. c # None
      BY RegistryAssumption
    <3>2. byId[c] # None /\ byId[c] \in PoolKeys /\ byKey'[byId[c]] = c
      BY <2>1, <2>2 DEF Registered
    <3>3. byKey'[byId[c]] = byKey[byId[c]]
      BY <2>1, <3>1, <3>2
    <3> QED BY <3>2, <3>3 DEF Registered
  <2> QED BY <2>2 DEF NoneRegisters
<1>3. CASE RetireForget(t)
  <2>1. /\ byKey' = byKey /\ byId' = [byId EXCEPT ![Cur(t).conn] = None]
        /\ byId \in [Conns -> PoolKeys \cup {None}]
    BY <1>3 DEF RetireForget, TypeInv, RegistryOK
  <2> QED BY <2>1 DEF NoneRegisters, Registered
<1> QED BY <1>1, <1>2, <1>3
    DEF Step, LookupId, LookupKey, OutOfIds, AcquireCancel, AcquirePush, Attach,
        TakeTransport, DialReaches, DialFails, ClearPhysical, Adopt, Disown, MarkState, ReleaseDetach,
        ReleaseDecrement, ReleaseDecide, KeepCancel, Disarm, Capture, Settle,
        RetireEnter, KeepAliveOn, KeepAliveOff, Rearm, Disconnect

LEMMA InsertRegisters ==
  ASSUME TypeInv, NEW c \in Conns, NEW k \in PoolKeys, byKey[k] = None,
         byKey' = [byKey EXCEPT ![k] = c], byId' = [byId EXCEPT ![c] = k]
  PROVE  NoneRegisters(Conns \ {c})
<1>1. ASSUME NEW x \in Conns \ {c}, Registered(x)' PROVE Registered(x)
  <2>1. byId'[x] = byId[x] /\ byId[x] # None /\ byId[x] \in PoolKeys /\ byKey'[byId[x]] = x
    BY <1>1 DEF Registered, TypeInv, RegistryOK
  <2>2. byId[x] # k
    BY <2>1 DEF TypeInv, RegistryOK
  <2> QED BY <2>1, <2>2 DEF Registered, TypeInv, RegistryOK
<1> QED BY <1>1 DEF NoneRegisters

(* The tasks that are on an entry are on the one their call names, or on    *)
(* another one with the same pool key.                                      *)
OnEntry(t) == pc[t] \in {"enter", "decrement", "decide"}

EntersByKey(t) ==
  /\ \A x \in Tasks \ {t} : pc'[x] = pc[x] /\ todo'[x] = todo[x] /\ ent'[x] = ent[x]
  /\ OnEntry(t)' => \/ OnEntry(t) /\ todo'[t] = todo[t] /\ ent'[t] = ent[t]
                    \/ /\ LookupKey(t) /\ todo'[t] = todo[t]
                       /\ ent'[t] = byKey[key[t]] /\ byKey[key[t]] # None

LEMMA StepEnters ==
  ASSUME TypeInv, NEW t \in Tasks, Step(t)
  PROVE  EntersByKey(t)
<1>0. TasksOK
  BY DEF TypeInv
<1>1. ASSUME NEW s, Continue(t, s) PROVE EntersByKey(t)
  BY <1>0, <1>1 DEF Continue, TasksOK, EntersByKey, OnEntry
<1>2. ASSUME NEW label \in Labels \ {"enter", "decrement", "decide"}, Goto(t, label)
      PROVE  EntersByKey(t)
  BY <1>0, <1>2 DEF Goto, TasksOK, EntersByKey, OnEntry
<1>3. CASE LookupId(t) \/ LookupKey(t)
  <2>1. CASE Missing(t)
    BY <1>1, <2>1 DEF Missing, Finish
  <2>2. CASE LookupId(t) /\ byId[Cur(t).conn] # None
    BY <1>0, <2>2 DEF LookupId, TasksOK, EntersByKey, OnEntry
  <2>3. CASE LookupKey(t) /\ byKey[key[t]] # None
    BY <1>0, <2>3 DEF LookupKey, TasksOK, EntersByKey, OnEntry
  <2> QED BY <1>3, <2>1, <2>2, <2>3 DEF LookupId, LookupKey
<1>4. CASE Acquire(t)
  BY <1>0, <1>4 DEF Acquire, TasksOK, EntersByKey, OnEntry
<1>5. CASE \/ OutOfIds(t) \/ AcquirePush(t) \/ Attach(t) \/ DialReaches(t) \/ DialFails(t)
           \/ ClearPhysical(t) \/ Adopt(t) \/ Disown(t) \/ MarkState(t) \/ Settle(t)
           \/ RetireForget(t) \/ KeepAliveOn(t) \/ Disconnect(t)
  <2>1. \E s : Continue(t, s)
    BY <1>5 DEF OutOfIds, AcquirePush, Attach, DialReaches, DialFails, ClearPhysical,
       Adopt, Disown, MarkState, Settle, RetireForget, KeepAliveOn, Disconnect, Finish
  <2> QED BY <1>1, <2>1
<1>6. CASE \/ AcquireCancel(t) \/ RetireUnlink(t) \/ ReleaseDecide(t) \/ KeepCancel(t)
           \/ Disarm(t) \/ Capture(t) \/ KeepAliveOff(t)
  <2>1. \/ \E s : Continue(t, s)
        \/ \E label \in Labels \ {"enter", "decrement", "decide"} : Goto(t, label)
    BY <1>6 DEF AcquireCancel, RetireUnlink, ReleaseDecide, KeepCancel, Disarm, Capture,
       KeepAliveOff, Finish, Labels
  <2> QED BY <1>1, <1>2, <2>1
<1>7. CASE ReleaseDetach(t) \/ ReleaseDecrement(t)
  <2>1. OnEntry(t) /\ \E label : Goto(t, label)
    BY <1>7 DEF ReleaseDetach, ReleaseDecrement, At, AtCall, OnEntry
  <2> QED BY <1>0, <2>1 DEF Goto, TasksOK, EntersByKey
<1>8. CASE RetireEnter(t)
  <2>1. CASE Finish(t)
    BY <1>1, <2>1 DEF Finish
  <2>2. CASE StillRegistered(t)
    BY <1>0, <1>8, <2>2 DEF RetireEnter, TasksOK, EntersByKey, OnEntry
  <2> QED BY <1>8, <2>1, <2>2 DEF RetireEnter
<1>9. CASE Rearm(t)
  <2>1. CASE Finish(t)
    BY <1>1, <2>1 DEF Finish
  <2>2. CASE ~Finish(t)
    BY <1>0, <1>9, <2>2 DEF Rearm, TasksOK, EntersByKey, OnEntry
  <2> QED BY <2>1, <2>2
<1>10. CASE TakeTransport(t)
  BY <1>10, TransportOnly DEF EntersByKey, OnEntry
<1> QED BY <1>3, <1>4, <1>5, <1>6, <1>7, <1>8, <1>9, <1>10 DEF Step

(* Only a release brings a count to zero, and it decides next; only what is *)
(* decided with a count of zero is left, and then a retirement is due.      *)
CountsDown(t) ==
  /\ \A c \in Conns : entry'[c].refCount = 0 =>
       \/ entry[c].refCount = 0
       \/ pc'[t] = "decide" /\ ent'[t] = c
  /\ pc[t] = "decide" =>
       \/ entry'[ent[t]].refCount # 0
       \/ ~entry[ent[t]].dedicated
       \/ \E i \in 1 .. Len(todo'[t]) : todo'[t][i] = Retire(Cur(t).conn)

LEMMA StepCountsDown ==
  ASSUME TypeInv, NEW t \in Tasks, Step(t), ~Acquire(t)
  PROVE  CountsDown(t)
<1>0. entry \in [Conns -> Entry] /\ TasksOK
  BY DEF TypeInv, RegistryOK
<1>a. \A e \in Entry : Cancel(e).refCount = e.refCount
  BY DEF Cancel, Entry
<1>1. CASE \/ LookupId(t) \/ LookupKey(t) \/ OutOfIds(t) \/ TakeTransport(t)
           \/ RetireUnlink(t) \/ RetireForget(t)
  BY <1>1 DEF LookupId, LookupKey, OutOfIds, TakeTransport, RetireUnlink, RetireForget,
     CountsDown, At, AtCall
<1>2. CASE AcquireCancel(t) \/ KeepCancel(t) \/ Disarm(t) \/ Rearm(t) \/ Disconnect(t)
  BY <1>0, <1>a, <1>2 DEF AcquireCancel, KeepCancel, Disarm, Rearm, Disconnect, CountsDown,
     At, AtCall
<1>3. CASE DialReaches(t) \/ DialFails(t) \/ ClearPhysical(t) \/ MarkState(t)
  BY <1>0, <1>3 DEF DialReaches, DialFails, ClearPhysical, MarkState, Entry, CountsDown, AtCall
<1>4. CASE Adopt(t) \/ Disown(t)
  <2>0. pc[t] # "decide"
    BY <1>4 DEF Adopt, Disown, AtCall
  <2>1. CASE UNCHANGED entry
    BY <2>0, <2>1 DEF CountsDown
  <2>2. ASSUME NEW p, NEW u,
               entry' = [entry EXCEPT ![ent[t]].parent = p, ![ent[t]].parentConsumer = u]
        PROVE  CountsDown(t)
    BY <1>0, <2>0, <2>2 DEF Entry, CountsDown
  <2> QED BY <1>4, <2>1, <2>2 DEF Adopt, Disown
<1>5. CASE AcquirePush(t) \/ Attach(t)
  <2>0. pc[t] # "decide"
    BY <1>5 DEF AcquirePush, Attach, At, AtCall
  <2>1. \A e \in Entry : \A u : Push(e, u).refCount = 0 => e.refCount = 0
    BY DEF Push, Entry
  <2>2. \A e \in Entry : \A u : PushAndRevive(e, u).refCount = 0 => e.refCount = 0
    BY PushJoins DEF Entry
  <2> QED BY <1>0, <1>5, <2>0, <2>1, <2>2 DEF AcquirePush, Attach, CountsDown
<1>6. CASE ReleaseDetach(t) \/ Capture(t) \/ KeepAliveOff(t)
  BY <1>0, <1>6 DEF ReleaseDetach, Capture, KeepAliveOff, Entry, CountsDown, At, AtCall
<1>7. CASE Settle(t)
  BY <1>0, <1>7 DEF Settle, Entry, CountsDown, At
<1>8. CASE KeepAliveOn(t) \/ RetireEnter(t)
  <2>0. pc[t] # "decide"
    BY <1>8 DEF KeepAliveOn, RetireEnter, AtCall
  <2>1. CASE UNCHANGED entry
    BY <2>0, <2>1 DEF CountsDown
  <2>2. CASE entry' = [entry EXCEPT ![ent[t]] = [Cancel(@) EXCEPT !.keepAlive = TRUE]]
    BY <1>0, <2>0, <2>2 DEF Cancel, Entry, CountsDown
  <2>3. CASE entry' = [entry EXCEPT ![ent[t]] =
                         [Cancel(entry[ent[t]]) EXCEPT !.parentConsumer = None]]
    BY <1>0, <2>0, <2>3 DEF Cancel, Entry, CountsDown
  <2> QED BY <1>8, <2>1, <2>2, <2>3 DEF KeepAliveOn, RetireEnter
<1>9. CASE ReleaseDecrement(t)
  <2>1. pc[t] = "decrement" /\ pc' = [pc EXCEPT ![t] = "decide"] /\ ent' = ent
    BY <1>9 DEF ReleaseDecrement, At, Goto
  <2>2. \A c \in Conns \ {ent[t]} : entry'[c] = entry[c]
    BY <1>0, <1>9 DEF ReleaseDecrement
  <2> QED BY <1>0, <2>1, <2>2 DEF CountsDown, TasksOK
<1>10. CASE ReleaseDecide(t)
  <2>1. entry' = entry /\ pc[t] = "decide"
    BY <1>10 DEF ReleaseDecide, At
  <2>2. CASE entry[ent[t]].refCount # 0 \/ ~entry[ent[t]].dedicated
    BY <2>1, <2>2 DEF CountsDown
  <2>3. CASE Continue(t, << Retire(Cur(t).conn) >> \o Rest(t))
    <3>1. Cur(t).op = "release"
      BY <1>0, <2>1 DEF TasksOK, TaskOK
    <3>2. Rest(t) \in Seq(Calls) /\ Retire(Cur(t).conn) \in Calls
      BY <2>1, <3>1, AtLabel, UnaryCall DEF Retire
    <3> DEFINE m == Retire(Cur(t).conn)
               r == Rest(t)
    <3>3. todo'[t] = << m >> \o r
      BY <1>0, <2>3 DEF Continue, TasksOK
    <3> HIDE DEF m, r
    <3>4. Len(<< m >> \o r) = 1 + Len(r) /\ (<< m >> \o r)[1] = m /\ Len(r) \in Nat
      BY <3>2 DEF m, r
    <3>5. \E i \in 1 .. Len(todo'[t]) : todo'[t][i] = m
      BY <3>3, <3>4
    <3> QED BY <2>1, <3>5 DEF CountsDown, m
  <2> QED BY <1>10, <2>2, <2>3 DEF ReleaseDecide
<1> QED BY <1>1, <1>2, <1>3, <1>4, <1>5, <1>6, <1>7, <1>8, <1>9, <1>10 DEF Step

(* A task that is on an entry with a key of its own is on the one its call  *)
(* names.                                                                   *)
LEMMA OnEntryCall ==
  ASSUME TypeInv, NEW t \in Tasks, OnEntry(t)
  PROVE  ent[t] \in Conns /\ Cur(t).conn \in Conns
<1>1. TaskOK(t) /\ pc[t] \in Inside
  BY DEF TypeInv, TasksOK, OnEntry, Inside, Labels
<1>2. Cur(t).op \in LookupOps
  BY <1>1 DEF TaskOK, OnEntry, LookupOps
<1>3. Cur(t) \in Calls
  BY <1>1, AtLabel DEF OnEntry
<1> QED BY <1>1, <1>2, <1>3, CallShape DEF TaskOK, LookupOps

LEMMA OnDedicated ==
  ASSUME TypeInv, IndexInv, DedicatedInv, NEW t \in Tasks, OnEntry(t),
         entry[ent[t]].key \in Conns \/ entry[Cur(t).conn].key \in Conns
  PROVE  ent[t] = Cur(t).conn
<1>1. ent[t] \in Conns /\ Cur(t).conn \in Conns
  BY OnEntryCall
<1>2. entry[ent[t]].key = entry[Cur(t).conn].key
  BY DEF DedicatedInv, OnEntry
<1> QED BY <1>1, <1>2 DEF IndexInv

(* Keeping the invariant.                                                   *)
LEMMA DedicatedTask ==
  ASSUME TypeInv, IndexInv, DedicatedInv, NEW t \in Tasks, EntersByKey(t), SameKind
  PROVE  \A x \in Tasks : OnEntry(x)' =>
           Born(ent[x])' /\ entry'[ent'[x]].key = entry'[Cur(x)'.conn].key
<1>1. ASSUME NEW x \in Tasks, OnEntry(x)', OnEntry(x), todo'[x] = todo[x], ent'[x] = ent[x]
      PROVE  Born(ent[x])' /\ entry'[ent'[x]].key = entry'[Cur(x)'.conn].key
  <2>1. /\ Born(ent[x]) /\ entry[ent[x]].key = entry[Cur(x).conn].key
        /\ ent[x] \in Conns /\ Cur(x).conn \in Conns
    BY <1>1, OnEntryCall DEF DedicatedInv, OnEntry
  <2>2. /\ entry'[ent[x]].key = entry[ent[x]].key
        /\ entry'[Cur(x).conn].key = entry[Cur(x).conn].key
    BY <2>1 DEF SameKind
  <2> QED BY <1>1, <2>1, <2>2 DEF Born, Cur
<1>2. ASSUME LookupKey(t), todo'[t] = todo[t], ent'[t] = byKey[key[t]], byKey[key[t]] # None
      PROVE  Born(ent[t])' /\ entry'[ent'[t]].key = entry'[Cur(t)'.conn].key
  <2> DEFINE c == byKey[key[t]]
             d == Cur(t).conn
  <2>1. pc[t] = "byKey" /\ key[t] \in PoolKeys /\ Cur(t).op \in LookupOps
    BY <1>2, AtLabel DEF LookupKey, At, TaskOK
  <2>2. c \in Conns /\ Born(c) /\ entry[c].key = key[t]
    BY <1>2, <2>1, RegisteredBorn
  <2>3. d \in Conns /\ entry[d].key = key[t]
    BY <2>1, AtLabel DEF IndexInv, IndexTask, LookupOps
  <2>5. /\ entry'[c].key = entry[c].key /\ entry'[d].key = entry[d].key
        /\ entry'[ent'[t]].key = entry[c].key
    BY <1>2, <2>2, <2>3 DEF SameKind
  <2>6. Cur(t)'.conn = d
    BY <1>2 DEF Cur
  <2> QED BY <1>2, <2>2, <2>3, <2>5, <2>6 DEF Born
<1> QED BY <1>1, <1>2 DEF EntersByKey, OnEntry

LEMMA StepDedicated ==
  ASSUME TypeInv, IndexInv, DedicatedInv, DoomStays, NEW t \in Tasks, Step(t), ~Acquire(t)
  PROVE  DedicatedInv'
<1>1. SameKind /\ NoneRegisters(Conns) /\ EntersByKey(t) /\ CountsDown(t)
  BY KindKept, RegistersNone, StepEnters, StepCountsDown
<1>2. \A c \in Conns : entry'[c].dedicated => entry'[c].key = c
  BY <1>1 DEF DedicatedInv, SameKind
<1>3. ASSUME NEW c \in Conns, entry'[c].dedicated, Registered(c)', entry'[c].refCount = 0
      PROVE  Doomed(c)' \/ Deciding(c)'
  <2>1. entry[c].dedicated /\ Registered(c)
    BY <1>1, <1>3 DEF SameKind, NoneRegisters
  <2>2. CASE pc'[t] = "decide" /\ ent'[t] = c
    BY <2>2 DEF Deciding
  <2>3. CASE entry[c].refCount = 0
    <3>1. CASE Doomed(c)
      BY <1>3, <3>1 DEF DoomStays
    <3>2. ASSUME NEW x \in Tasks, pc[x] = "decide", ent[x] = c PROVE Doomed(c)' \/ Deciding(c)'
      <4>1. CASE x # t
        BY <1>1, <3>2, <4>1 DEF EntersByKey, Deciding
      <4>2. CASE x = t
        <5>0. OnEntry(t) /\ entry[ent[t]].key \in Conns
          BY <2>1, <3>2, <4>2 DEF OnEntry, DedicatedInv
        <5>1. Cur(t).conn = c
          BY <3>2, <4>2, <5>0, OnDedicated
        <5>2. PICK i \in 1 .. Len(todo'[t]) : todo'[t][i] = Retire(Cur(t).conn)
          BY <1>1, <1>3, <2>1, <3>2, <4>2 DEF CountsDown
        <5>3. todo'[t][i].op = "retire" /\ todo'[t][i].conn = c
          BY <5>1, <5>2 DEF Retire, Call
        <5> QED BY <5>3 DEF Doomed
      <4> QED BY <4>1, <4>2
    <3> QED BY <2>1, <2>3, <3>1, <3>2 DEF DedicatedInv, Deciding
  <2> QED BY <1>1, <1>3, <2>2, <2>3 DEF CountsDown
<1>4. \A x \in Tasks : OnEntry(x)' =>
           Born(ent[x])' /\ entry'[ent'[x]].key = entry'[Cur(x)'.conn].key
  BY <1>1, DedicatedTask
<1> QED BY <1>2, <1>3, <1>4 DEF DedicatedInv, OnEntry

(* A new connection is not dedicated, or it has a consumer.                 *)
LEMMA BornDedicated ==
  ASSUME TypeInv, IndexInv, DedicatedInv, DoomStays, NEW t \in Tasks,
         NEW c \in Conns, NewlyMade(c), NoneRegisters(Conns \ {c}),
         \A x \in Tasks \ {t} : pc'[x] = pc[x] /\ todo'[x] = todo[x] /\ ent'[x] = ent[x],
         pc[t] # "decide", ~OnEntry(t)'
  PROVE  DedicatedInv'
<1>1. \A x \in Conns : entry'[x].dedicated => entry'[x].key = x
  BY DEF DedicatedInv, NewlyMade
<1>2. ASSUME NEW x \in Tasks, OnEntry(x)'
      PROVE  Born(ent[x])' /\ entry'[ent'[x]].key = entry'[Cur(x)'.conn].key
  <2>1. x # t /\ OnEntry(x) /\ todo'[x] = todo[x] /\ ent'[x] = ent[x]
    BY <1>2 DEF OnEntry
  <2>2. /\ Born(ent[x]) /\ entry[ent[x]].key = entry[Cur(x).conn].key
        /\ ent[x] \in Conns /\ Cur(x).conn \in Conns
    BY <2>1, OnEntryCall DEF DedicatedInv, OnEntry
  <2>3. entry'[ent[x]] = entry[ent[x]] /\ entry'[Cur(x).conn] = entry[Cur(x).conn]
    BY <2>2 DEF NewlyMade, Born
  <2> QED BY <2>1, <2>2, <2>3 DEF Born, Cur
<1>3. ASSUME NEW x \in Conns, entry'[x].dedicated, Registered(x)', entry'[x].refCount = 0
      PROVE  Doomed(x)' \/ Deciding(x)'
  <2>1. x # c /\ entry'[x] = entry[x] /\ Registered(x)
    BY <1>3 DEF NewlyMade, NoneRegisters
  <2>2. Doomed(x) \/ Deciding(x)
    BY <1>3, <2>1 DEF DedicatedInv
  <2>3. Doomed(x) => Doomed(x)'
    BY <1>3 DEF DoomStays
  <2>4. Deciding(x) => Deciding(x)'
    BY DEF Deciding
  <2> QED BY <2>2, <2>3, <2>4
<1> QED BY <1>1, <1>2, <1>3 DEF DedicatedInv, OnEntry

LEMMA MakingDedicated ==
  ASSUME TypeInv, IndexInv, DedicatedInv, DoomStays, NEW t \in Tasks
  PROVE  /\ Acquire(t) => DedicatedInv'
         /\ \A c \in Conns, u \in Consumers, p \in Conns \cup {None} :
              StartDedicated(t, c, u, p) => DedicatedInv'
<1>0. entry \in [Conns -> Entry] /\ TasksOK /\ poolTimeout \in BOOLEAN
  BY DEF TypeInv, RegistryOK
<1>1. ASSUME Acquire(t) PROVE DedicatedInv'
  <2> DEFINE k == Cur(t).arg
  <2>1. /\ pc[t] = "start" /\ k \in PoolKeys /\ pc' = [pc EXCEPT ![t] = "cancel"] /\ todo' = todo
    BY <1>1, AtLabel, CallShape DEF Acquire, AtCall, PoolKeys
  <2>2. \A x \in Tasks \ {t} : pc'[x] = pc[x] /\ todo'[x] = todo[x] /\ ent'[x] = ent[x]
    BY <1>0, <1>1, <2>1 DEF Acquire, TasksOK
  <2>3. pc[t] # "decide" /\ ~OnEntry(t)'
    BY <1>0, <2>1 DEF OnEntry, TasksOK
  <2>4. ASSUME NEW c \in Conns, ~Born(c), byKey[k] = None,
               byKey' = [byKey EXCEPT ![k] = c], byId' = [byId EXCEPT ![c] = k],
               entry' = [entry EXCEPT ![c] = NewEntry(k, FALSE, poolTimeout)]
        PROVE  DedicatedInv'
    <3>1. NewlyMade(c)
      BY <1>0, <2>4 DEF NewlyMade, NewEntry
    <3>2. NoneRegisters(Conns \ {c})
      BY <2>1, <2>4, InsertRegisters
    <3> QED BY <2>2, <2>3, <3>1, <3>2, BornDedicated
  <2>5. CASE UNCHANGED <<indexVars, entry>>
    <3>1. SameKind /\ EntersByKey(t)
      BY <1>1, <2>5, StepEnters DEF SameKind, Step
    <3>2. \A c : Registered(c)' => Registered(c)
      BY <2>5 DEF Registered, indexVars
    <3>3. \A x \in Tasks : OnEntry(x)' =>
             Born(ent[x])' /\ entry'[ent'[x]].key = entry'[Cur(x)'.conn].key
      BY <3>1, DedicatedTask
    <3>4. \A c : Deciding(c) => Deciding(c)'
      BY <2>2, <2>3 DEF Deciding
    <3>5. \A c \in Conns : entry'[c].dedicated => entry'[c].key = c
      BY <3>1 DEF SameKind, DedicatedInv
    <3>6. ASSUME NEW c \in Conns, entry'[c].dedicated, Registered(c)', entry'[c].refCount = 0
          PROVE  Doomed(c)' \/ Deciding(c)'
      BY <2>5, <3>2, <3>4, <3>6 DEF DedicatedInv, DoomStays
    <3> QED BY <3>3, <3>5, <3>6 DEF DedicatedInv, OnEntry
  <2> QED BY <1>1, <2>4, <2>5 DEF Acquire
<1>2. ASSUME NEW c \in Conns, NEW u \in Consumers, NEW p \in Conns \cup {None},
             StartDedicated(t, c, u, p)
      PROVE  DedicatedInv'
  <2>1. /\ ~Born(c)
        /\ byKey' = [byKey EXCEPT ![c] = c] /\ byId' = [byId EXCEPT ![c] = c]
        /\ entry' = [entry EXCEPT ![c] = Push(NewEntry(c, TRUE, poolTimeout), u)]
    BY <1>2 DEF StartDedicated, OpenDedicated
  <2>2. c \in PoolKeys /\ byKey[c] = None
    <3>1. c \in PoolKeys
      BY DEF PoolKeys
    <3>2. ASSUME byKey[c] # None PROVE FALSE
      <4>1. byKey[c] \in Conns /\ Born(byKey[c]) /\ entry[byKey[c]].key = c
        BY <3>1, <3>2, RegisteredBorn
      <4>2. byKey[c] = c
        BY <4>1 DEF IndexInv
      <4> QED BY <2>1, <4>1, <4>2
    <3> QED BY <3>1, <3>2
  <2>3. PICK m : pc[t] = "free" /\ Continue(t, << m >>)
    BY <1>2 DEF StartDedicated, Start
  <2>4. /\ \A x \in Tasks \ {t} : pc'[x] = pc[x] /\ todo'[x] = todo[x] /\ ent'[x] = ent[x]
        /\ pc'[t] \in {"free", "start"}
    BY <1>0, <2>3 DEF Continue, TasksOK
  <2>5. NewlyMade(c)
    BY <1>0, <2>1 DEF NewlyMade, NewEntry, Push
  <2>6. NoneRegisters(Conns \ {c})
    BY <2>1, <2>2, InsertRegisters
  <2>7. pc[t] # "decide" /\ ~OnEntry(t)'
    BY <2>3, <2>4 DEF OnEntry
  <2> QED BY <2>4, <2>5, <2>6, <2>7, BornDedicated
<1> QED BY <1>1, <1>2

(* A step that starts something and makes no connection.                    *)
LEMMA QuietDedicated ==
  ASSUME TypeInv, IndexInv, DedicatedInv, DoomStays, NEW t \in Tasks,
         (pc[t] = "free" /\ \E s : Continue(t, s)) \/ UNCHANGED taskVars,
         SameKind, \A c \in Conns : entry'[c].refCount = entry[c].refCount,
         UNCHANGED indexVars
  PROVE  DedicatedInv'
<1>1. \A x \in Tasks : OnEntry(x)' => OnEntry(x) /\ todo'[x] = todo[x] /\ ent'[x] = ent[x]
  BY DEF OnEntry, Continue, taskVars, TypeInv, TasksOK
<1>2. \A x \in Tasks : pc[x] = "decide" => pc'[x] = "decide" /\ ent'[x] = ent[x]
  BY DEF Continue, taskVars, TypeInv, TasksOK
<1>3. ASSUME NEW x \in Tasks, OnEntry(x)'
      PROVE  Born(ent[x])' /\ entry'[ent'[x]].key = entry'[Cur(x)'.conn].key
  <2>1. /\ Born(ent[x]) /\ entry[ent[x]].key = entry[Cur(x).conn].key
        /\ ent[x] \in Conns /\ Cur(x).conn \in Conns
    BY <1>1, <1>3, OnEntryCall DEF DedicatedInv, OnEntry
  <2>2. /\ entry'[ent[x]].key = entry[ent[x]].key
        /\ entry'[Cur(x).conn].key = entry[Cur(x).conn].key
    BY <2>1 DEF SameKind
  <2> QED BY <1>1, <1>3, <2>1, <2>2 DEF Born, Cur
<1>4. \A c : (Deciding(c) => Deciding(c)') /\ (Registered(c)' => Registered(c))
  BY <1>2 DEF Deciding, Registered, indexVars
<1>5. \A c \in Conns : entry'[c].dedicated => entry'[c].key = c
  BY DEF SameKind, DedicatedInv
<1>6. ASSUME NEW c \in Conns, entry'[c].dedicated, Registered(c)', entry'[c].refCount = 0
      PROVE  Doomed(c)' \/ Deciding(c)'
  BY <1>4, <1>6 DEF DedicatedInv, DoomStays, SameKind
<1> QED BY <1>3, <1>5, <1>6 DEF DedicatedInv, OnEntry

LEMMA StepDedicatedInv ==
  ASSUME TypeInv, IndexInv, TodoInv, SettleInv, DedicatedInv, [Next]_vars
  PROVE  DedicatedInv'
<1>1. DoomStays
  BY StepDoom
<1>2. ASSUME NEW t \in Tasks, Step(t) PROVE DedicatedInv'
  BY <1>1, <1>2, StepDedicated, MakingDedicated
<1>3. ASSUME NEW t \in Workers, StartProgram(t) PROVE DedicatedInv'
  <2>1. t \in Tasks
    BY DEF Tasks
  <2>2. CASE \E c \in Conns, u \in Consumers, p \in Conns \cup {None} : StartDedicated(t, c, u, p)
    BY <1>1, <2>1, <2>2, MakingDedicated
  <2>3. CASE ~\E c \in Conns, u \in Consumers, p \in Conns \cup {None} : StartDedicated(t, c, u, p)
    <3>1. /\ pc[t] = "free" /\ \E s : Continue(t, s)
          /\ UNCHANGED <<indexVars, entry>>
      BY <1>3, <2>3 DEF StartProgram, StartNode, StartOnConnection, StartCall,
         StartSetIdleTimeout, Start
    <3> QED BY <1>1, <2>1, <3>1, QuietDedicated DEF SameKind
  <2> QED BY <2>2, <2>3
<1>4. ASSUME NEW t \in Reapers, NEW c \in Conns, Wake(t, c) PROVE DedicatedInv'
  <2>1. t \in Tasks /\ entry \in [Conns -> Entry]
    BY DEF Tasks, TypeInv, RegistryOK
  <2>2. SameKind /\ \A x \in Conns : entry'[x].refCount = entry[x].refCount
    BY <1>4, <2>1 DEF Wake, SameKind, Entry
  <2>3. /\ (pc[t] = "free" /\ \E s : Continue(t, s)) \/ UNCHANGED taskVars
        /\ UNCHANGED indexVars
    BY <1>4 DEF Wake
  <2> QED BY <1>1, <2>1, <2>2, <2>3, QuietDedicated
<1>5. CASE UNCHANGED vars
  BY <1>5 DEF DedicatedInv, Born, Registered, Doomed, Deciding, Cur, vars
<1> QED BY <1>2, <1>3, <1>4, <1>5 DEF Next

LEMMA InitDedicatedInv == Init => DedicatedInv
BY DEF Init, DedicatedInv, NewEntry

LEMMA InitSettleInv == Init => SettleInv
BY DEF Init, SettleInv

(* A dedicated connection never outlives its last consumer: the release     *)
(* that leaves its count at zero, or the setting that is applied then,      *)
(* retires it, whichever of them comes last.                                *)
THEOREM DedicatedAlwaysRetires == Spec => []DedicatedRetires
<1>1. Spec => []TodoInv
  BY InitTodoInv, StepTodoInv, TypeInvariant, PTL DEF Spec
<1>2. Spec => []SettleInv
  BY InitSettleInv, StepSettleInv, TypeInvariant, PTL DEF Spec
<1>3. Spec => []DedicatedInv
  BY <1>1, <1>2, InitDedicatedInv, StepDedicatedInv, TypeInvariant, IndexInvariant, PTL DEF Spec
<1> QED BY <1>1, <1>3, TypeInvariant, DedicatedInvRetires, PTL

-----------------------------------------------------------------------------
(* The ancestor of a tunnel.  Of the calls that a task has before it, those *)
(* on the way to a child's connection concern the child, and so do the      *)
(* releases of its ancestor consumer.                                       *)

(* The calls whose effect is still to come.                                 *)
Waits(t) == IF pc[t] \in {"free", "start", "byKey", "enter"}
              THEN Elements(todo[t]) ELSE Elements(Rest(t))

Tunnelling(m, c) ==
  \/ m.op = "borrow" /\ m.who = c
  \/ m.op = "dial" /\ m.conn = c /\ m.arg # None
  \/ m.op \in {"adopt", "activate"} /\ m.conn = c

Returning(m, c) == m.op = "release" /\ m.who = c

Concerns(m, c) == Tunnelling(m, c) \/ Returning(m, c)

Tunnels(t, c)  == \E m \in Waits(t) : Tunnelling(m, c)
Borrows(t, c)  == \E m \in Waits(t) : m.op = "borrow" /\ m.who = c
Holds(t, p, c) == \E m \in Waits(t) : m.op \in {"dial", "adopt"} /\ m.conn = c /\ m.arg = p
Returns(c)     == \E t \in Tasks : \E m \in Waits(t) : Returning(m, c)
Gives(p, c)    == \E t \in Tasks : Release(p, c) \in Waits(t)

Owns(c, p) == entry[c].parentConsumer = c /\ entry[c].parent = p

(* At most one task makes the connection of a child.  From the borrow on,   *)
(* the parent is referenced on behalf of the child: by the task until it    *)
(* hands over, by the child until somebody releases for it, and then the    *)
(* child owns nothing or is about to be retired.                            *)
TunnelOK(c) ==
  /\ entry[c].parentConsumer \in {c, None}
  /\ entry[c].parentConsumer # None => entry[c].parent # None
  /\ entry[c].parent # None => Born(c)
  /\ \A p \in Conns : c \in entry[p].consumers => Born(c) /\ Born(p)
  /\ \A t \in Tasks : Tunnels(t, c) => entry[c].key = c
  /\ \A t, x \in Tasks : Tunnels(t, c) /\ Tunnels(x, c) => t = x
  /\ \A t \in Tasks : Borrows(t, c) =>
       ~Returns(c) /\ entry[c].parent = None /\ \A p \in Conns : c \notin entry[p].consumers
  /\ \A t \in Tasks, p \in Conns : Holds(t, p, c) =>
       ~Returns(c) /\ entry[c].parent = None /\ c \in entry[p].consumers
  /\ Returns(c) => Born(c) /\ (entry[c].parentConsumer # None => Doomed(c))
  /\ entry[c].parentConsumer # None => c \in entry[entry[c].parent].consumers \/ Doomed(c)
  /\ \A p \in Conns : Registered(p) /\ c \in entry[p].consumers =>
       Owns(c, p) \/ Gives(p, c) \/ \E t \in Tasks : Holds(t, p, c)

TunnelInv == \A c \in Conns : TunnelOK(c)

LEMMA TunnelInvHolds == TunnelInv => TunnelHoldsParent
<1> SUFFICES ASSUME TunnelInv, NEW c \in Conns, entry[c].parentConsumer # None
             PROVE  \/ entry[c].parentConsumer \in entry[entry[c].parent].consumers
                    \/ Doomed(c)
  BY DEF TunnelHoldsParent
<1> QED BY DEF TunnelInv, TunnelOK

LEMMA TunnelInvGives ==
  TypeInv /\ TodoInv /\ OwnInv /\ TunnelInv => NoOrphanedAncestor
<1> SUFFICES ASSUME TypeInv, TodoInv, OwnInv, TunnelInv, Quiet,
                    NEW p \in Conns, NEW c \in Conns, Registered(p), c \in entry[p].consumers
             PROVE  Registered(c) /\ entry[c].parentConsumer = c
  BY DEF NoOrphanedAncestor
<1>1. \A t \in Tasks : Waits(t) = {}
  BY ElementsNone DEF Quiet, Waits, TodoInv
<1>2. Owns(c, p)
  BY <1>1 DEF TunnelInv, TunnelOK, Gives, Holds
<1>3. c # None
  BY RegistryAssumption
<1> QED BY <1>2, <1>3 DEF Owns, OwnInv

-----------------------------------------------------------------------------
(* A connection that a step does not concern.                               *)

SameTunnel(c) ==
  /\ entry'[c].key = entry[c].key
  /\ entry'[c].parentConsumer = entry[c].parentConsumer
  /\ \/ entry'[c].parent = entry[c].parent
     \/ entry[c].parentConsumer = None /\ entry'[c].parent = None
  /\ \A p \in Conns : c \in entry'[p].consumers <=> c \in entry[p].consumers

(* What is being done about c is the same, except that a release on a       *)
(* connection that is no longer registered may have been dropped.           *)
SameCalls(c) ==
  /\ \A x \in Tasks : Tunnels(x, c)' => Tunnels(x, c)
  /\ \A x \in Tasks : Borrows(x, c)' => Borrows(x, c)
  /\ \A x \in Tasks, p \in Conns : Holds(x, p, c)' <=> Holds(x, p, c)
  /\ Returns(c)' => Returns(c)
  /\ \A p \in Conns : Gives(p, c) /\ Registered(p)' => Gives(p, c)'

(* A connection that owns its parent is registered, so that a retirement of *)
(* it that is due stays due.                                                *)
LEMMA OwnerDoomed ==
  ASSUME OwnInv', DoomStays, NEW c \in Conns, entry'[c].parentConsumer # None, Doomed(c)
  PROVE  Doomed(c)'
BY DEF OwnInv, DoomStays

LEMMA QuietTunnel ==
  ASSUME TypeInv, OwnInv', DoomStays, NEW c \in Conns, TunnelOK(c), SameTunnel(c), SameCalls(c),
         \A x \in Conns : Born(x) => entry'[x].key = entry[x].key,
         \A p \in Conns : c \in entry[p].consumers /\ Registered(p)' => Registered(p)
  PROVE  TunnelOK(c)'
<1>0. entry[c].parent \in Conns \cup {None}
  BY DEF TypeInv, RegistryOK, Entry
<1>1. /\ entry'[c].parentConsumer \in {c, None}
      /\ entry'[c].parentConsumer # None => entry'[c].parent # None
      /\ entry'[c].parent # None => Born(c)'
  BY DEF TunnelOK, SameTunnel, Born
<1>2. ASSUME NEW p \in Conns, c \in entry'[p].consumers PROVE Born(c)' /\ Born(p)'
  BY <1>2 DEF TunnelOK, SameTunnel, Born
<1>3. /\ \A t \in Tasks : Tunnels(t, c)' => entry'[c].key = c
      /\ \A t, x \in Tasks : Tunnels(t, c)' /\ Tunnels(x, c)' => t = x
  BY DEF TunnelOK, SameTunnel, SameCalls
<1>4. ASSUME NEW t \in Tasks, Borrows(t, c)'
      PROVE  /\ ~Returns(c)' /\ entry'[c].parent = None
             /\ \A p \in Conns : c \notin entry'[p].consumers
  BY <1>4 DEF TunnelOK, SameTunnel, SameCalls
<1>5. ASSUME NEW t \in Tasks, NEW p \in Conns, Holds(t, p, c)'
      PROVE  ~Returns(c)' /\ entry'[c].parent = None /\ c \in entry'[p].consumers
  BY <1>5 DEF TunnelOK, SameTunnel, SameCalls
<1>6. Returns(c)' => Born(c)' /\ (entry'[c].parentConsumer # None => Doomed(c)')
  BY OwnerDoomed DEF TunnelOK, SameTunnel, SameCalls, Born
<1>7. entry'[c].parentConsumer # None =>
        c \in entry'[entry'[c].parent].consumers \/ Doomed(c)'
  BY <1>0, OwnerDoomed DEF TunnelOK, SameTunnel
<1>8. ASSUME NEW p \in Conns, Registered(p)', c \in entry'[p].consumers
      PROVE  Owns(c, p)' \/ Gives(p, c)' \/ \E t \in Tasks : Holds(t, p, c)'
  <2>1. Registered(p) /\ c \in entry[p].consumers
    BY <1>8 DEF SameTunnel
  <2>2. Owns(c, p) \/ Gives(p, c) \/ \E t \in Tasks : Holds(t, p, c)
    BY <2>1 DEF TunnelOK
  <2>3. Owns(c, p) => Owns(c, p)'
    BY RegistryAssumption DEF Owns, SameTunnel
  <2> QED BY <1>8, <2>2, <2>3 DEF SameCalls
<1> QED BY <1>1, <1>2, <1>3, <1>4, <1>5, <1>6, <1>7, <1>8 DEF TunnelOK

(* The calls of task t that concern c.                                      *)
Spares(t, c) ==
  /\ \A x \in Tasks \ {t} : Waits(x)' = Waits(x)
  /\ \A m \in Waits(t)' : Concerns(m, c) => m \in Waits(t)
  /\ \A m \in Waits(t) : Concerns(m, c) /\ m.op \notin {"borrow", "activate"} =>
       \/ m \in Waits(t)'
       \/ m.op = "release" /\ \A p \in Conns : m.conn = p => ~Registered(p)'

LEMMA SparesCalls ==
  ASSUME NEW t \in Tasks, NEW c \in Conns, Spares(t, c)
  PROVE  SameCalls(c)
<1>0. None \notin Conns
  BY RegistryAssumption
<1>1. ASSUME NEW x \in Tasks, NEW m, Concerns(m, c), m \in Waits(x)' PROVE m \in Waits(x)
  BY <1>1 DEF Spares
<1>2. ASSUME NEW x \in Tasks, NEW m, m \in Waits(x), m.op \in {"dial", "adopt"}, Concerns(m, c)
      PROVE  m \in Waits(x)'
  BY <1>2 DEF Spares
<1>3. ASSUME NEW p \in Conns, Gives(p, c), Registered(p)' PROVE Gives(p, c)'
  <2>1. PICK x \in Tasks : Release(p, c) \in Waits(x)
    BY <1>3 DEF Gives
  <2> DEFINE m == Release(p, c)
  <2>2. m.op = "release" /\ m.who = c /\ m.conn = p
    BY DEF Release, Call
  <2> HIDE DEF m
  <2>3. Concerns(m, c)
    BY <2>2 DEF Concerns, Returning
  <2>4. m \in Waits(x)'
    BY <1>3, <2>1, <2>2, <2>3 DEF Spares, m
  <2> QED BY <2>4 DEF Gives, m
<1>4. \A x \in Tasks : (Tunnels(x, c)' => Tunnels(x, c)) /\ (Borrows(x, c)' => Borrows(x, c))
  BY <1>1 DEF Tunnels, Borrows, Concerns, Tunnelling
<1>5. Returns(c)' => Returns(c)
  BY <1>1 DEF Returns, Concerns
<1>6. ASSUME NEW x \in Tasks, NEW p \in Conns PROVE Holds(x, p, c)' <=> Holds(x, p, c)
  <2>1. \A m : m.op \in {"dial", "adopt"} /\ m.conn = c /\ m.arg = p => Concerns(m, c)
    BY <1>0 DEF Concerns, Tunnelling
  <2> QED BY <1>1, <1>2, <2>1 DEF Holds
<1> QED BY <1>3, <1>4, <1>5, <1>6 DEF SameCalls

-----------------------------------------------------------------------------
(* How a step moves the calls that a task has before it.                    *)

Front == {"start", "byKey", "enter"}

LEMMA WaitsNow ==
  ASSUME TypeInv, NEW t \in Tasks, pc[t] # "free"
  PROVE  /\ \A m \in Elements(Rest(t)) : m \in Waits(t)
         /\ \A m \in Waits(t) : (m = Cur(t) /\ pc[t] \in Front) \/ m \in Elements(Rest(t))
         /\ pc[t] \in Front => Cur(t) \in Waits(t)
BY ElementsTodo DEF Waits, Front

LEMMA WaitsContinue ==
  ASSUME TypeInv, NEW t \in Tasks, NEW s, Continue(t, s)
  PROVE  /\ Waits(t)' = Elements(s)
         /\ \A x \in Tasks \ {t} : Waits(x)' = Waits(x)
<1>1. /\ todo'[t] = s /\ pc'[t] \in {"free", "start"}
      /\ \A x \in Tasks \ {t} : todo'[x] = todo[x] /\ pc'[x] = pc[x]
  BY DEF Continue, TypeInv, TasksOK
<1> QED BY <1>1 DEF Waits, Rest

LEMMA WaitsGoto ==
  ASSUME TypeInv, NEW t \in Tasks, todo' = todo, NEW label, pc' = [pc EXCEPT ![t] = label],
         label # "free", pc[t] # "free"
  PROVE  /\ Waits(t)' = IF label \in Front THEN Elements(todo[t]) ELSE Elements(Rest(t))
         /\ \A x \in Tasks \ {t} : Waits(x)' = Waits(x)
<1>1. pc'[t] = label /\ \A x \in Tasks \ {t} : pc'[x] = pc[x]
  BY DEF TypeInv, TasksOK
<1> QED BY <1>1 DEF Waits, Rest, Front

(* The current call may be over as far as c goes.                           *)
Dropped(t, c) ==
  Concerns(Cur(t), c) /\ pc[t] \in Front =>
    \/ Cur(t).op \in {"borrow", "activate"}
    \/ Cur(t).op = "release" /\ \A p \in Conns : Cur(t).conn = p => ~Registered(p)'

Unconcerned(S, c) == \A m \in S : ~Concerns(m, c)

LEMMA SparesBy ==
  ASSUME TypeInv, NEW t \in Tasks, NEW c, pc[t] # "free", Dropped(t, c),
         NEW A, Unconcerned(A, c), Waits(t)' = A \cup Elements(Rest(t)),
         \A x \in Tasks \ {t} : Waits(x)' = Waits(x)
  PROVE  Spares(t, c)
<1>1. \A m \in Waits(t)' : Concerns(m, c) => m \in Waits(t)
  BY WaitsNow DEF Unconcerned
<1>2. ASSUME NEW m \in Waits(t), Concerns(m, c), m.op \notin {"borrow", "activate"}
      PROVE  \/ m \in Waits(t)'
             \/ m.op = "release" /\ \A p \in Conns : m.conn = p => ~Registered(p)'
  <2>1. CASE m \in Elements(Rest(t))
    BY <2>1
  <2>2. CASE m = Cur(t) /\ pc[t] \in Front
    BY <1>2, <2>2 DEF Dropped
  <2> QED BY <2>1, <2>2, WaitsNow
<1> QED BY <1>1, <1>2 DEF Spares

LEMMA AdvanceSpares ==
  ASSUME TypeInv, NEW t \in Tasks, NEW c, pc[t] # "free", Dropped(t, c),
         NEW a \in Seq(Calls), Unconcerned(Elements(a), c), Continue(t, a \o Rest(t))
  PROVE  Spares(t, c)
<1>1. Rest(t) \in Seq(Calls)
  BY AtLabel
<1>2. Waits(t)' = Elements(a) \cup Elements(Rest(t))
  BY <1>1, WaitsContinue, ElementsJoin
<1> QED BY <1>2, WaitsContinue, SparesBy

LEMMA FinishSpares ==
  ASSUME TypeInv, NEW t \in Tasks, NEW c, pc[t] # "free", Dropped(t, c), Finish(t)
  PROVE  Spares(t, c)
<1>1. Waits(t)' = {} \cup Elements(Rest(t)) /\ \A x \in Tasks \ {t} : Waits(x)' = Waits(x)
  BY WaitsContinue DEF Finish
<1>2. Unconcerned({}, c)
  BY DEF Unconcerned
<1> QED BY <1>1, <1>2, SparesBy

LEMMA GotoSpares ==
  ASSUME TypeInv, NEW t \in Tasks, NEW c, pc[t] # "free", todo' = todo, NEW label,
         pc' = [pc EXCEPT ![t] = label], label # "free",
         \/ pc[t] \in Front /\ label \in Front
         \/ label \notin Front /\ Dropped(t, c)
  PROVE  Spares(t, c)
<1>1. \A x \in Tasks \ {t} : Waits(x)' = Waits(x)
  BY WaitsGoto
<1>2. CASE pc[t] \in Front /\ label \in Front
  <2>1. Waits(t)' = Waits(t)
    BY <1>2, WaitsGoto DEF Waits, Front
  <2> QED BY <1>1, <2>1 DEF Spares
<1>3. CASE label \notin Front /\ Dropped(t, c)
  <2>1. Waits(t)' = {} \cup Elements(Rest(t))
    BY <1>3, WaitsGoto
  <2>2. Unconcerned({}, c)
    BY DEF Unconcerned
  <2> QED BY <1>1, <1>3, <2>1, <2>2, SparesBy
<1> QED BY <1>2, <1>3

LEMMA StartSpares ==
  ASSUME TypeInv, TodoInv, NEW t \in Tasks, NEW c, pc[t] = "free",
         NEW s, Continue(t, s), Unconcerned(Elements(s), c)
  PROVE  Spares(t, c)
<1>1. Waits(t) = {}
  BY ElementsNone DEF Waits, TodoInv
<1>2. Waits(t)' = Elements(s) /\ \A x \in Tasks \ {t} : Waits(x)' = Waits(x)
  BY WaitsContinue
<1> QED BY <1>1, <1>2 DEF Spares, Unconcerned

TunnelOps == {"borrow", "dial", "adopt", "activate", "release"}

LEMMA OpAside ==
  ASSUME NEW m, NEW c, m.op \notin TunnelOps
  PROVE  ~Concerns(m, c)
BY DEF TunnelOps, Concerns, Tunnelling, Returning

LEMMA ReleaseAside ==
  ASSUME NEW c \in Conns, NEW q, NEW u, u # c
  PROVE  ~Concerns(Release(q, u), c)
BY DEF Release, Call, Concerns, Tunnelling, Returning

LEMMA CallAside ==
  ASSUME NEW c \in Conns, NEW op, op \notin TunnelOps, NEW q, NEW u, NEW a
  PROVE  ~Concerns(Call(op, q, u, a), c)
BY DEF Call, TunnelOps, Concerns, Tunnelling, Returning

LEMMA AsideOne ==
  ASSUME NEW c, NEW m, ~Concerns(m, c)
  PROVE  Unconcerned(Elements(<< m >>), c)
BY ElementsOne DEF Unconcerned

LEMMA AsideJoin ==
  ASSUME NEW c, NEW a \in Seq(Calls), NEW b \in Seq(Calls),
         Unconcerned(Elements(a), c), Unconcerned(Elements(b), c)
  PROVE  Unconcerned(Elements(a \o b), c)
BY ElementsJoin DEF Unconcerned

-----------------------------------------------------------------------------
(* What a step leaves alone in the entries.                                 *)

LEMMA TunnelKept ==
  ASSUME TypeInv, NEW t \in Tasks, Step(t), ~Acquire(t), ~AcquirePush(t), ~Attach(t), ~Adopt(t),
         ~Disown(t), ~ReleaseDetach(t), ~RetireEnter(t)
  PROVE  \A c \in Conns : SameTunnel(c)
<1>0. entry \in [Conns -> Entry] /\ SameKind
  BY KindKept DEF TypeInv, RegistryOK
<1> DEFINE Same == \A c \in Conns : /\ entry'[c].parent = entry[c].parent
                                    /\ entry'[c].parentConsumer = entry[c].parentConsumer
                                    /\ entry'[c].consumers = entry[c].consumers
<1> SUFFICES Same
  BY <1>0 DEF SameTunnel, SameKind
<1>a. \A e \in Entry : /\ Cancel(e).parent = e.parent /\ Cancel(e).consumers = e.consumers
                       /\ Cancel(e).parentConsumer = e.parentConsumer
  BY DEF Cancel, Entry
<1>1. CASE \/ LookupId(t) \/ LookupKey(t) \/ OutOfIds(t) \/ TakeTransport(t)
           \/ ReleaseDecide(t) \/ RetireUnlink(t) \/ RetireForget(t)
  BY <1>1 DEF LookupId, LookupKey, OutOfIds, TakeTransport, ReleaseDecide, RetireUnlink,
     RetireForget
<1>2. CASE AcquireCancel(t) \/ KeepCancel(t) \/ Disarm(t) \/ Rearm(t) \/ Disconnect(t)
  BY <1>0, <1>a, <1>2 DEF AcquireCancel, KeepCancel, Disarm, Rearm, Disconnect
<1>3. CASE DialReaches(t) \/ DialFails(t) \/ ClearPhysical(t) \/ MarkState(t)
  BY <1>0, <1>3 DEF DialReaches, DialFails, ClearPhysical, MarkState, Entry
<1>4. CASE ReleaseDecrement(t) \/ Capture(t) \/ KeepAliveOff(t)
  BY <1>0, <1>4 DEF ReleaseDecrement, Capture, KeepAliveOff, Entry
<1>5. CASE Settle(t)
  BY <1>0, <1>5 DEF Settle, Entry
<1>6. CASE KeepAliveOn(t)
  <2>1. entry' = [entry EXCEPT ![ent[t]] = [Cancel(@) EXCEPT !.keepAlive = TRUE]]
    BY <1>6 DEF KeepAliveOn
  <2> QED BY <1>0, <2>1 DEF Cancel, Entry
<1> QED BY <1>1, <1>2, <1>3, <1>4, <1>5, <1>6 DEF Step

(* A consumer that comes or goes concerns no other tunnel.                  *)
LEMMA PushTunnel ==
  ASSUME TypeInv, NEW t \in Tasks, AcquirePush(t) \/ Attach(t) \/ ReleaseDetach(t)
  PROVE  \A c \in Conns : Cur(t).who # c => SameTunnel(c)
<1> DEFINE u == Cur(t).who
           Same == \A p, c \in Conns :
                     /\ entry'[c].parent = entry[c].parent
                     /\ entry'[c].parentConsumer = entry[c].parentConsumer
                     /\ u # c => (c \in entry'[p].consumers <=> c \in entry[p].consumers)
<1>0. entry \in [Conns -> Entry] /\ SameKind
  BY KindKept DEF TypeInv, RegistryOK, Step, Acquire, AcquirePush, Attach, ReleaseDetach, At, AtCall
<1> SUFFICES Same
  BY <1>0 DEF SameTunnel, SameKind
<1>1. CASE ReleaseDetach(t)
  <2>1. entry' = [entry EXCEPT ![ent[t]].consumers = @ \ {u}]
    BY <1>1 DEF ReleaseDetach
  <2> QED BY <1>0, <2>1 DEF Entry
<1>2. CASE AcquirePush(t) \/ Attach(t)
  <2>1. \A e \in Entry : /\ Push(e, u).parent = e.parent
                         /\ Push(e, u).parentConsumer = e.parentConsumer
                         /\ Push(e, u).consumers = e.consumers \cup {u}
    BY DEF Push, Entry
  <2>2. \A e \in Entry : /\ PushAndRevive(e, u).parent = e.parent
                         /\ PushAndRevive(e, u).parentConsumer = e.parentConsumer
                         /\ PushAndRevive(e, u).consumers = e.consumers \cup {u}
    BY DEF Push, PushAndRevive, Entry
  <2> QED BY <1>0, <1>2, <2>1, <2>2 DEF AcquirePush, Attach
<1> QED BY <1>1, <1>2

-----------------------------------------------------------------------------
(* The steps that do not concern a connection c.                            *)

LEMMA InsteadSpares ==
  ASSUME TypeInv, NEW t \in Tasks, NEW c, Unconcerned(Waits(t), c),
         NEW s, Continue(t, s), Unconcerned(Elements(s), c)
  PROVE  Spares(t, c)
BY WaitsContinue DEF Spares, Unconcerned

(* On the way to the connection of another child.                           *)
LEMMA OtherChild ==
  ASSUME TypeInv, TodoInv, NEW t \in Tasks, NEW c \in Conns, pc[t] # "free",
         Cur(t).op \in {"dial", "adopt", "activate"}, Cur(t).conn # c
  PROVE  Unconcerned(Waits(t), c)
<1>1. ~Concerns(Cur(t), c)
  BY DEF Concerns, Tunnelling, Returning
<1>2. Unconcerned(Elements(Rest(t)), c)
  <2>1. CASE Cur(t).op = "adopt"
    <3> DEFINE m == Call("activate", Cur(t).conn, Cur(t).who, Cur(t).arg)
    <3>1. Rest(t) = << m >>
      BY <2>1, TodoRest
    <3>2. ~Concerns(m, c)
      BY DEF Call, Concerns, Tunnelling, Returning
    <3> HIDE DEF m
    <3> QED BY <3>1, <3>2, AsideOne
  <2>2. CASE Cur(t).op # "adopt"
    <3>1. Rest(t) = << >>
      BY <2>2, TodoRest DEF LateOps
    <3> QED BY <3>1, ElementsNone DEF Unconcerned
  <2> QED BY <2>1, <2>2
<1> QED BY <1>1, <1>2, WaitsNow DEF Unconcerned

LEMMA AbandonAside ==
  ASSUME NEW c \in Conns, NEW d \in Conns, c # d, NEW u \in Consumers, NEW p \in Conns
  PROVE  /\ Unconcerned(Elements(Abandon(d, u, p)), c)
         /\ Unconcerned(Elements(Abandon(d, u, p) \o << Call("clear", d, None, None) >>), c)
<1> DEFINE x == Release(p, d)
           y == Release(d, u)
           z == Call("clear", d, None, None)
<1>1. x \in Calls /\ y \in Calls /\ z \in Calls
  BY ReleaseCall, UnaryCall DEF Users
<1>2. ~Concerns(x, c) /\ ~Concerns(y, c) /\ ~Concerns(z, c)
  <2>1. u # c
    BY RegistryAssumption
  <2> QED BY <2>1, ReleaseAside, CallAside DEF TunnelOps
<1>3. Abandon(d, u, p) = << x, y >>
  BY DEF Abandon
<1> HIDE DEF x, y, z
<1>4. Unconcerned(Elements(<< x, y >>), c)
  BY <1>2 DEF Elements, Unconcerned
<1>5. << x, y >> \in Seq(Calls) /\ << z >> \in Seq(Calls)
  BY <1>1
<1>6. Unconcerned(Elements(<< z >>), c)
  BY <1>2, AsideOne
<1>7. Unconcerned(Elements(<< x, y >> \o << z >>), c)
  BY <1>4, <1>5, <1>6, AsideJoin
<1> QED BY <1>3, <1>4, <1>7 DEF z

LEMMA MissingSpares ==
  ASSUME TypeInv, TodoInv, NEW t \in Tasks, NEW c \in Conns, pc[t] # "free", Missing(t),
         Cur(t).op \in {"adopt", "activate"} => Cur(t).conn # c,
         Cur(t).op \notin {"dial"}, \A x : Cur(t).conn = x => ~Registered(x)'
  PROVE  Spares(t, c)
<1>1. Cur(t) \in Calls /\ ByConsumer(Cur(t))
  BY AtLabel, TodoRest
<1>2. CASE Cur(t).op = "borrow"
  <2> DEFINE x == Release(Cur(t).who, Cur(t).arg)
  <2>1. Cur(t).arg \in Consumers /\ Cur(t).who \in Conns
    BY <1>1, <1>2, CallShape DEF ByConsumer
  <2>2. ~Concerns(x, c) /\ << x >> \in Seq(Calls)
    <3>1. Cur(t).arg # c /\ Cur(t).arg \in Users
      BY <2>1, RegistryAssumption DEF Users
    <3>2. x \in Calls
      BY <2>1, <3>1, ReleaseCall
    <3> QED BY <3>1, <3>2, ReleaseAside
  <2>3. Continue(t, << x >> \o Rest(t))
    BY <1>2 DEF Missing
  <2>4. Dropped(t, c)
    BY <1>2 DEF Dropped
  <2> HIDE DEF x
  <2> QED BY <2>2, <2>3, <2>4, AsideOne, AdvanceSpares
<1>3. CASE Cur(t).op \in {"adopt", "activate"}
  <2> DEFINE s == Abandon(Cur(t).conn, Cur(t).who, Cur(t).arg)
                    \o << Call("clear", Cur(t).conn, None, None) >>
  <2>1. Cur(t).conn \in Conns /\ Cur(t).who \in Consumers /\ Cur(t).arg \in Conns
    BY <1>1, <1>3, CallShape DEF ByConsumer
  <2>2. Unconcerned(Elements(s), c)
    BY <1>3, <2>1, AbandonAside
  <2>3. Continue(t, s)
    BY <1>3 DEF Missing
  <2> HIDE DEF s
  <2> QED BY <1>3, <2>2, <2>3, OtherChild, InsteadSpares
<1>4. CASE Cur(t).op \notin {"borrow", "adopt", "activate"}
  <2>1. Finish(t)
    BY <1>4 DEF Missing
  <2>2. Dropped(t, c)
    BY <1>4 DEF Dropped, Concerns, Tunnelling, Returning
  <2> QED BY <2>1, <2>2, FinishSpares
<1> QED BY <1>2, <1>3, <1>4

(* The hand-over of c is given up in this step.                             *)
GivesUp(t, c) ==
  /\ Cur(t).conn = c
  /\ \/ Missing(t) /\ Cur(t).op \in {"adopt", "activate"}
     \/ Adopt(t) /\ ~StillRegistered(t)
     \/ DialFails(t) /\ Cur(t).arg # None

LEMMA LookupSpares ==
  ASSUME TypeInv, IndexInv, TodoInv, NEW t \in Tasks, NEW c \in Conns,
         LookupId(t) \/ LookupKey(t), ~GivesUp(t, c)
  PROVE  Spares(t, c)
<1>1. pc[t] \in {"start", "byKey"} /\ Cur(t).op \in LookupOps
  BY AtLabel DEF LookupId, LookupKey, At, TaskOK
<1>2. CASE \/ LookupId(t) /\ byId[Cur(t).conn] = None
           \/ LookupKey(t) /\ byKey[key[t]] = None
  <2>1. Missing(t) /\ \A x : Cur(t).conn = x => ~Registered(x)'
    BY <1>2, MissingUnregistered DEF LookupId, LookupKey
  <2>2. Cur(t).op \in {"adopt", "activate"} => Cur(t).conn # c
    BY <2>1 DEF GivesUp
  <2> QED BY <1>1, <2>1, <2>2, MissingSpares DEF LookupOps
<1>3. CASE LookupId(t) /\ byId[Cur(t).conn] # None
  BY <1>1, <1>3, GotoSpares DEF LookupId, Front
<1>4. CASE LookupKey(t) /\ byKey[key[t]] # None
  BY <1>1, <1>4, GotoSpares DEF LookupKey, Front
<1> QED BY <1>2, <1>3, <1>4

LEMMA AcquireSpares ==
  ASSUME TypeInv, TodoInv, NEW t \in Tasks, NEW c \in Conns,
         \/ Acquire(t) \/ OutOfIds(t) \/ AcquireCancel(t) \/ AcquirePush(t)
         \/ Attach(t) /\ ~(Cur(t).op = "borrow" /\ Cur(t).who = c)
  PROVE  Spares(t, c)
<1>1. pc[t] # "free" /\ Cur(t) \in Calls /\ ByConsumer(Cur(t)) /\ TaskOK(t)
  BY AtLabel, TodoRest DEF Acquire, OutOfIds, AcquireCancel, AcquirePush, Attach, At, AtCall
<1>2. CASE Acquire(t) \/ OutOfIds(t) \/ AcquireCancel(t) \/ AcquirePush(t)
  <2>1. Cur(t).op = "acquire"
    BY <1>1, <1>2 DEF Acquire, OutOfIds, AcquireCancel, AcquirePush, At, AtCall, TaskOK
  <2>2. Dropped(t, c)
    BY <2>1, OpAside DEF Dropped, TunnelOps
  <2>3. CASE Acquire(t) \/ AcquireCancel(t)
    BY <1>1, <2>2, <2>3, GotoSpares DEF Acquire, AcquireCancel, Goto, Front
  <2>4. CASE OutOfIds(t)
    BY <1>1, <2>2, <2>4, FinishSpares DEF OutOfIds
  <2>5. CASE AcquirePush(t)
    <3> DEFINE m == Call("dial", ent[t], Cur(t).who, None)
    <3>1. ent[t] \in Conns /\ Cur(t).who \in Users
      BY <1>1, <2>1, <2>5, AtLabel, CallShape DEF AcquirePush, At, Inside, Labels
    <3>2. m \in Calls /\ ~Concerns(m, c)
      BY <3>1 DEF Call, Calls, Concerns, Tunnelling, Returning
    <3>3. Continue(t, << m >> \o Rest(t))
      BY <2>5 DEF AcquirePush
    <3> HIDE DEF m
    <3>4. << m >> \in Seq(Calls)
      BY <3>2
    <3> QED BY <1>1, <2>2, <3>2, <3>3, <3>4, AsideOne, AdvanceSpares
  <2> QED BY <1>2, <2>3, <2>4, <2>5
<1>3. CASE Attach(t) /\ Cur(t).op # "borrow"
  <2>1. Cur(t).op = "attach" /\ Finish(t)
    BY <1>3 DEF Attach, AtCall
  <2>2. Dropped(t, c)
    BY <2>1, OpAside DEF Dropped, TunnelOps
  <2> QED BY <1>1, <2>1, <2>2, FinishSpares
<1>4. CASE Attach(t) /\ Cur(t).op = "borrow" /\ Cur(t).who # c
  <2> DEFINE m == Call("dial", Cur(t).who, Cur(t).arg, ent[t])
  <2>1. ent[t] \in Conns /\ Cur(t).who \in Conns /\ Cur(t).arg \in Users
    BY <1>1, <1>4, AtLabel, CallShape DEF Attach, AtCall, Inside, Labels
  <2>2. m \in Calls /\ ~Concerns(m, c)
    BY <1>4, <2>1 DEF Call, Calls, Concerns, Tunnelling, Returning
  <2>3. Continue(t, << m >> \o Rest(t))
    BY <1>4 DEF Attach
  <2>4. Dropped(t, c)
    BY <1>4 DEF Dropped
  <2> HIDE DEF m
  <2>5. << m >> \in Seq(Calls)
    BY <2>2
  <2> QED BY <1>1, <2>2, <2>3, <2>4, <2>5, AsideOne, AdvanceSpares
<1> QED BY <1>2, <1>3, <1>4

LEMMA TransportSpares ==
  ASSUME TypeInv, NEW t \in Tasks, NEW c \in Conns, TakeTransport(t)
  PROVE  Spares(t, c)
<1>1. \A x \in Tasks : Waits(x)' = Waits(x)
  BY TransportOnly DEF Waits, Rest
<1> QED BY <1>1 DEF Spares

LEMMA DialSpares ==
  ASSUME TypeInv, TodoInv, NEW t \in Tasks, NEW c \in Conns,
         DialReaches(t) \/ DialFails(t), Cur(t).conn # c \/ Cur(t).arg = None
  PROVE  Spares(t, c)
<1> DEFINE d == Cur(t).conn
           u == Cur(t).who
           p == Cur(t).arg
<1>1. pc[t] # "free" /\ Cur(t).op = "dial"
  BY DEF DialReaches, DialFails, AtCall
<1>2. d \in Conns /\ u \in Consumers /\ u \in Users /\ p \in Conns \cup {None}
  BY <1>1, AtLabel, TodoRest, CallShape DEF ByConsumer, Users
<1>3. Dropped(t, c)
  BY <1>1 DEF Dropped, Concerns, Tunnelling, Returning
<1>4. ~Concerns(Release(d, u), c) /\ ~Concerns(Mark(d, "Error"), c) /\ ~Concerns(Mark(d, "Active"), c)
  BY <1>2, RegistryAssumption, ReleaseAside, CallAside DEF Mark, TunnelOps
<1>5. CASE DialReaches(t)
  <2> DEFINE a == IF p = None THEN << Call("disown", d, None, None), Mark(d, "Active") >>
                  ELSE << Call("adopt", d, u, p), Call("activate", d, u, p) >>
             x == Call("disown", d, None, None)
             y == Mark(d, "Active")
             v == Call("adopt", d, u, p)
             w == Call("activate", d, u, p)
  <2>1. x \in Calls /\ y \in Calls /\ (p # None => v \in Calls /\ w \in Calls)
    BY <1>2, UnaryCall, MarkCall DEF States, Call, Calls
  <2>2. /\ ~Concerns(x, c) /\ ~Concerns(y, c)
        /\ p # None => ~Concerns(v, c) /\ ~Concerns(w, c)
    <3>1. ~Concerns(x, c)
      BY CallAside DEF TunnelOps
    <3>2. p # None => ~Concerns(v, c) /\ ~Concerns(w, c)
      BY DEF Call, Concerns, Tunnelling, Returning
    <3> QED BY <1>4, <3>1, <3>2
  <2>3. a = IF p = None THEN << x, y >> ELSE << v, w >>
    OBVIOUS
  <2>4. Continue(t, a \o Rest(t))
    BY <1>5 DEF DialReaches
  <2> HIDE DEF a, x, y, v, w
  <2>5. a \in Seq(Calls)
    BY <2>1, <2>3
  <2>6. Unconcerned(Elements(a), c)
    BY <2>2, <2>3 DEF Elements, Unconcerned
  <2> QED BY <1>1, <1>3, <2>4, <2>5, <2>6, AdvanceSpares
<1>6. CASE DialFails(t)
  <2> DEFINE b == IF p = None THEN << Release(d, u) >> ELSE Abandon(d, u, p)
             x == Mark(d, "Error")
  <2>1. b \in Seq(Calls) /\ Unconcerned(Elements(b), c)
    <3>1. CASE p = None
      <4>1. Release(d, u) \in Calls
        BY <1>2, ReleaseCall
      <4> QED BY <1>4, <3>1, <4>1, AsideOne
    <3>2. CASE p # None
      BY <1>2, <3>2, AbandonCalls, AbandonAside
    <3> QED BY <3>1, <3>2
  <2>2. x \in Calls /\ ~Concerns(x, c)
    BY <1>2, <1>4, MarkCall DEF States
  <2>3. Continue(t, << x >> \o b \o Rest(t))
    BY <1>6 DEF DialFails
  <2> HIDE DEF b, x
  <2>4. << x >> \in Seq(Calls) /\ << x >> \o b \in Seq(Calls)
    BY <2>1, <2>2
  <2>5. Unconcerned(Elements(<< x >> \o b), c)
    BY <2>1, <2>2, <2>4, AsideOne, AsideJoin
  <2> QED BY <1>1, <1>3, <2>3, <2>4, <2>5, AdvanceSpares
<1> QED BY <1>5, <1>6

LEMMA AdoptSpares ==
  ASSUME TypeInv, TodoInv, NEW t \in Tasks, NEW c \in Conns, Adopt(t), Cur(t).conn # c
  PROVE  Spares(t, c)
<1>1. pc[t] # "free" /\ Cur(t).op = "adopt"
  BY DEF Adopt, AtCall
<1>2. CASE Finish(t)
  <2>1. Dropped(t, c)
    BY <1>1 DEF Dropped, Concerns, Tunnelling, Returning
  <2> QED BY <1>1, <1>2, <2>1, FinishSpares
<1>3. CASE ~Finish(t)
  <2> DEFINE s == Abandon(Cur(t).conn, Cur(t).who, Cur(t).arg)
                    \o << Call("clear", Cur(t).conn, None, None) >>
  <2>1. Cur(t).conn \in Conns /\ Cur(t).who \in Consumers /\ Cur(t).arg \in Conns
    BY <1>1, AtLabel, TodoRest, CallShape DEF ByConsumer
  <2>2. Unconcerned(Elements(s), c)
    BY <2>1, AbandonAside
  <2>3. Continue(t, s)
    BY <1>3 DEF Adopt
  <2> HIDE DEF s
  <2> QED BY <1>1, <2>2, <2>3, OtherChild, InsteadSpares
<1> QED BY <1>2, <1>3

(* The release that an entry makes of the parent it owned.                  *)
LetsGo(e) == IF e.parent # None /\ e.parentConsumer # None
               THEN << Release(e.parent, e.parentConsumer) >> ELSE << >>

LEMMA LetsGoAside ==
  ASSUME TypeInv, TunnelInv, NEW d \in Conns, NEW c \in Conns,
         d # c \/ entry[d].parentConsumer = None
  PROVE  LetsGo(entry[d]) \in Seq(Calls) /\ Unconcerned(Elements(LetsGo(entry[d])), c)
<1>1. entry[d] \in Entry /\ entry[d].parentConsumer \in {d, None}
  BY DEF TypeInv, RegistryOK, TunnelInv, TunnelOK
<1>2. CASE entry[d].parent # None /\ entry[d].parentConsumer # None
  <2> DEFINE m == Release(entry[d].parent, entry[d].parentConsumer)
  <2>1. m \in Calls
    BY <1>1, <1>2, ReleaseCall DEF Entry
  <2>2. ~Concerns(m, c)
    BY <1>1, <1>2, ReleaseAside
  <2>3. LetsGo(entry[d]) = << m >>
    BY <1>2 DEF LetsGo
  <2> HIDE DEF m
  <2> QED BY <2>1, <2>2, <2>3, AsideOne
<1>3. CASE ~(entry[d].parent # None /\ entry[d].parentConsumer # None)
  <2>1. LetsGo(entry[d]) = << >> /\ << >> \in Seq(Calls)
    BY <1>3 DEF LetsGo
  <2> QED BY <2>1, ElementsNone DEF Unconcerned
<1> QED BY <1>2, <1>3

LEMMA DisownSpares ==
  ASSUME TypeInv, TodoInv, TunnelInv, NEW t \in Tasks, NEW c \in Conns, Disown(t),
         ~StillRegistered(t) \/ ent[t] # c \/ entry[ent[t]].parentConsumer = None
  PROVE  Spares(t, c)
<1>1. pc[t] # "free" /\ Cur(t).op = "disown" /\ ent[t] \in Conns
  BY AtLabel DEF Disown, AtCall, Inside, Labels
<1>2. Dropped(t, c)
  BY <1>1, OpAside DEF Dropped, TunnelOps
<1>3. CASE Finish(t)
  BY <1>1, <1>2, <1>3, FinishSpares
<1>4. CASE StillRegistered(t)
  <2> DEFINE a == LetsGo(entry[ent[t]])
  <2>1. a \in Seq(Calls) /\ Unconcerned(Elements(a), c)
    BY <1>1, <1>4, LetsGoAside
  <2>2. Continue(t, a \o Rest(t))
    BY <1>4 DEF Disown, LetsGo
  <2> HIDE DEF a
  <2> QED BY <1>1, <1>2, <2>1, <2>2, AdvanceSpares
<1> QED BY <1>3, <1>4 DEF Disown

LEMMA TailOne ==
  ASSUME NEW m \in Calls, NEW s \in Seq(Calls)
  PROVE  Tail(<< m >> \o s) = s
OBVIOUS

(* A retirement that goes ahead leaves the release and then the rest.       *)
LEMMA RetireWaits ==
  ASSUME TypeInv, NEW t \in Tasks, RetireEnter(t), StillRegistered(t)
  PROVE  /\ Waits(t)' = Elements(LetsGo(entry[ent[t]])) \cup Elements(Rest(t))
         /\ \A x \in Tasks \ {t} : Waits(x)' = Waits(x)
<1> DEFINE a == LetsGo(entry[ent[t]])
           r == Rest(t)
<1>1. pc[t] = "enter" /\ Cur(t).op = "retire"
  BY DEF RetireEnter, AtCall
<1>2. Cur(t) \in Calls /\ r \in Seq(Calls) /\ entry[ent[t]] \in Entry
  BY <1>1, AtLabel DEF Inside, Labels
<1>3. a \in Seq(Calls)
  BY <1>2, OwnedPlain DEF LetsGo, Plain
<1>4. todo' = [todo EXCEPT ![t] = << Cur(t) >> \o a \o r] /\ pc' = [pc EXCEPT ![t] = "unlink"]
  BY DEF RetireEnter, LetsGo
<1>5. /\ pc'[t] = "unlink" /\ todo'[t] = << Cur(t) >> \o a \o r
      /\ \A x \in Tasks \ {t} : pc'[x] = pc[x] /\ todo'[x] = todo[x]
  BY <1>4 DEF TypeInv, TasksOK
<1> HIDE DEF a, r
<1>6. a \o r \in Seq(Calls)
  BY <1>2, <1>3
<1>7. << Cur(t) >> \o a \o r = << Cur(t) >> \o (a \o r)
  BY <1>2, <1>3
<1>8. Tail(todo'[t]) = a \o r
  BY <1>2, <1>5, <1>6, <1>7, TailOne
<1>9. Waits(t)' = Elements(a \o r)
  BY <1>5, <1>8 DEF Waits, Rest
<1>10. Elements(a \o r) = Elements(a) \cup Elements(r)
  BY <1>2, <1>3, ElementsJoin
<1>11. \A x \in Tasks \ {t} : Waits(x)' = Waits(x)
  BY <1>5 DEF Waits, Rest
<1> QED BY <1>9, <1>10, <1>11 DEF a, r

LEMMA RetireSpares ==
  ASSUME TypeInv, TodoInv, TunnelInv, NEW t \in Tasks, NEW c \in Conns, RetireEnter(t),
         ~StillRegistered(t) \/ ent[t] # c \/ entry[ent[t]].parentConsumer = None
  PROVE  Spares(t, c)
<1>1. pc[t] # "free" /\ Cur(t).op = "retire" /\ ent[t] \in Conns
  BY AtLabel DEF RetireEnter, AtCall, Inside, Labels
<1>2. Dropped(t, c)
  BY <1>1, OpAside DEF Dropped, TunnelOps
<1>3. CASE Finish(t)
  BY <1>1, <1>2, <1>3, FinishSpares
<1>4. CASE StillRegistered(t)
  <2>1. Unconcerned(Elements(LetsGo(entry[ent[t]])), c)
    BY <1>1, <1>4, LetsGoAside
  <2> QED BY <1>1, <1>2, <1>4, <2>1, RetireWaits, SparesBy
<1> QED BY <1>3, <1>4 DEF RetireEnter

(* The ancestor consumer that a disconnected child gives back.              *)
LEMMA DisconnectSpares ==
  ASSUME TypeInv, TodoInv, NEW t \in Tasks, NEW c \in Conns, Disconnect(t),
         Cur(t).conn # c \/ entry[ent[t]].parent = None
  PROVE  Spares(t, c)
<1> DEFINE d == Cur(t).conn
           e == entry[ent[t]]
<1>1. pc[t] # "free" /\ Cur(t).op = "kill" /\ ent[t] \in Conns /\ e \in Entry /\ d \in Conns
  BY AtLabel DEF Disconnect, AtCall, Inside, Labels
<1>2. Dropped(t, c)
  BY <1>1, OpAside DEF Dropped, TunnelOps
<1>3. CASE Finish(t)
  BY <1>1, <1>2, <1>3, FinishSpares
<1>4. ASSUME NEW known \in BOOLEAN,
             Continue(t, (IF known /\ e.parent # None THEN << Release(e.parent, d) >> ELSE << >>)
                         \o << Call("clear", ent[t], None, None),
                               Mark(d, "Disconnected"), Retire(d) >> \o Rest(t))
      PROVE  Spares(t, c)
  <2> DEFINE a == IF known /\ e.parent # None THEN << Release(e.parent, d) >> ELSE << >>
             x == Call("clear", ent[t], None, None)
             y == Mark(d, "Disconnected")
             z == Retire(d)
             b == << x, y, z >>
  <2>1. x \in Calls /\ y \in Calls /\ z \in Calls
    BY <1>1, UnaryCall, MarkCall DEF Retire, States
  <2>2. ~Concerns(x, c) /\ ~Concerns(y, c) /\ ~Concerns(z, c)
    BY CallAside DEF Mark, Retire, TunnelOps
  <2>3. a \in Seq(Calls) /\ Unconcerned(Elements(a), c)
    <3>1. CASE known /\ e.parent # None
      <4>1. Release(e.parent, d) \in Calls
        BY <1>1, <3>1, ReleaseCall DEF Entry, Users
      <4>2. ~Concerns(Release(e.parent, d), c)
        BY <3>1, ReleaseAside
      <4> QED BY <3>1, <4>1, <4>2, AsideOne
    <3>2. CASE ~(known /\ e.parent # None)
      <4>1. a = << >> /\ << >> \in Seq(Calls)
        BY <3>2
      <4> QED BY <4>1, ElementsNone DEF Unconcerned
    <3> QED BY <3>1, <3>2
  <2>4. Continue(t, a \o b \o Rest(t))
    BY <1>4
  <2> HIDE DEF a, x, y, z
  <2>5. b \in Seq(Calls)
    BY <2>1
  <2>6. Unconcerned(Elements(b), c)
    BY <2>2 DEF Elements, Unconcerned
  <2> HIDE DEF b
  <2>7. a \o b \in Seq(Calls) /\ Unconcerned(Elements(a \o b), c)
    BY <2>3, <2>5, <2>6, AsideJoin
  <2> QED BY <1>1, <1>2, <2>4, <2>7, AdvanceSpares
<1> QED BY <1>3, <1>4 DEF Disconnect

LEMMA OtherSpares ==
  ASSUME TypeInv, TodoInv, NEW t \in Tasks, NEW c \in Conns,
         \/ ClearPhysical(t) \/ MarkState(t)
         \/ ReleaseDetach(t) /\ Cur(t).who # c
         \/ ReleaseDecrement(t) \/ ReleaseDecide(t)
         \/ KeepCancel(t) \/ Disarm(t) \/ Capture(t) \/ Settle(t)
         \/ RetireUnlink(t) \/ RetireForget(t)
         \/ KeepAliveOn(t) \/ KeepAliveOff(t) \/ Rearm(t)
  PROVE  Spares(t, c)
<1>1. pc[t] # "free"
  BY DEF ClearPhysical, MarkState, ReleaseDetach, ReleaseDecrement, ReleaseDecide, KeepCancel,
     Disarm, Capture, Settle, RetireUnlink, RetireForget, KeepAliveOn, KeepAliveOff, Rearm, At, AtCall
<1>2. Dropped(t, c)
  <2>1. CASE ClearPhysical(t) \/ KeepAliveOn(t) \/ KeepAliveOff(t) \/ Rearm(t)
    BY <2>1, OpAside DEF ClearPhysical, KeepAliveOn, KeepAliveOff, Rearm, AtCall, Dropped, TunnelOps
  <2>2. CASE MarkState(t)
    <3>1. Cur(t).op \in {"mark", "activate"}
      BY <2>2 DEF MarkState, AtCall
    <3> QED BY <3>1, OpAside DEF Dropped, TunnelOps
  <2>3. CASE ReleaseDetach(t) /\ Cur(t).who # c
    BY <2>3 DEF ReleaseDetach, AtCall, Dropped, Concerns, Tunnelling, Returning
  <2>4. CASE \/ ReleaseDecrement(t) \/ ReleaseDecide(t) \/ KeepCancel(t) \/ Disarm(t) \/ Capture(t)
             \/ Settle(t) \/ RetireUnlink(t) \/ RetireForget(t)
    BY <2>4 DEF ReleaseDecrement, ReleaseDecide, KeepCancel, Disarm, Capture, Settle,
       RetireUnlink, RetireForget, At, Dropped, Front
  <2> QED BY <2>1, <2>2, <2>3, <2>4
<1>3. CASE Finish(t)
  BY <1>1, <1>2, <1>3, FinishSpares
<1>4. ASSUME NEW label, label \notin Front, label # "free", todo' = todo,
             pc' = [pc EXCEPT ![t] = label]
      PROVE  Spares(t, c)
  BY <1>1, <1>2, <1>4, GotoSpares
<1>5. CASE ReleaseDecide(t)
  <2> DEFINE m == Retire(Cur(t).conn)
  <2>1. CASE Continue(t, << m >> \o Rest(t))
    <3>1. Cur(t).op = "release"
      BY <1>1, <1>5, AtLabel DEF ReleaseDecide, At, TaskOK
    <3>2. m \in Calls /\ ~Concerns(m, c)
      BY <1>1, <3>1, AtLabel, UnaryCall, CallAside DEF Retire, TunnelOps
    <3> HIDE DEF m
    <3>3. << m >> \in Seq(Calls)
      BY <3>2
    <3> QED BY <1>1, <1>2, <2>1, <3>2, <3>3, AsideOne, AdvanceSpares
  <2> QED BY <1>3, <1>4, <1>5, <2>1 DEF ReleaseDecide, Goto, Front
<1> QED BY <1>3, <1>4, <1>5
    DEF ClearPhysical, MarkState, ReleaseDetach, ReleaseDecrement, KeepCancel, Disarm, Capture,
        Settle, RetireUnlink, RetireForget, KeepAliveOn, KeepAliveOff, Rearm, Goto, Front

(* A sequence of unary calls, one for each of some connections.             *)
LEMMA EachAside ==
  ASSUME NEW S \in SUBSET Conns, NEW s \in Orders(S), NEW c \in Conns,
         NEW op \in {"rearm", "kill"}
  PROVE  LET r == [i \in DOMAIN s |-> Call(op, s[i], None, None)]
         IN  r \in Seq(Calls) /\ Unconcerned(Elements(r), c)
<1> DEFINE r == [i \in DOMAIN s |-> Call(op, s[i], None, None)]
<1>1. Plain(r)
  BY EachPlain
<1>2. \A i \in 1 .. Len(r) : r[i].op \notin TunnelOps
  <2>1. s \in Seq(S)
    <3>1. IsFiniteSet(S)
      BY RegistryAssumption, FS_Subset
    <3> QED BY <3>1, OrdersAreSequences
  <2>2. Len(r) = Len(s) /\ \A i \in 1 .. Len(s) : r[i] = Call(op, s[i], None, None)
    BY <2>1
  <2> QED BY <2>2 DEF Call, TunnelOps
<1> HIDE DEF r
<1>3. Unconcerned(Elements(r), c)
  BY <1>2, OpAside DEF Elements, Unconcerned
<1> QED BY <1>1, <1>3 DEF Plain, r

LEMMA WakeSpares ==
  ASSUME TypeInv, TodoInv, NEW t \in Reapers, NEW d \in Conns, Wake(t, d), NEW c \in Conns
  PROVE  Spares(t, c)
<1>1. t \in Tasks /\ pc[t] = "free"
  BY DEF Wake, Tasks
<1>2. CASE UNCHANGED taskVars
  BY <1>1, <1>2 DEF Spares, Waits, Rest, taskVars
<1>3. ASSUME NEW s \in Orders(Descendants(d)),
             Continue(t, [i \in DOMAIN s |-> Kill(s[i])] \o << Kill(d) >>)
      PROVE  Spares(t, c)
  <2> DEFINE r == [i \in DOMAIN s |-> Kill(s[i])]
  <2>1. r \in Seq(Calls) /\ Unconcerned(Elements(r), c)
    <3>1. Descendants(d) \subseteq Conns
      BY DEF Descendants, Pooled
    <3> QED BY <3>1, EachAside DEF Kill
  <2>2. Kill(d) \in Calls /\ ~Concerns(Kill(d), c)
    BY UnaryCall, CallAside DEF Kill, TunnelOps
  <2>3. Continue(t, r \o << Kill(d) >>)
    BY <1>3
  <2> HIDE DEF r
  <2>4. << Kill(d) >> \in Seq(Calls) /\ Unconcerned(Elements(<< Kill(d) >>), c)
    BY <2>2, AsideOne
  <2>5. Unconcerned(Elements(r \o << Kill(d) >>), c)
    BY <2>1, <2>4, AsideJoin
  <2> QED BY <1>1, <2>3, <2>5, StartSpares
<1> QED BY <1>2, <1>3 DEF Wake

LEMMA ProgramSpares ==
  ASSUME TypeInv, TodoInv, NEW t \in Tasks, NEW c \in Conns,
         \/ \E k \in Keys, u \in Consumers : StartNode(t, k, u)
         \/ \E d \in Conns : StartOnConnection(t, d)
         \/ \E b \in BOOLEAN : StartSetIdleTimeout(t, b)
  PROVE  Spares(t, c)
<1>1. ASSUME NEW client, NEW m, Start(t, client, << m >>), ~Concerns(m, c)
      PROVE  Spares(t, c)
  BY <1>1, AsideOne, StartSpares DEF Start
<1>2. ASSUME NEW k \in Keys, NEW u \in Consumers, StartNode(t, k, u) PROVE Spares(t, c)
  BY <1>1, <1>2, CallAside DEF StartNode, TunnelOps
<1>3. ASSUME NEW d \in Conns, StartOnConnection(t, d) PROVE Spares(t, c)
  <2>1. /\ \A u : ~Concerns(Call("attach", d, u, None), c)
        /\ \A u \in Consumers : ~Concerns(Release(d, u), c)
        /\ ~Concerns(Retire(d), c) /\ ~Concerns(Mark(d, "LinkDown"), c)
        /\ \A op \in {"keepOn", "keepOff"} : ~Concerns(Call(op, d, None, None), c)
    BY RegistryAssumption, CallAside, ReleaseAside DEF Retire, Mark, TunnelOps
  <2> QED BY <1>1, <1>3, <2>1 DEF StartOnConnection, StartCall
<1>4. ASSUME NEW b \in BOOLEAN, StartSetIdleTimeout(t, b) PROVE Spares(t, c)
  <2>1. PICK s \in Orders(Pooled) :
          Start(t, "timeout", [i \in DOMAIN s |-> Call("rearm", s[i], None, None)])
    BY <1>4 DEF StartSetIdleTimeout
  <2> DEFINE r == [i \in DOMAIN s |-> Call("rearm", s[i], None, None)]
  <2>2. Unconcerned(Elements(r), c)
    <3>1. Pooled \subseteq Conns
      BY DEF Pooled
    <3> QED BY <3>1, EachAside
  <2>3. pc[t] = "free" /\ Continue(t, r)
    BY <2>1 DEF Start
  <2> HIDE DEF r
  <2> QED BY <2>2, <2>3, StartSpares
<1> QED BY <1>2, <1>3, <1>4

-----------------------------------------------------------------------------
(* A connection that is new.  Nobody has anything to do with it yet.        *)

LEMMA UnbornTunnel ==
  ASSUME NEW c \in Conns, TunnelOK(c), ~Born(c)
  PROVE  /\ ~Returns(c) /\ \A x \in Tasks : ~Tunnels(x, c)
         /\ entry[c].parent = None /\ entry[c].parentConsumer = None
         /\ \A p \in Conns : c \notin entry[p].consumers
<1>1. c # None
  BY RegistryAssumption
<1> QED BY <1>1 DEF TunnelOK, Born

LEMMA MakesTunnels ==
  ASSUME TypeInv, TunnelInv, OwnInv', DoomStays, NEW t \in Tasks, NEW d \in Conns, ~Born(d),
         \A x \in Conns \ {d} : entry'[x] = entry[x],
         \A x \in Conns : x \notin entry'[d].consumers,
         entry'[d].parent = None, entry'[d].parentConsumer = None,
         NoneRegisters(Conns \ {d}), \A x \in Conns \ {d} : Spares(t, x),
         entry'[d].key # None, \A x \in Tasks \ {t} : Waits(x)' = Waits(x),
         \A p \in Conns : ~Holds(t, p, d)', \A m \in Waits(t)' : ~Returning(m, d),
         Tunnels(t, d)' => entry'[d].key = d
  PROVE  TunnelInv'
<1>1. ASSUME NEW c \in Conns, c # d PROVE TunnelOK(c)'
  <2>1. TunnelOK(c) /\ c \notin entry[d].consumers
    BY <1>1 DEF TunnelInv, TunnelOK
  <2>2. SameTunnel(c)
    BY <1>1, <2>1 DEF SameTunnel
  <2>3. SameCalls(c)
    BY <1>1, SparesCalls
  <2>4. \A x \in Conns : Born(x) => entry'[x].key = entry[x].key
    OBVIOUS
  <2>5. \A p \in Conns : c \in entry[p].consumers /\ Registered(p)' => Registered(p)
    BY <2>1 DEF NoneRegisters
  <2> QED BY <2>1, <2>2, <2>3, <2>4, <2>5, QuietTunnel
<1>2. TunnelOK(d)'
  <2>1. /\ ~Returns(d) /\ \A x \in Tasks : ~Tunnels(x, d)
        /\ \A p \in Conns : d \notin entry[p].consumers
    BY UnbornTunnel DEF TunnelInv
  <2>2. \A p \in Conns : d \notin entry'[p].consumers
    BY <2>1
  <2>3. ~Returns(d)'
    BY <2>1 DEF Returns
  <2>4. \A x \in Tasks \ {t} : ~Tunnels(x, d)'
    BY <2>1 DEF Tunnels
  <2>5. \A x \in Tasks : Borrows(x, d) => Tunnels(x, d)
    BY DEF Borrows, Tunnels, Tunnelling
  <2>6. ASSUME NEW x \in Tasks \ {t}, NEW p \in Conns PROVE ~Holds(x, p, d)'
    <3>1. p # None
      BY RegistryAssumption
    <3>2. Holds(x, p, d)' => Tunnels(x, d)'
      BY <3>1 DEF Holds, Tunnels, Tunnelling
    <3> QED BY <2>4, <3>2
  <2>7. \A x \in Tasks : \A p \in Conns : ~Holds(x, p, d)'
    BY <2>6
  <2>8. \A x, y \in Tasks : Tunnels(x, d)' /\ Tunnels(y, d)' => x = y
    BY <2>4
  <2>9. \A x \in Tasks : Tunnels(x, d)' => entry'[d].key = d
    BY <2>4
  <2> QED BY <2>2, <2>3, <2>7, <2>8, <2>9 DEF TunnelOK
<1> QED BY <1>1, <1>2 DEF TunnelInv

-----------------------------------------------------------------------------
(* A child whose hand-over is given up: both guards release.                *)

(* What a task that makes the connection of a child has before it.          *)
LEMMA ChildCalls ==
  ASSUME TypeInv, TodoInv, NEW t \in Tasks, pc[t] \in Front,
         Cur(t).op \in {"borrow", "dial", "adopt", "activate"}
  PROVE  /\ Cur(t) \in Waits(t)
         /\ \A m \in Waits(t) : m = Cur(t)
              \/ /\ Cur(t).op = "adopt"
                 /\ m = Call("activate", Cur(t).conn, Cur(t).who, Cur(t).arg)
<1>1. pc[t] # "free"
  BY DEF Front
<1>2. CASE Cur(t).op = "adopt"
  <2> DEFINE m == Call("activate", Cur(t).conn, Cur(t).who, Cur(t).arg)
  <2>1. Rest(t) = << m >>
    BY <1>1, <1>2, TodoRest
  <2> HIDE DEF m
  <2>2. Elements(Rest(t)) = {m}
    BY <2>1, ElementsOne
  <2> QED BY <1>1, <1>2, <2>2, WaitsNow DEF m
<1>3. CASE Cur(t).op # "adopt"
  <2>1. Rest(t) = << >>
    BY <1>1, <1>3, TodoRest DEF LateOps
  <2> QED BY <1>1, <2>1, ElementsNone, WaitsNow
<1> QED BY <1>2, <1>3

(* Nobody makes the connection of c any more, and it owns nothing.          *)
LEMMA EndTunnel ==
  ASSUME TypeInv, NEW c \in Conns, TunnelOK(c), SameTunnel(c), Born(c),
         \A x \in Conns : Born(x) => entry'[x].key = entry[x].key,
         \A x \in Tasks : ~Tunnels(x, c)', entry'[c].parentConsumer = None,
         \A p \in Conns : Registered(p)' /\ c \in entry[p].consumers => Gives(p, c)'
  PROVE  TunnelOK(c)'
<1>1. \A x \in Tasks : ~Borrows(x, c)'
  <2>1. \A x : Borrows(x, c)' => Tunnels(x, c)'
    BY DEF Borrows, Tunnels, Tunnelling
  <2> QED BY <2>1
<1>2. \A x \in Tasks, p \in Conns : ~Holds(x, p, c)'
  <2>1. \A p \in Conns : p # None
    BY RegistryAssumption
  <2>2. \A x : \A p \in Conns : Holds(x, p, c)' => Tunnels(x, c)'
    BY <2>1 DEF Holds, Tunnels, Tunnelling
  <2> QED BY <2>2
<1>3. \A p \in Conns : c \in entry'[p].consumers => Born(c)' /\ Born(p)'
  BY DEF TunnelOK, SameTunnel, Born
<1>4. \A p \in Conns : Registered(p)' /\ c \in entry'[p].consumers => Gives(p, c)'
  BY DEF SameTunnel
<1>5. Born(c)'
  BY DEF Born
<1> QED BY <1>1, <1>2, <1>3, <1>4, <1>5 DEF TunnelOK

(* Both guards release.                                                     *)
LEMMA GiveUpTunnel ==
  ASSUME TypeInv, IndexInv, TodoInv, OwnInv', NEW t \in Tasks, NEW c \in Conns, TunnelOK(c),
         SameTunnel(c), \A x \in Conns : Born(x) => entry'[x].key = entry[x].key,
         \A p \in Conns : c \in entry[p].consumers /\ Registered(p)' => Registered(p),
         pc[t] \in Front, Cur(t).op \in {"dial", "adopt", "activate"},
         Cur(t).conn = c, Cur(t).arg \in Conns,
         Cur(t).op = "activate" => ~Registered(c)',
         \A x \in Tasks \ {t} : Waits(x)' = Waits(x),
         Release(Cur(t).arg, c) \in Waits(t)', \A m \in Waits(t)' : ~Tunnelling(m, c)
  PROVE  TunnelOK(c)'
<1> DEFINE p == Cur(t).arg
<1>0. p # None
  BY RegistryAssumption
<1>1. Cur(t) \in Waits(t) /\ Tunnels(t, c)
  <2>1. Cur(t) \in Waits(t)
    BY ChildCalls
  <2>2. Tunnelling(Cur(t), c)
    BY <1>0 DEF Tunnelling
  <2> QED BY <2>1, <2>2 DEF Tunnels
<1>2. \A x \in Tasks : ~Tunnels(x, c)'
  <2>1. \A x \in Tasks \ {t} : ~Tunnels(x, c)
    BY <1>1 DEF TunnelOK
  <2> QED BY <2>1 DEF Tunnels
<1>3. Born(c)
  <2>1. entry[c].key = c
    BY <1>1 DEF TunnelOK
  <2> QED BY <2>1, RegistryAssumption DEF Born
<1>4. entry'[c].parentConsumer = None
  <2>1. CASE Cur(t).op = "activate"
    BY <2>1 DEF OwnInv
  <2>2. CASE Cur(t).op \in {"dial", "adopt"}
    <3>1. Holds(t, p, c)
      BY <1>1, <2>2 DEF Holds
    <3> QED BY <3>1 DEF TunnelOK, SameTunnel
  <2> QED BY <2>1, <2>2
<1>5. ASSUME NEW q \in Conns, Registered(q)', c \in entry[q].consumers PROVE Gives(q, c)'
  <2>1. Owns(c, q) \/ Gives(q, c) \/ \E x \in Tasks : Holds(x, q, c)
    BY <1>5 DEF TunnelOK
  <2>2. ~Owns(c, q)
    BY <1>4, RegistryAssumption DEF Owns, SameTunnel
  <2>3. ASSUME NEW x \in Tasks, Release(q, c) \in Waits(x) PROVE Gives(q, c)'
    <3>1. x # t
      <4>1. Release(q, c).op = "release"
        BY DEF Release, Call
      <4>2. \A m \in Waits(t) : m.op # "release"
        BY ChildCalls DEF Call
      <4> QED BY <2>3, <4>1, <4>2
    <3>2. Release(q, c) \in Waits(x)'
      BY <2>3, <3>1
    <3> QED BY <3>2 DEF Gives
  <2>4. ASSUME NEW x \in Tasks, Holds(x, q, c) PROVE Gives(q, c)'
    <3>1. PICK m \in Waits(x) : m.op \in {"dial", "adopt"} /\ m.conn = c /\ m.arg = q
      BY <2>4 DEF Holds
    <3>2. Tunnels(x, c)
      <4>1. q # None
        BY RegistryAssumption
      <4> QED BY <3>1, <4>1 DEF Tunnels, Tunnelling
    <3>3. x = t
      BY <1>1, <3>2 DEF TunnelOK
    <3>4. m = Cur(t)
      BY <3>1, <3>3, ChildCalls DEF Call
    <3>5. q = p
      BY <3>1, <3>4
    <3> QED BY <3>5 DEF Gives
  <2> QED BY <2>1, <2>2, <2>3, <2>4 DEF Gives
<1> QED BY <1>2, <1>3, <1>4, <1>5, EndTunnel

(* The calls of a failed hand-over.                                         *)
LEMMA AbandonWaits ==
  ASSUME NEW c \in Conns, NEW u \in Consumers, NEW p \in Conns
  PROVE  /\ Release(p, c) \in Elements(Abandon(c, u, p))
         /\ Release(p, c) \in Elements(Abandon(c, u, p) \o << Call("clear", c, None, None) >>)
         /\ \A m \in Elements(Abandon(c, u, p)) : ~Tunnelling(m, c)
         /\ \A m \in Elements(Abandon(c, u, p) \o << Call("clear", c, None, None) >>) :
              ~Tunnelling(m, c)
<1> DEFINE x == Release(p, c)
           y == Release(c, u)
           z == Call("clear", c, None, None)
<1>1. x \in Calls /\ y \in Calls /\ z \in Calls
  BY ReleaseCall, UnaryCall DEF Users
<1>2. ~Tunnelling(x, c) /\ ~Tunnelling(y, c) /\ ~Tunnelling(z, c)
  BY DEF Release, Call, Tunnelling
<1>3. Abandon(c, u, p) = << x, y >>
  BY DEF Abandon
<1> HIDE DEF x, y, z
<1>4. Elements(<< x, y >>) = {x, y}
  <2>1. Len(<< x, y >>) = 2 /\ << x, y >>[1] = x /\ << x, y >>[2] = y
    OBVIOUS
  <2> QED BY <2>1 DEF Elements
<1>5. Elements(<< x, y >> \o << z >>) = {x, y} \cup {z}
  <2>1. << x, y >> \in Seq(Calls) /\ << z >> \in Seq(Calls)
    BY <1>1
  <2> QED BY <1>4, <2>1, ElementsOne, ElementsJoin
<1> QED BY <1>2, <1>3, <1>4, <1>5 DEF x, z

LEMMA GivesUpTunnel ==
  ASSUME TypeInv, IndexInv, TodoInv, OwnInv', TunnelInv, NEW t \in Tasks, NEW c \in Conns,
         GivesUp(t, c), LookupId(t) \/ LookupKey(t) \/ Adopt(t) \/ DialFails(t),
         \A x \in Conns : SameTunnel(x), NoneRegisters(Conns)
  PROVE  TunnelOK(c)'
<1> DEFINE m == Cur(t)
           s == Abandon(c, m.who, m.arg)
<1>1. pc[t] \in Front /\ m.op \in {"dial", "adopt", "activate"}
  BY DEF GivesUp, LookupId, LookupKey, Adopt, DialFails, At, AtCall, Front
<1>2. m.who \in Consumers /\ m.arg \in Conns /\ m.conn = c
  <2>1. m \in Calls /\ ByConsumer(m)
    BY <1>1, AtLabel, TodoRest DEF Front
  <2>2. m.op = "dial" => m.arg # None
    BY DEF GivesUp, Adopt, AtCall
  <2> QED BY <1>1, <2>1, <2>2, CallShape DEF ByConsumer, GivesUp
<1>3. /\ \A x \in Tasks \ {t} : Waits(x)' = Waits(x)
      /\ Release(m.arg, c) \in Waits(t)' /\ \A n \in Waits(t)' : ~Tunnelling(n, c)
  <2>1. CASE DialFails(t) /\ m.arg # None
    <3> DEFINE y == Mark(c, "Error")
    <3>1. m.op = "dial" /\ Continue(t, << y >> \o s \o Rest(t))
      BY <1>2, <2>1 DEF DialFails, AtCall
    <3>2. Rest(t) = << >>
      BY <1>1, <3>1, TodoRest DEF LateOps, Front
    <3>3. s \in Seq(Calls) /\ y \in Calls
      BY <1>2, AbandonCalls, MarkCall DEF Users, States
    <3>4. ~Tunnelling(y, c)
      BY DEF Mark, Call, Tunnelling
    <3>5. Release(m.arg, c) \in Elements(s) /\ \A n \in Elements(s) : ~Tunnelling(n, c)
      BY <1>2, AbandonWaits
    <3> HIDE DEF s, y
    <3>6. << y >> \in Seq(Calls) /\ << y >> \o s \in Seq(Calls) /\ << >> \in Seq(Calls)
      BY <3>3
    <3>7. Elements(<< y >> \o s) = {y} \cup Elements(s)
      BY <3>3, <3>6, ElementsOne, ElementsJoin
    <3> DEFINE v == << y >> \o s
    <3>8. Continue(t, v \o << >>) /\ v \in Seq(Calls)
      BY <3>1, <3>2, <3>6
    <3> HIDE DEF v
    <3>9. Elements(v \o << >>) = Elements(v)
      BY <3>6, <3>8, ElementsJoin, ElementsNone
    <3>10. Waits(t)' = {y} \cup Elements(s) /\ \A x \in Tasks \ {t} : Waits(x)' = Waits(x)
      BY <3>7, <3>8, <3>9, WaitsContinue DEF v
    <3> QED BY <3>4, <3>5, <3>10
  <2>2. CASE ~DialFails(t)
    <3> DEFINE v == s \o << Call("clear", c, None, None) >>
    <3>1. Continue(t, v)
      BY <1>2, <2>2 DEF GivesUp, Missing, Adopt, AtCall
    <3>2. Release(m.arg, c) \in Elements(v) /\ \A n \in Elements(v) : ~Tunnelling(n, c)
      BY <1>2, AbandonWaits
    <3> HIDE DEF v
    <3> QED BY <3>1, <3>2, WaitsContinue
  <2> QED BY <2>1, <2>2 DEF GivesUp, Adopt, DialFails, AtCall
<1>4. m.op = "activate" => ~Registered(c)'
  <2>1. ASSUME m.op = "activate" PROVE Missing(t) /\ (LookupId(t) \/ LookupKey(t))
    BY <2>1 DEF GivesUp, Adopt, DialFails, AtCall
  <2>2. ASSUME m.op = "activate" PROVE ~Registered(c)'
    <3>1. todo' # todo
      <4>1. Missing(t)
        BY <2>1, <2>2
      <4>2. PICK v : Continue(t, v) /\ v = s \o << Call("clear", c, None, None) >>
        BY <1>2, <2>2, <4>1 DEF Missing
      <4>3. Waits(t)' = Elements(v) /\ Release(m.arg, c) \in Elements(v)
        BY <1>2, <4>2, WaitsContinue, AbandonWaits
      <4>4. todo'[t] = v
        BY <4>2 DEF Continue, TypeInv, TasksOK
      <4>5. todo[t] # v
        <5>1. Elements(todo[t]) = Waits(t)
          BY <1>1 DEF Waits, Front
        <5>2. \A n \in Waits(t) : n.op # "release"
          BY <1>1, ChildCalls DEF Call
        <5>3. Release(m.arg, c).op = "release"
          BY DEF Release, Call
        <5> QED BY <4>3, <5>1, <5>2, <5>3
      <4> QED BY <4>4, <4>5
    <3>2. \/ LookupId(t) /\ byId[m.conn] = None
          \/ LookupKey(t) /\ byKey[key[t]] = None
      BY <2>1, <2>2, <3>1 DEF LookupId, LookupKey
    <3> QED BY <1>2, <3>2, MissingUnregistered
  <2> QED BY <2>2
<1>5. /\ TunnelOK(c) /\ SameTunnel(c) /\ \A x \in Conns : Born(x) => entry'[x].key = entry[x].key
      /\ \A p \in Conns : c \in entry[p].consumers /\ Registered(p)' => Registered(p)
  BY DEF TunnelInv, SameTunnel, NoneRegisters
<1> HIDE DEF s
<1> QED BY <1>1, <1>2, <1>3, <1>4, <1>5, GiveUpTunnel

(* No connection is None.                                                   *)
LEMMA HoldsTunnels ==
  ASSUME NEW c, NEW x, NEW p \in Conns, Holds(x, p, c)
  PROVE  Tunnels(x, c)
<1>1. p # None
  BY RegistryAssumption
<1> QED BY <1>1 DEF Holds, Tunnels, Tunnelling

(* A connection that owned its parent lets it go, disowned or retired.      *)
LEMMA LetGoTunnel ==
  ASSUME TypeInv, OwnInv', DoomStays, NEW t \in Tasks, NEW c \in Conns, TunnelOK(c),
         entry[c].parentConsumer # None, pc[t] # "free", Cur(t).op \notin TunnelOps,
         entry'[c].parentConsumer = None, entry'[c].parent \in {None, entry[c].parent},
         \A p \in Conns : c \in entry'[p].consumers <=> c \in entry[p].consumers,
         \A x \in Conns : Born(x) => entry'[x].key = entry[x].key, NoneRegisters(Conns),
         Waits(t)' = Elements(LetsGo(entry[c])) \cup Elements(Rest(t)),
         \A x \in Tasks \ {t} : Waits(x)' = Waits(x)
  PROVE  TunnelOK(c)'
<1> DEFINE p == entry[c].parent
           m == Release(p, c)
<1>1. entry[c].parentConsumer = c /\ p # None /\ Born(c)
  BY DEF TunnelOK
<1>2. Elements(LetsGo(entry[c])) = {m}
  <2>1. LetsGo(entry[c]) = << m >>
    BY <1>1 DEF LetsGo
  <2> HIDE DEF m
  <2> QED BY <2>1, ElementsOne
<1>3. ~Tunnelling(m, c) /\ m.op = "release"
  BY DEF Release, Call, Tunnelling
<1> HIDE DEF m
<1>4. \A n \in Waits(t) : Concerns(n, c) => n \in Waits(t)'
  BY WaitsNow, OpAside
<1>5. ASSUME NEW x \in Tasks, NEW n, n \in Waits(x)', n # m PROVE n \in Waits(x)
  BY <1>2, <1>5, WaitsNow
<1>6. \A x \in Tasks : Tunnels(x, c)' => Tunnels(x, c)
  BY <1>3, <1>5 DEF Tunnels
<1>7. /\ \A x \in Tasks : ~Borrows(x, c)
      /\ \A x \in Tasks, q \in Conns : ~Holds(x, q, c)
  BY <1>1 DEF TunnelOK
<1>8. \A x \in Tasks : ~Borrows(x, c)'
  BY <1>3, <1>5, <1>7 DEF Borrows
<1>9. \A x \in Tasks, q \in Conns : ~Holds(x, q, c)'
  BY <1>3, <1>5, <1>7 DEF Holds
<1>10. ASSUME NEW q \in Conns, Registered(q)', c \in entry'[q].consumers PROVE Gives(q, c)'
  <2>1. Owns(c, q) \/ Gives(q, c)
    BY <1>7, <1>10 DEF TunnelOK, NoneRegisters
  <2>2. CASE Owns(c, q)
    <3>1. q = p
      BY <2>2 DEF Owns
    <3> QED BY <1>2, <3>1 DEF Gives, m
  <2>3. ASSUME NEW x \in Tasks, Release(q, c) \in Waits(x) PROVE Gives(q, c)'
    <3>1. Concerns(Release(q, c), c)
      BY DEF Concerns, Returning, Release, Call
    <3>2. Release(q, c) \in Waits(x)'
      BY <1>4, <2>3, <3>1
    <3> QED BY <3>2 DEF Gives
  <2> QED BY <2>1, <2>2, <2>3 DEF Gives
<1>11. Born(c)' /\ entry'[c].key = entry[c].key
  BY <1>1 DEF Born
<1>12. \A q \in Conns : c \in entry'[q].consumers => Born(q)'
  BY DEF TunnelOK, Born
<1> QED BY <1>6, <1>8, <1>9, <1>10, <1>11, <1>12 DEF TunnelOK

(* A release of the ancestor consumer.                                      *)
LEMMA DetachTunnel ==
  ASSUME TypeInv, IndexInv, OwnInv', DoomStays, NEW t \in Tasks, NEW c \in Conns, TunnelOK(c),
         ReleaseDetach(t), Cur(t).who = c, SameKind
  PROVE  TunnelOK(c)'
<1> DEFINE q == Cur(t).conn
<1>0. entry \in [Conns -> Entry]
  BY DEF TypeInv, RegistryOK
<1>1. /\ pc[t] = "enter" /\ Cur(t).op = "release" /\ Cur(t) \in Waits(t)
      /\ ent[t] \in Conns /\ q \in Conns
  BY AtLabel, WaitsNow DEF ReleaseDetach, AtCall, Inside, Labels, Front
<1>2. Returns(c)
  BY <1>1 DEF Returns, Returning
<1>3. /\ Waits(t)' = Elements(Rest(t)) /\ \A x \in Tasks \ {t} : Waits(x)' = Waits(x)
  <2>1. todo' = todo /\ \E label \in {"decrement", "decide"} : pc' = [pc EXCEPT ![t] = label]
    BY DEF ReleaseDetach, Goto
  <2> QED BY <1>1, <2>1, WaitsGoto DEF Front
<1>4. \A x \in Tasks : \A n \in Waits(x)' : n \in Waits(x)
  BY <1>1, <1>3, WaitsNow
<1>5. \A x \in Tasks : \A n \in Waits(x) : n \in Waits(x)' \/ n = Cur(t)
  BY <1>1, <1>3, WaitsNow
<1>6. /\ \A x \in Tasks : ~Borrows(x, c)
      /\ \A x \in Tasks, p \in Conns : ~Holds(x, p, c)
  BY <1>2 DEF TunnelOK
<1>7. /\ \A x \in Tasks : ~Borrows(x, c)'
      /\ \A x \in Tasks, p \in Conns : ~Holds(x, p, c)'
      /\ \A x \in Tasks : Tunnels(x, c)' => Tunnels(x, c)
  BY <1>4, <1>6 DEF Borrows, Holds, Tunnels
<1>8. /\ \A p \in Conns : /\ entry'[p].parent = entry[p].parent /\ entry'[p].key = entry[p].key
                          /\ entry'[p].parentConsumer = entry[p].parentConsumer
                          /\ p # ent[t] => entry'[p].consumers = entry[p].consumers
      /\ entry'[ent[t]].consumers = entry[ent[t]].consumers \ {c}
  <2>1. entry' = [entry EXCEPT ![ent[t]].consumers = @ \ {c}]
    BY DEF ReleaseDetach
  <2> QED BY <1>0, <1>1, <2>1 DEF Entry
<1>9. Born(c)' /\ (entry'[c].parentConsumer # None => Doomed(c)')
  BY <1>2, <1>8, OwnerDoomed DEF TunnelOK, Born
<1>10. ASSUME NEW p \in Conns, Registered(p)', c \in entry'[p].consumers
       PROVE  Owns(c, p)' \/ Gives(p, c)'
  <2>1. p # ent[t] /\ c \in entry[p].consumers /\ Registered(p)
    BY <1>8, <1>10 DEF ReleaseDetach, Registered, indexVars
  <2>2. Owns(c, p) \/ Gives(p, c)
    BY <1>6, <2>1 DEF TunnelOK
  <2>3. Owns(c, p) => Owns(c, p)'
    BY <1>8 DEF Owns
  <2>4. ASSUME NEW x \in Tasks, Release(p, c) \in Waits(x) PROVE Gives(p, c)'
    <3>1. Release(p, c) # Cur(t)
      <4>1. ASSUME q = p PROVE FALSE
        <5>1. ent[t] # q => byKey[key[t]] # q /\ entry[q].key = key[t]
          BY <1>1 DEF IndexInv, IndexTask
        <5>2. byId[q] # None => entry[q].key = byId[q]
          BY <1>1 DEF IndexInv
        <5> QED BY <2>1, <4>1, <5>1, <5>2 DEF Registered
      <4>2. Release(p, c).conn = p
        BY DEF Release, Call
      <4> QED BY <4>1, <4>2
    <3>2. Release(p, c) \in Waits(x)'
      BY <1>5, <2>4, <3>1
    <3> QED BY <3>2 DEF Gives
  <2> QED BY <2>2, <2>3, <2>4 DEF Gives
<1>11. \A p \in Conns : c \in entry'[p].consumers => Born(c)' /\ Born(p)'
  <2>1. \A p \in Conns : c \in entry'[p].consumers => c \in entry[p].consumers
    BY <1>8
  <2> QED BY <1>8, <2>1 DEF TunnelOK, Born
<1> QED BY <1>7, <1>8, <1>9, <1>10, <1>11 DEF TunnelOK, Born

(* A child that is disconnected gives its ancestor consumer back, and is    *)
(* retired.                                                                 *)
LEMMA DisconnectTunnel ==
  ASSUME TypeInv, IndexInv, TodoInv, DedicatedInv, OwnInv', DoomStays,
         NEW t \in Tasks, NEW c \in Conns, TunnelOK(c), Disconnect(t),
         Cur(t).conn = c, entry[ent[t]].parent # None, SameTunnel(c), SameKind, UNCHANGED indexVars
  PROVE  TunnelOK(c)'
<1> DEFINE e == entry[ent[t]]
<1>1. /\ pc[t] = "enter" /\ Cur(t).op = "kill" /\ ent[t] \in Conns /\ e \in Entry
      /\ OnEntry(t)
  BY AtLabel DEF Disconnect, AtCall, Inside, Labels, OnEntry
<1>k. \A x \in Conns : Born(x) => entry'[x].key = entry[x].key
  BY DEF SameKind
<1>r. \A p \in Conns : Registered(p)' <=> Registered(p)
  BY DEF Registered, indexVars
<1>2. CASE Finish(t)
  <2>1. Spares(t, c)
    <3>1. Dropped(t, c)
      BY <1>1, OpAside DEF Dropped, TunnelOps
    <3> QED BY <1>1, <1>2, <3>1, FinishSpares
  <2>2. SameCalls(c)
    BY <2>1, SparesCalls
  <2> QED BY <1>k, <1>r, <2>2, QuietTunnel
<1>3. ASSUME NEW known \in BOOLEAN,
             Continue(t, (IF known /\ e.parent # None THEN << Release(e.parent, c) >> ELSE << >>)
                         \o << Call("clear", ent[t], None, None),
                               Mark(c, "Disconnected"), Retire(c) >> \o Rest(t))
      PROVE  TunnelOK(c)'
  <2> DEFINE a == IF known /\ e.parent # None THEN << Release(e.parent, c) >> ELSE << >>
             x == Call("clear", ent[t], None, None)
             y == Mark(c, "Disconnected")
             z == Retire(c)
             m == Release(e.parent, c)
             b == << x, y, z >>
  <2>1. x \in Calls /\ y \in Calls /\ z \in Calls /\ m \in Calls
    BY <1>1, UnaryCall, MarkCall, ReleaseCall DEF Retire, States, Entry, Users
  <2>2. ~Concerns(x, c) /\ ~Concerns(y, c) /\ ~Concerns(z, c) /\ ~Tunnelling(m, c) /\ m.op = "release"
    <3>1. ~Tunnelling(m, c) /\ m.op = "release"
      BY DEF Release, Call, Tunnelling
    <3> QED BY <3>1, CallAside DEF Mark, Retire, TunnelOps
  <2>3. a \in Seq(Calls) /\ \A n \in Elements(a) : n = m
    <3>1. CASE known
      <4>1. a = << m >>
        BY <3>1
      <4> HIDE DEF a, m
      <4> QED BY <2>1, <4>1, ElementsOne
    <3>2. CASE ~known
      <4>1. a = << >> /\ << >> \in Seq(Calls)
        BY <3>2
      <4> QED BY <4>1, ElementsNone
    <3> QED BY <3>1, <3>2
  <2>4. Continue(t, a \o b \o Rest(t))
    BY <1>3
  <2>5. z.op = "retire" /\ z.conn = c
    BY DEF Retire, Call
  <2> HIDE DEF a, x, y, z, m
  <2>6. b \in Seq(Calls) /\ Elements(b) = {x, y, z}
    <3>1. b \in Seq(Calls)
      BY <2>1
    <3>2. Len(b) = 3 /\ b[1] = x /\ b[2] = y /\ b[3] = z
      OBVIOUS
    <3> HIDE DEF b
    <3> QED BY <3>1, <3>2 DEF Elements
  <2> HIDE DEF b
  <2> DEFINE s == a \o b
             r == Rest(t)
  <2>7. s \in Seq(Calls) /\ Elements(s) = Elements(a) \cup Elements(b)
    BY <2>3, <2>6, ElementsJoin
  <2>8. Continue(t, s \o r) /\ r \in Seq(Calls)
    BY <1>1, <2>4, AtLabel
  <2>d. Rest(t) = r
    OBVIOUS
  <2> HIDE DEF s, r
  <2>9. Elements(s \o r) = Elements(s) \cup Elements(r)
    BY <2>7, <2>8, ElementsJoin
  <2>10. /\ Waits(t)' = Elements(s \o r) /\ \A v \in Tasks \ {t} : Waits(v)' = Waits(v)
    BY <2>8, WaitsContinue
  <2>11. ASSUME NEW v \in Tasks, NEW n, n \in Waits(v)', Concerns(n, c), n # m
         PROVE  n \in Waits(v)
    <3>1. CASE v = t
      BY <1>1, <2>2, <2>3, <2>6, <2>7, <2>9, <2>10, <2>11, <2>d, <3>1, WaitsNow
    <3> QED BY <2>10, <2>11, <3>1
  <2>12. ASSUME NEW v \in Tasks, NEW n, n \in Waits(v), Concerns(n, c) PROVE n \in Waits(v)'
    <3>1. n # Cur(t)
      BY <1>1, <2>12, OpAside DEF TunnelOps
    <3> QED BY <1>1, <2>9, <2>10, <2>12, <2>d, <3>1, WaitsNow
  <2>13. Doomed(c)'
    <3>1. todo'[t] = s \o r
      BY <2>8 DEF Continue, TypeInv, TasksOK
    <3>2. z \in Elements(todo'[t])
      BY <2>6, <2>7, <2>9, <3>1
    <3>3. \E i \in 1 .. Len(todo'[t]) : todo'[t][i] = z
      BY <3>2 DEF Elements
    <3> QED BY <2>5, <3>3 DEF Doomed
  <2>14. ASSUME NEW v \in Tasks, Tunnels(v, c) PROVE entry[c].parent # None
    <3>1. entry[c].key \in Conns
      BY <2>14 DEF TunnelOK
    <3>2. ent[t] = c
      BY <1>1, <3>1, OnDedicated
    <3> QED BY <3>2
  <2>15. /\ \A v \in Tasks : ~Borrows(v, c)
         /\ \A v \in Tasks, p \in Conns : ~Holds(v, p, c)
    <3>1. \A v \in Tasks : Borrows(v, c) => Tunnels(v, c)
      BY DEF Borrows, Tunnels, Tunnelling
    <3> QED BY <2>14, <3>1, HoldsTunnels DEF TunnelOK
  <2>16. /\ \A v \in Tasks : Tunnels(v, c)' => Tunnels(v, c)
         /\ \A v \in Tasks : ~Borrows(v, c)'
    <3>1. \A v \in Tasks : Borrows(v, c)' => Borrows(v, c)
      BY <2>2, <2>11 DEF Borrows, Concerns, Tunnelling
    <3>2. \A v \in Tasks : Tunnels(v, c)' => Tunnels(v, c)
      BY <2>2, <2>11 DEF Tunnels, Concerns
    <3> QED BY <2>15, <3>1, <3>2
  <2>17. \A v \in Tasks, p \in Conns : ~Holds(v, p, c)'
    <3>1. \A p \in Conns : p # None
      BY RegistryAssumption
    <3>2. \A v \in Tasks, p \in Conns : Holds(v, p, c)' => Holds(v, p, c)
      BY <2>2, <2>11, <3>1 DEF Holds, Concerns, Tunnelling
    <3> QED BY <2>15, <3>2
  <2>18. ASSUME NEW p \in Conns, Gives(p, c) PROVE Gives(p, c)'
    <3>1. Concerns(Release(p, c), c)
      BY DEF Concerns, Returning, Release, Call
    <3> QED BY <2>12, <2>18, <3>1 DEF Gives
  <2>19. Born(c)'
    <3>1. Born(ent[t]) /\ entry[ent[t]].key = entry[c].key
      BY <1>1 DEF DedicatedInv
    <3> QED BY <3>1 DEF Born, SameTunnel
  <2>20. \A p \in Conns : c \in entry'[p].consumers => Born(c)' /\ Born(p)'
    BY <1>k DEF TunnelOK, SameTunnel, Born
  <2>21. \A p \in Conns : Registered(p)' /\ c \in entry'[p].consumers => Owns(c, p)' \/ Gives(p, c)'
    <3>1. \A p : Owns(c, p) => Owns(c, p)'
      BY RegistryAssumption DEF Owns, SameTunnel
    <3> QED BY <1>r, <2>15, <2>18, <3>1 DEF TunnelOK, SameTunnel
  <2> QED BY <2>13, <2>16, <2>17, <2>19, <2>20, <2>21 DEF TunnelOK, SameTunnel
<1>4. Finish(t) \/ \E known \in BOOLEAN :
        Continue(t, (IF known /\ e.parent # None THEN << Release(e.parent, c) >> ELSE << >>)
                    \o << Call("clear", ent[t], None, None),
                          Mark(c, "Disconnected"), Retire(c) >> \o Rest(t))
  BY DEF Disconnect
<1> QED BY <1>2, <1>3, <1>4

(* A child borrows its parent: the task holds it for the dial.              *)
LEMMA BorrowTunnel ==
  ASSUME TypeInv, IndexInv, TodoInv, OwnInv', DoomStays, NEW t \in Tasks, NEW c \in Conns,
         TunnelOK(c), Attach(t), Cur(t).op = "borrow", Cur(t).who = c, SameKind
  PROVE  TunnelOK(c)'
<1>p. PICK p \in Conns : p = ent[t]
  BY AtLabel DEF Attach, AtCall, Inside, Labels
<1> DEFINE u == Cur(t).arg
           m == Call("dial", c, u, p)
<1>0. entry \in [Conns -> Entry]
  BY DEF TypeInv, RegistryOK
<1>1. /\ pc[t] = "enter" /\ Cur(t) \in Waits(t) /\ p \in Conns /\ Born(p) /\ p # None
      /\ Rest(t) = << >> /\ c # None
  <2>1. pc[t] = "enter"
    BY DEF Attach, AtCall
  <2>2. p \in Conns /\ Born(p)
    BY <1>p, <2>1 DEF IndexInv, IndexTask
  <2> QED BY <2>1, <2>2, TodoRest, WaitsNow, RegistryAssumption DEF LateOps, Front
<1>2. /\ Waits(t)' = {m} /\ \A x \in Tasks \ {t} : Waits(x)' = Waits(x)
  <2>1. Continue(t, << m >> \o << >>) /\ m \in Calls
    <3>1. u \in Users
      BY <1>1, AtLabel, CallShape
    <3> QED BY <1>p, <1>1, <3>1 DEF Attach, Call, Calls
  <2> HIDE DEF m
  <2>2. << m >> \in Seq(Calls) /\ << >> \in Seq(Calls)
    BY <2>1
  <2>3. Elements(<< m >> \o << >>) = {m}
    BY <2>2, ElementsJoin, ElementsOne, ElementsNone
  <2> QED BY <2>1, <2>3, WaitsContinue
<1>3. m.op = "dial" /\ m.conn = c /\ m.arg = p
  BY DEF Call
<1> HIDE DEF m
<1>4. Borrows(t, c) /\ Tunnels(t, c)
  BY <1>1 DEF Borrows, Tunnels, Tunnelling
<1>5. /\ ~Returns(c) /\ entry[c].parent = None /\ entry[c].parentConsumer = None
      /\ \A q \in Conns : c \notin entry[q].consumers
      /\ entry[c].key = c
      /\ \A x \in Tasks \ {t} : ~Tunnels(x, c)
  BY <1>4 DEF TunnelOK
<1>6. ~Returns(c)'
  BY <1>2, <1>3, <1>5 DEF Returns, Returning
<1>7. \A x \in Tasks \ {t} : ~Tunnels(x, c)'
  BY <1>2, <1>5 DEF Tunnels
<1>8. \A x \in Tasks : ~Borrows(x, c)'
  <2>1. \A x \in Tasks : Borrows(x, c)' => Tunnels(x, c)'
    BY DEF Borrows, Tunnels, Tunnelling
  <2>2. ~Borrows(t, c)'
    BY <1>2, <1>3 DEF Borrows
  <2> QED BY <1>7, <2>1, <2>2
<1>9. ASSUME NEW x \in Tasks, NEW q \in Conns, Holds(x, q, c)' PROVE x = t /\ q = p
  <2>1. x = t
    <3>1. q # None
      BY RegistryAssumption
    <3>2. Tunnels(x, c)'
      BY <1>9, <3>1 DEF Holds, Tunnels, Tunnelling
    <3> QED BY <1>7, <3>2
  <2>2. q = p
    BY <1>2, <1>3, <1>9, <2>1 DEF Holds
  <2> QED BY <2>1, <2>2
<1>10. Holds(t, p, c)'
  BY <1>2, <1>3 DEF Holds
<1>11. /\ \A q \in Conns : /\ entry'[q].parent = entry[q].parent /\ entry'[q].key = entry[q].key
                           /\ entry'[q].parentConsumer = entry[q].parentConsumer
                           /\ q # p => entry'[q].consumers = entry[q].consumers
       /\ entry'[p].consumers = entry[p].consumers \cup {c}
  <2>1. \A e \in Entry : /\ PushAndRevive(e, c).parent = e.parent
                         /\ PushAndRevive(e, c).key = e.key
                         /\ PushAndRevive(e, c).parentConsumer = e.parentConsumer
                         /\ PushAndRevive(e, c).consumers = e.consumers \cup {c}
    BY DEF Push, PushAndRevive, Entry
  <2>2. entry' = [entry EXCEPT ![p] = PushAndRevive(entry[p], c)]
    BY <1>p DEF Attach
  <2> QED BY <1>0, <1>1, <2>1, <2>2
<1>12. Born(c)' /\ Born(p)'
  BY <1>1, <1>5, <1>11 DEF Born
<1>13. \A q \in Conns : c \in entry'[q].consumers => q = p
  BY <1>5, <1>11
<1> QED BY <1>5, <1>6, <1>7, <1>8, <1>9, <1>10, <1>11, <1>12, <1>13 DEF TunnelOK

(* The dial through the parent succeeds: the task still holds the parent.   *)
LEMMA ReachCalls ==
  ASSUME TypeInv, TodoInv, NEW t \in Tasks, NEW c \in Conns, DialReaches(t),
         Cur(t).conn = c, Cur(t).arg # None
  PROVE  SameCalls(c)
<1> DEFINE u == Cur(t).who
           p == Cur(t).arg
           v == Call("adopt", c, u, p)
           w == Call("activate", c, u, p)
<1>1. /\ pc[t] = "start" /\ Cur(t).op = "dial" /\ Rest(t) = << >>
      /\ u \in Users /\ p \in Conns
  <2>1. pc[t] = "start" /\ Cur(t).op = "dial"
    BY DEF DialReaches, AtCall
  <2> QED BY <2>1, AtLabel, TodoRest, CallShape DEF LateOps
<1>2. Waits(t)' = {v, w} /\ \A x \in Tasks \ {t} : Waits(x)' = Waits(x)
  <2>1. Continue(t, << v, w >> \o << >>) /\ v \in Calls /\ w \in Calls
    BY <1>1 DEF DialReaches, Call, Calls
  <2> HIDE DEF v, w
  <2>2. << v, w >> \in Seq(Calls) /\ << >> \in Seq(Calls)
    BY <2>1
  <2>3. Elements(<< v, w >>) = {v, w}
    <3>1. Len(<< v, w >>) = 2 /\ << v, w >>[1] = v /\ << v, w >>[2] = w
      OBVIOUS
    <3> QED BY <3>1 DEF Elements
  <2>4. Elements(<< v, w >> \o << >>) = {v, w}
    BY <2>2, <2>3, ElementsJoin, ElementsNone
  <2> QED BY <2>1, <2>4, WaitsContinue
<1>3. /\ v.op = "adopt" /\ v.conn = c /\ v.arg = p
      /\ w.op = "activate" /\ w.conn = c
  BY DEF Call
<1> HIDE DEF v, w
<1>4. Waits(t) = {Cur(t)}
  BY <1>1, ChildCalls DEF Front
<1>5. Tunnels(t, c)
  BY <1>1, <1>4 DEF Tunnels, Tunnelling
<1>6. ~Borrows(t, c)'
  BY <1>2, <1>3 DEF Borrows
<1>7. \A q \in Conns : Holds(t, q, c)' <=> Holds(t, q, c)
  BY <1>1, <1>2, <1>3, <1>4 DEF Holds
<1>8. Returns(c)' => Returns(c)
  BY <1>2, <1>3 DEF Returns, Returning
<1>9. ASSUME NEW q \in Conns, Gives(q, c) PROVE Gives(q, c)'
  <2>1. PICK x \in Tasks : Release(q, c) \in Waits(x)
    BY <1>9 DEF Gives
  <2>2. Release(q, c).op = "release"
    BY DEF Release, Call
  <2>3. x # t
    BY <1>1, <1>4, <2>1, <2>2
  <2> QED BY <1>2, <2>1, <2>3 DEF Gives
<1>10. \A x \in Tasks \ {t} : /\ Tunnels(x, c)' <=> Tunnels(x, c)
                              /\ Borrows(x, c)' <=> Borrows(x, c)
                              /\ \A q \in Conns : Holds(x, q, c)' <=> Holds(x, q, c)
  BY <1>2 DEF Tunnels, Borrows, Holds
<1> QED BY <1>5, <1>6, <1>7, <1>8, <1>9, <1>10 DEF SameCalls

(* The child takes its parent over.                                         *)
LEMMA AdoptTunnel ==
  ASSUME TypeInv, IndexInv, TodoInv, OwnInv', DoomStays, NEW t \in Tasks, NEW c \in Conns,
         TunnelOK(c), Adopt(t), StillRegistered(t), Cur(t).conn = c
  PROVE  TunnelOK(c)'
<1> DEFINE p == Cur(t).arg
           w == Call("activate", c, Cur(t).who, p)
<1>0. entry \in [Conns -> Entry]
  BY DEF TypeInv, RegistryOK
<1>1. /\ pc[t] = "enter" /\ Cur(t).op = "adopt" /\ Cur(t) \in Waits(t) /\ p \in Conns
      /\ ent[t] = c /\ Rest(t) = << w >> /\ c # None /\ p # None
  <2>1. pc[t] = "enter" /\ Cur(t).op = "adopt"
    BY DEF Adopt, AtCall
  <2> QED BY <2>1, AtLabel, TodoRest, ChildCalls, CallShape, StillRegisteredEntry,
             RegistryAssumption DEF Front
<1>2. /\ Waits(t)' = {w} /\ \A x \in Tasks \ {t} : Waits(x)' = Waits(x)
      /\ \A m \in Waits(t) : m = Cur(t) \/ m = w
  <2>1. Finish(t)
    BY DEF Adopt
  <2>2. Elements(Rest(t)) = {w}
    <3> HIDE DEF w
    <3> QED BY <1>1, ElementsOne
  <2> QED BY <1>1, <2>1, <2>2, WaitsContinue, WaitsNow DEF Finish
<1>3. w.op = "activate" /\ w.conn = c
  BY DEF Call
<1> HIDE DEF w
<1>4. Holds(t, p, c) /\ Tunnels(t, c)
  BY <1>1 DEF Holds, Tunnels, Tunnelling
<1>5. /\ ~Returns(c) /\ entry[c].parent = None /\ c \in entry[p].consumers
      /\ entry[c].key = c /\ \A x \in Tasks \ {t} : ~Tunnels(x, c)
  BY <1>1, <1>4 DEF TunnelOK
<1>6. ~Returns(c)'
  BY <1>2, <1>3, <1>5 DEF Returns, Returning
<1>7. \A x \in Tasks \ {t} : ~Tunnels(x, c)'
  BY <1>2, <1>5 DEF Tunnels
<1>8. /\ \A x \in Tasks : ~Borrows(x, c)'
      /\ \A x \in Tasks, q \in Conns : ~Holds(x, q, c)'
  <2>1. \A x \in Tasks : Borrows(x, c)' => Tunnels(x, c)'
    BY DEF Borrows, Tunnels, Tunnelling
  <2>2. \A x \in Tasks : \A q \in Conns : Holds(x, q, c)' => Tunnels(x, c)'
    <3>1. \A q \in Conns : q # None
      BY RegistryAssumption
    <3> QED BY <3>1 DEF Holds, Tunnels, Tunnelling
  <2>3. ~Borrows(t, c)' /\ \A q \in Conns : ~Holds(t, q, c)'
    BY <1>2, <1>3 DEF Borrows, Holds
  <2> QED BY <1>7, <2>1, <2>2, <2>3
<1>9. /\ \A q \in Conns : entry'[q].key = entry[q].key /\ entry'[q].consumers = entry[q].consumers
      /\ entry'[c].parent = p /\ entry'[c].parentConsumer = c
  <2>1. entry' = [entry EXCEPT ![c].parent = p, ![c].parentConsumer = c]
    BY <1>1 DEF Adopt
  <2> QED BY <1>0, <2>1 DEF Entry
<1>10. ASSUME NEW q \in Conns, Registered(q)', c \in entry'[q].consumers PROVE Owns(c, q)'
  <2>1. Registered(q) /\ c \in entry[q].consumers
    BY <1>9, <1>10 DEF Adopt, Registered, indexVars
  <2>2. ~Owns(c, q)
    BY <1>5, RegistryAssumption DEF Owns
  <2>3. ~Gives(q, c)
    <3>1. \A x : Release(q, c) \in Waits(x) => \E m \in Waits(x) : Returning(m, c)
      BY DEF Returning, Release, Call
    <3> QED BY <1>5, <3>1 DEF Gives, Returns
  <2>4. PICK x \in Tasks : Holds(x, q, c)
    BY <2>1, <2>2, <2>3 DEF TunnelOK
  <2>5. x = t
    BY <1>5, <2>4, HoldsTunnels
  <2>6. q = p
    BY <1>2, <1>3, <2>4, <2>5 DEF Holds
  <2> QED BY <1>9, <2>6 DEF Owns
<1>11. \A q \in Conns : c \in entry'[q].consumers => Born(c)' /\ Born(q)'
  BY <1>9 DEF TunnelOK, Born
<1>12. Born(c)'
  BY <1>1, <1>5, <1>9 DEF Born
<1> QED BY <1>1, <1>5, <1>6, <1>7, <1>8, <1>9, <1>10, <1>11, <1>12 DEF TunnelOK

(* Every step keeps the invariant.                                          *)

LEMMA SparesTunnel ==
  ASSUME TypeInv, OwnInv', DoomStays, TunnelInv, NEW t \in Tasks, NEW c \in Conns,
         SameTunnel(c), Spares(t, c), NoneRegisters(Conns),
         \A x \in Conns : Born(x) => entry'[x].key = entry[x].key
  PROVE  TunnelOK(c)'
<1>1. SameCalls(c)
  BY SparesCalls
<1> QED BY <1>1, QuietTunnel DEF TunnelInv, NoneRegisters

LEMMA AcquireTunnel ==
  ASSUME TypeInv, IndexInv, TodoInv, OwnInv', DoomStays, TunnelInv, NEW t \in Tasks, Acquire(t)
  PROVE  TunnelInv'
<1> DEFINE k == Cur(t).arg
<1>0. entry \in [Conns -> Entry] /\ k \in Keys /\ k \in PoolKeys /\ k # None
  BY AtLabel, CallShape, RegistryAssumption DEF TypeInv, RegistryOK, Acquire, AtCall, PoolKeys
<1>1. \A c \in Conns : Spares(t, c)
  BY AcquireSpares
<1>2. CASE UNCHANGED <<indexVars, entry>>
  <2>1. (\A c \in Conns : SameTunnel(c)) /\ NoneRegisters(Conns)
    BY <1>2 DEF SameTunnel, NoneRegisters, Registered, indexVars
  <2>2. \A x \in Conns : Born(x) => entry'[x].key = entry[x].key
    BY <1>2
  <2> QED BY <1>1, <2>1, <2>2, SparesTunnel DEF TunnelInv
<1>3. ASSUME NEW d \in Conns, ~Born(d), byKey[k] = None,
             byKey' = [byKey EXCEPT ![k] = d], byId' = [byId EXCEPT ![d] = k],
             entry' = [entry EXCEPT ![d] = NewEntry(k, FALSE, poolTimeout)]
      PROVE  TunnelInv'
  <2>1. NoneRegisters(Conns \ {d})
    BY <1>0, <1>3, InsertRegisters
  <2>2. /\ \A x \in Conns \ {d} : entry'[x] = entry[x]
        /\ \A x \in Conns : x \notin entry'[d].consumers
        /\ entry'[d].parent = None /\ entry'[d].parentConsumer = None /\ entry'[d].key # None
    BY <1>0, <1>3 DEF NewEntry
  <2>3. \A x \in Tasks \ {t} : Waits(x)' = Waits(x)
    BY <1>1 DEF Spares
  <2>4. ~Tunnels(t, d) /\ ~Returns(d)
    BY <1>3, UnbornTunnel DEF TunnelInv
  <2>5. \A m \in Waits(t)' : Concerns(m, d) => m \in Waits(t)
    BY <1>1 DEF Spares
  <2>6. \A m \in Waits(t)' : ~Concerns(m, d)
    BY <2>4, <2>5 DEF Tunnels, Returns, Concerns
  <2>7. ~Tunnels(t, d)' /\ \A m \in Waits(t)' : ~Returning(m, d)
    BY <2>6 DEF Tunnels, Concerns
  <2>8. \A p \in Conns : ~Holds(t, p, d)'
    <3>1. \A p \in Conns : p # None
      BY RegistryAssumption
    <3> QED BY <2>6, <3>1 DEF Holds, Concerns, Tunnelling
  <2> QED BY <1>1, <1>3, <2>1, <2>2, <2>3, <2>7, <2>8, MakesTunnels
<1> QED BY <1>2, <1>3 DEF Acquire

LEMMA StartTunnel ==
  ASSUME TypeInv, IndexInv, TodoInv, OwnInv', DoomStays, TunnelInv, NEW t \in Tasks,
         NEW d \in Conns, NEW u \in Consumers, NEW p \in Conns \cup {None},
         StartDedicated(t, d, u, p)
  PROVE  TunnelInv'
<1> DEFINE m == IF p = None THEN Call("dial", d, u, None) ELSE Call("borrow", p, d, u)
<1>0. entry \in [Conns -> Entry] /\ d \in PoolKeys /\ d # None
  BY RegistryAssumption DEF TypeInv, RegistryOK, PoolKeys
<1>1. /\ ~Born(d)
      /\ byKey' = [byKey EXCEPT ![d] = d] /\ byId' = [byId EXCEPT ![d] = d]
      /\ entry' = [entry EXCEPT ![d] = Push(NewEntry(d, TRUE, poolTimeout), u)]
  BY DEF StartDedicated, OpenDedicated
<1>2. byKey[d] = None
  <2>1. ASSUME byKey[d] # None PROVE FALSE
    <3>1. byKey[d] \in Conns /\ Born(byKey[d]) /\ entry[byKey[d]].key = d
      BY <1>0, <2>1, RegisteredBorn
    <3>2. byKey[d] = d
      BY <3>1 DEF IndexInv
    <3> QED BY <1>1, <3>1, <3>2
  <2> QED BY <2>1
<1>3. pc[t] = "free" /\ Continue(t, << m >>)
  BY DEF StartDedicated, Start
<1>4. NoneRegisters(Conns \ {d})
  BY <1>0, <1>1, <1>2, InsertRegisters
<1>5. /\ \A x \in Conns \ {d} : entry'[x] = entry[x]
      /\ \A x \in Conns : x \notin entry'[d].consumers
      /\ entry'[d].parent = None /\ entry'[d].parentConsumer = None /\ entry'[d].key = d
  <2>1. u \notin Conns
    BY RegistryAssumption
  <2> QED BY <1>0, <1>1, <2>1 DEF NewEntry, Push
<1>6. /\ \A x \in Conns \ {d} : ~Concerns(m, x)
      /\ ~Returning(m, d) /\ m.op \in {"dial", "borrow"} /\ (m.op = "dial" => m.arg = None)
  BY DEF Call, Concerns, Tunnelling, Returning
<1> HIDE DEF m
<1>7. \A x \in Conns \ {d} : Spares(t, x)
  BY <1>3, <1>6, AsideOne, StartSpares
<1>8. Waits(t)' = {m} /\ \A x \in Tasks \ {t} : Waits(x)' = Waits(x)
  BY <1>3, WaitsContinue, ElementsOne
<1>9. \A q \in Conns : ~Holds(t, q, d)'
  <2>1. \A q \in Conns : q # None
    BY RegistryAssumption
  <2> QED BY <1>6, <1>8, <2>1 DEF Holds
<1>10. \A n \in Waits(t)' : ~Returning(n, d)
  BY <1>6, <1>8
<1> QED BY <1>0, <1>1, <1>4, <1>5, <1>7, <1>8, <1>9, <1>10, MakesTunnels

(* The entry lets its parent go.                                            *)
LEMMA LetGoStep ==
  ASSUME TypeInv, IndexInv, TodoInv, OwnInv', DoomStays, TunnelInv, NEW t \in Tasks,
         NEW c \in Conns, Disown(t) \/ RetireEnter(t), StillRegistered(t), NoneRegisters(Conns)
  PROVE  TunnelOK(c)'
<1> DEFINE d == ent[t]
           a == LetsGo(entry[d])
<1>0. /\ pc[t] = "enter" /\ Cur(t).op \in {"disown", "retire"} /\ d \in Conns
      /\ entry \in [Conns -> Entry] /\ Rest(t) \in Seq(Calls)
  BY AtLabel DEF Disown, RetireEnter, AtCall, Inside, Labels, TypeInv, RegistryOK
<1>1. /\ \A x \in Conns : entry'[x].key = entry[x].key /\ entry'[x].consumers = entry[x].consumers
      /\ \A x \in Conns \ {d} : entry'[x] = entry[x]
      /\ entry'[d].parentConsumer = None /\ entry'[d].parent \in {None, entry[d].parent}
  <2>1. CASE Disown(t)
    <3>1. entry' = [entry EXCEPT ![d].parent = None, ![d].parentConsumer = None]
      BY <2>1 DEF Disown
    <3> QED BY <1>0, <3>1 DEF Entry
  <2>2. CASE RetireEnter(t)
    <3>1. entry' = [entry EXCEPT ![d] = [Cancel(entry[d]) EXCEPT !.parentConsumer = None]]
      BY <2>2 DEF RetireEnter
    <3> QED BY <1>0, <3>1 DEF Cancel, Entry
  <2> QED BY <2>1, <2>2
<1>2. CASE c # d \/ entry[c].parentConsumer = None
  <2>1. SameTunnel(c)
    BY <1>0, <1>1, <1>2 DEF SameTunnel
  <2>2. Spares(t, c)
    BY <1>2, DisownSpares, RetireSpares
  <2> QED BY <1>1, <2>1, <2>2, SparesTunnel
<1>3. CASE c = d /\ entry[c].parentConsumer # None
  <2>1. /\ Waits(t)' = Elements(a) \cup Elements(Rest(t))
        /\ \A x \in Tasks \ {t} : Waits(x)' = Waits(x)
    <3>1. CASE RetireEnter(t)
      BY <3>1, RetireWaits
    <3>2. CASE Disown(t)
      <4>1. Continue(t, a \o Rest(t))
        BY <3>2 DEF Disown, LetsGo
      <4>2. a \in Seq(Calls)
        BY <1>0, OwnedPlain DEF LetsGo, Plain
      <4> HIDE DEF a
      <4> QED BY <1>0, <4>1, <4>2, WaitsContinue, ElementsJoin
    <3> QED BY <3>1, <3>2
  <2>2. Waits(t)' = Elements(LetsGo(entry[c])) \cup Elements(Rest(t))
    BY <1>3, <2>1
  <2>3. TunnelOK(c) /\ pc[t] # "free" /\ Cur(t).op \notin TunnelOps
    BY <1>0 DEF TunnelInv, TunnelOps
  <2>4. /\ entry'[c].parentConsumer = None /\ entry'[c].parent \in {None, entry[c].parent}
        /\ \A p \in Conns : c \in entry'[p].consumers <=> c \in entry[p].consumers
        /\ \A x \in Conns : Born(x) => entry'[x].key = entry[x].key
    BY <1>1, <1>3
  <2> QED BY <1>3, <2>1, <2>2, <2>3, <2>4, LetGoTunnel
<1> QED BY <1>2, <1>3

LEMMA StepTunnel ==
  ASSUME TypeInv, IndexInv, TodoInv, DedicatedInv, OwnInv', DoomStays, TunnelInv,
         NEW t \in Tasks, Step(t), ~Acquire(t), NEW c \in Conns
  PROVE  TunnelOK(c)'
<1>0. SameKind /\ NoneRegisters(Conns) /\ TunnelOK(c)
  BY KindKept, RegistersNone DEF TunnelInv
<1>k. \A x \in Conns : Born(x) => entry'[x].key = entry[x].key
  BY <1>0 DEF SameKind
<1>1. CASE SameTunnel(c) /\ Spares(t, c)
  BY <1>0, <1>k, <1>1, SparesTunnel
<1>2. CASE LookupId(t) \/ LookupKey(t)
  <2>1. \A x \in Conns : SameTunnel(x)
    BY <1>2, TunnelKept DEF LookupId, LookupKey, At, AtCall, AcquirePush, Attach, Adopt, Disown,
       ReleaseDetach, RetireEnter
  <2>2. CASE GivesUp(t, c)
    BY <1>0, <1>2, <2>1, <2>2, GivesUpTunnel
  <2>3. CASE ~GivesUp(t, c)
    BY <1>1, <1>2, <2>1, <2>3, LookupSpares
  <2> QED BY <2>2, <2>3
<1>3. CASE OutOfIds(t) \/ AcquireCancel(t)
  <2>1. SameTunnel(c)
    <3>1. entry \in [Conns -> Entry]
      BY DEF TypeInv, RegistryOK
    <3>2. \A e \in Entry : /\ Cancel(e).key = e.key
                          /\ Cancel(e).parent = e.parent
                          /\ Cancel(e).parentConsumer = e.parentConsumer
                          /\ Cancel(e).consumers = e.consumers
      BY DEF Cancel, Entry
    <3>3. CASE OutOfIds(t)
      BY <3>3 DEF OutOfIds, SameTunnel
    <3>4. CASE AcquireCancel(t)
      <4>1. entry' = [entry EXCEPT ![ent[t]] = Cancel(@)]
        BY <3>4 DEF AcquireCancel
      <4>2. \A x \in Conns : entry'[x] = entry[x] \/ entry'[x] = Cancel(entry[x])
        BY <3>1, <4>1
      <4>3. \A x \in Conns : /\ entry'[x].key = entry[x].key
                            /\ entry'[x].parent = entry[x].parent
                            /\ entry'[x].parentConsumer = entry[x].parentConsumer
                            /\ entry'[x].consumers = entry[x].consumers
        BY <3>1, <3>2, <4>2
      <4> QED BY <4>3 DEF SameTunnel
    <3> QED BY <1>3, <3>3, <3>4
  <2> QED BY <1>1, <1>3, <2>1, AcquireSpares
<1>4. CASE AcquirePush(t)
  <2>1. pc[t] # "free" /\ Cur(t).op = "acquire"
    BY <1>4, AtLabel DEF AcquirePush, At, TaskOK
  <2>2. Cur(t).who # c
    BY <2>1, TodoRest, RegistryAssumption DEF ByConsumer
  <2> QED BY <1>1, <1>4, <2>2, PushTunnel, AcquireSpares
<1>5. CASE Attach(t)
  <2>1. pc[t] # "free" /\ Cur(t).op \in {"attach", "borrow"}
    BY <1>5 DEF Attach, AtCall
  <2>2. CASE Cur(t).who = c
    <3>1. Cur(t).op = "borrow"
      BY <2>1, <2>2, TodoRest, RegistryAssumption DEF ByConsumer
    <3> QED BY <1>0, <1>5, <2>2, <3>1, BorrowTunnel
  <2>3. CASE Cur(t).who # c
    BY <1>1, <1>5, <2>3, PushTunnel, AcquireSpares
  <2> QED BY <2>2, <2>3
<1>6. CASE DialReaches(t) \/ DialFails(t)
  <2>1. \A x \in Conns : SameTunnel(x)
    <3>1. entry \in [Conns -> Entry]
      BY DEF TypeInv, RegistryOK
    <3> QED BY <1>0, <1>6, <3>1 DEF DialReaches, DialFails, Entry, SameTunnel
  <2>2. CASE Cur(t).conn = c /\ Cur(t).arg # None /\ DialReaches(t)
    <3>1. SameCalls(c)
      BY <2>2, ReachCalls
    <3> QED BY <1>0, <1>k, <2>1, <3>1, QuietTunnel DEF NoneRegisters
  <2>3. CASE Cur(t).conn = c /\ Cur(t).arg # None /\ DialFails(t)
    BY <1>0, <2>1, <2>3, GivesUpTunnel DEF GivesUp
  <2>4. CASE Cur(t).conn # c \/ Cur(t).arg = None
    BY <1>1, <1>6, <2>1, <2>4, DialSpares
  <2> QED BY <1>6, <2>2, <2>3, <2>4
<1>7. CASE Adopt(t)
  <2>1. CASE ~StillRegistered(t)
    <3>1. \A x \in Conns : SameTunnel(x)
      BY <1>7, <2>1 DEF Adopt, SameTunnel
    <3>2. CASE Cur(t).conn = c
      BY <1>0, <1>7, <2>1, <3>1, <3>2, GivesUpTunnel DEF GivesUp
    <3> QED BY <1>1, <1>7, <3>1, <3>2, AdoptSpares
  <2>2. CASE StillRegistered(t)
    <3>1. CASE Cur(t).conn = c
      BY <1>0, <1>7, <2>2, <3>1, AdoptTunnel
    <3>2. CASE Cur(t).conn # c
      <4>1. ent[t] = Cur(t).conn /\ ent[t] \in Conns
        BY <1>7, <2>2, StillRegisteredEntry DEF Adopt, AtCall
      <4>2. entry' = [entry EXCEPT ![ent[t]].parent = Cur(t).arg,
                                   ![ent[t]].parentConsumer = Cur(t).conn]
        BY <1>7, <2>2 DEF Adopt
      <4>3. SameTunnel(c)
        BY <3>2, <4>1, <4>2 DEF SameTunnel, TypeInv, RegistryOK, Entry
      <4> QED BY <1>1, <1>7, <3>2, <4>3, AdoptSpares
    <3> QED BY <3>1, <3>2
  <2> QED BY <2>1, <2>2
<1>8. CASE Disown(t) \/ RetireEnter(t)
  <2>1. CASE StillRegistered(t)
    BY <1>0, <1>8, <2>1, LetGoStep
  <2>2. CASE ~StillRegistered(t)
    <3>1. SameTunnel(c)
      BY <1>8, <2>2 DEF Disown, RetireEnter, SameTunnel
    <3> QED BY <1>1, <1>8, <2>2, <3>1, DisownSpares, RetireSpares
  <2> QED BY <2>1, <2>2
<1>9. CASE Disconnect(t)
  <2>1. SameTunnel(c) /\ UNCHANGED indexVars
    <3>1. ~Acquire(t) /\ ~AcquirePush(t) /\ ~Attach(t) /\ ~Adopt(t) /\ ~Disown(t)
          /\ ~ReleaseDetach(t) /\ ~RetireEnter(t)
      BY <1>9 DEF Disconnect, At, AtCall, AcquirePush, Attach, Adopt, Disown, Acquire,
         ReleaseDetach, RetireEnter
    <3> QED BY <1>9, <3>1, TunnelKept DEF Disconnect
  <2>2. CASE Cur(t).conn = c /\ entry[ent[t]].parent # None
    BY <1>0, <1>9, <2>1, <2>2, DisconnectTunnel
  <2>3. CASE ~(Cur(t).conn = c /\ entry[ent[t]].parent # None)
    BY <1>1, <1>9, <2>1, <2>3, DisconnectSpares
  <2> QED BY <2>2, <2>3
<1>10. CASE ReleaseDetach(t)
  <2>1. CASE Cur(t).who = c
    BY <1>0, <1>10, <2>1, DetachTunnel
  <2>2. CASE Cur(t).who # c
    BY <1>1, <1>10, <2>2, PushTunnel, OtherSpares
  <2> QED BY <2>1, <2>2
<1>11. CASE \/ ClearPhysical(t) \/ MarkState(t) \/ ReleaseDecrement(t) \/ ReleaseDecide(t)
            \/ KeepCancel(t) \/ Disarm(t) \/ Capture(t) \/ Settle(t)
            \/ RetireUnlink(t) \/ RetireForget(t)
            \/ KeepAliveOn(t) \/ KeepAliveOff(t) \/ Rearm(t)
  <2>1. CASE \/ AcquirePush(t) \/ Attach(t) \/ Adopt(t) \/ Disown(t) \/ ReleaseDetach(t)
             \/ RetireEnter(t)
    BY <1>4, <1>5, <1>7, <1>8, <1>10, <2>1
  <2>2. CASE ~(\/ AcquirePush(t) \/ Attach(t) \/ Adopt(t) \/ Disown(t) \/ ReleaseDetach(t)
               \/ RetireEnter(t))
    BY <1>1, <1>11, <2>2, TunnelKept, OtherSpares
  <2> QED BY <2>1, <2>2
<1>12. CASE TakeTransport(t)
  <2>1. SameTunnel(c)
    BY <1>12, TransportOnly DEF SameTunnel
  <2> QED BY <1>1, <1>12, <2>1, TransportSpares
<1> QED BY <1>2, <1>3, <1>4, <1>5, <1>6, <1>7, <1>8, <1>9, <1>10, <1>11, <1>12 DEF Step

LEMMA StepTunnelInv ==
  ASSUME TypeInv, IndexInv, TodoInv, SettleInv, DedicatedInv, OwnInv, OwnInv', TunnelInv,
         [Next]_vars
  PROVE  TunnelInv'
<1>1. DoomStays
  BY StepDoom
<1>2. ASSUME NEW t \in Tasks, Step(t) PROVE TunnelInv'
  <2>1. CASE Acquire(t)
    BY <1>1, <2>1, AcquireTunnel
  <2>2. CASE ~Acquire(t)
    BY <1>1, <1>2, <2>2, StepTunnel DEF TunnelInv
  <2> QED BY <2>1, <2>2
<1>3. ASSUME NEW t \in Workers, StartProgram(t) PROVE TunnelInv'
  <2>1. t \in Tasks
    BY DEF Tasks
  <2>2. CASE \E c \in Conns, u \in Consumers, p \in Conns \cup {None} : StartDedicated(t, c, u, p)
    BY <1>1, <2>1, <2>2, StartTunnel
  <2>3. CASE ~\E c \in Conns, u \in Consumers, p \in Conns \cup {None} : StartDedicated(t, c, u, p)
    <3>1. /\ \/ \E k \in Keys, u \in Consumers : StartNode(t, k, u)
             \/ \E d \in Conns : StartOnConnection(t, d)
             \/ \E b \in BOOLEAN : StartSetIdleTimeout(t, b)
          /\ UNCHANGED <<indexVars, entry>>
      BY <1>3, <2>3 DEF StartProgram, StartNode, StartOnConnection, StartCall,
         StartSetIdleTimeout
    <3>2. \A c \in Conns : Spares(t, c)
      BY <2>1, <3>1, ProgramSpares
    <3>3. /\ \A c \in Conns : SameTunnel(c)
          /\ NoneRegisters(Conns) /\ \A x \in Conns : Born(x) => entry'[x].key = entry[x].key
      BY <3>1 DEF SameTunnel, NoneRegisters, Registered, indexVars
    <3> QED BY <1>1, <2>1, <3>2, <3>3, SparesTunnel DEF TunnelInv
  <2> QED BY <2>2, <2>3
<1>4. ASSUME NEW t \in Reapers, NEW d \in Conns, Wake(t, d) PROVE TunnelInv'
  <2>1. t \in Tasks /\ entry \in [Conns -> Entry]
    BY DEF Tasks, TypeInv, RegistryOK
  <2>2. \A c \in Conns : Spares(t, c)
    BY <1>4, WakeSpares
  <2>3. \A c \in Conns : SameTunnel(c) /\ entry'[c].key = entry[c].key
    BY <1>4, <2>1 DEF Wake, SameTunnel, Entry
  <2>4. NoneRegisters(Conns)
    BY <1>4 DEF Wake, NoneRegisters, Registered, indexVars
  <2> QED BY <1>1, <2>1, <2>2, <2>3, <2>4, SparesTunnel DEF TunnelInv
<1>5. CASE UNCHANGED vars
  BY <1>5 DEF TunnelInv, TunnelOK, Owns, Born, Registered, Doomed, Returns, Gives, Holds, Tunnels,
     Borrows, Waits, Rest, vars
<1> QED BY <1>2, <1>3, <1>4, <1>5 DEF Next

LEMMA InitTunnelInv == Init => TunnelInv
<1> SUFFICES ASSUME Init, NEW c \in Conns PROVE TunnelOK(c)
  BY DEF TunnelInv
<1>1. \A t \in Tasks : Waits(t) = {}
  BY ElementsNone DEF Init, Waits
<1>2. \A x \in Conns : entry[x] = NewEntry(None, FALSE, TRUE)
  BY DEF Init
<1>3. /\ \A t \in Tasks : ~Tunnels(t, c) /\ ~Borrows(t, c)
      /\ \A t \in Tasks, p \in Conns : ~Holds(t, p, c)
      /\ ~Returns(c)
  BY <1>1 DEF Tunnels, Borrows, Holds, Returns
<1> QED BY <1>2, <1>3 DEF TunnelOK, NewEntry

(* At most one task makes the connection of a child through its parent, and *)
(* the parent is referenced from attach_ancestor to the hand-over by that   *)
(* task, afterwards by the child, until the release for the child runs.     *)
THEOREM TunnelInvariant == Spec => []TunnelInv
<1>1. Spec => []TodoInv
  BY InitTodoInv, StepTodoInv, TypeInvariant, PTL DEF Spec
<1>2. Spec => []SettleInv
  BY InitSettleInv, StepSettleInv, TypeInvariant, PTL DEF Spec
<1>3. Spec => []DedicatedInv
  BY <1>1, <1>2, InitDedicatedInv, StepDedicatedInv, TypeInvariant, IndexInvariant, PTL DEF Spec
<1>4. Spec => []OwnInv
  BY InitOwnInv, StepOwnInv, TypeInvariant, IndexInvariant, PTL DEF Spec
<1> QED
  BY <1>1, <1>2, <1>3, <1>4, InitTunnelInv, StepTunnelInv, TypeInvariant, IndexInvariant, PTL
  DEF Spec

(* A connection that runs through its parent keeps the parent referenced    *)
(* until its own retirement is due, so neither an idle timer nor the        *)
(* release of another consumer takes the parent away from it.               *)
THEOREM TunnelAlwaysHoldsParent == Spec => []TunnelHoldsParent
BY TunnelInvariant, TunnelInvHolds, PTL

(* No ancestor consumer is left behind: once every task has finished, a     *)
(* reference on a registered parent belongs to a registered child, also     *)
(* after a dial that failed and after a child retired while it dialled.     *)
THEOREM AncestorNeverOrphaned == Spec => []NoOrphanedAncestor
<1>1. Spec => []TodoInv
  BY InitTodoInv, StepTodoInv, TypeInvariant, PTL DEF Spec
<1>2. Spec => []OwnInv
  BY InitOwnInv, StepOwnInv, TypeInvariant, IndexInvariant, PTL DEF Spec
<1> QED BY <1>1, <1>2, TunnelInvariant, TypeInvariant, TunnelInvGives, PTL

-----------------------------------------------------------------------------
(* Idle timers.  A step either leaves a connection as well covered as it    *)
(* was, or the task that made it is on the way to using, arming or ending   *)
(* the connection, or it is one of the races of Overtaken.                  *)

(* A connection that was never made is not idle, and nobody decides on it.  *)
Deciders == {"decide", "keepCancel", "disarm", "capture", "settle"}

BornInv ==
  /\ \A c \in Conns : entry[c].state = "Idle" => Born(c)
  /\ \A t \in Tasks : pc[t] \in Deciders => Born(ent[t])

OthersStay(t) == \A x \in Tasks \ {t} : pc'[x] = pc[x] /\ ent'[x] = ent[x]

(* How a task comes to make a connection idle.                              *)
DecidesFrom(t) ==
  /\ OthersStay(t)
  /\ \A c \in Conns : Late(t, c)' => ent[t] = c /\ (ReleaseDecide(t) \/ KeepCancel(t) \/ Capture(t))
  /\ pc'[t] \in Deciders =>
       \/ pc[t] \in {"enter", "decrement"} \cup Deciders /\ ent'[t] = ent[t]
       \/ Rearm(t) /\ ent'[t] = Cur(t).conn /\ IdleUnused(entry[Cur(t).conn])

LEMMA StepDecides ==
  ASSUME TypeInv, NEW t \in Tasks, Step(t)
  PROVE  DecidesFrom(t)
<1>0. TasksOK
  BY DEF TypeInv
<1>1. ASSUME NEW s, Continue(t, s) PROVE DecidesFrom(t)
  BY <1>0, <1>1 DEF Continue, TasksOK, OthersStay, DecidesFrom, Late, Deciders
<1>2. ASSUME NEW label \in {"byKey", "enter", "cancel", "push", "decrement", "unlink", "forget"},
             pc' = [pc EXCEPT ![t] = label],
             ent' = ent \/ \E c : ent' = [ent EXCEPT ![t] = c]
      PROVE  DecidesFrom(t)
  BY <1>0, <1>2 DEF TasksOK, OthersStay, DecidesFrom, Late, Deciders
<1>3. ASSUME NEW label \in Labels, Goto(t, label), label \notin {"keepCancel", "settle"},
             pc[t] \in {"enter", "decrement"} \cup Deciders
      PROVE  DecidesFrom(t)
  BY <1>0, <1>3 DEF Goto, TasksOK, OthersStay, DecidesFrom, Late
<1>4. ASSUME NEW label \in Labels, Goto(t, label), pc[t] \in Deciders,
             ReleaseDecide(t) \/ KeepCancel(t) \/ Capture(t)
      PROVE  DecidesFrom(t)
  BY <1>0, <1>4 DEF Goto, TasksOK, OthersStay, DecidesFrom, Late
<1>5. CASE LookupId(t) \/ LookupKey(t)
  BY <1>1, <1>2, <1>5 DEF LookupId, LookupKey, Missing, Finish
<1>6. CASE Acquire(t)
  <2>1. pc' = [pc EXCEPT ![t] = "cancel"] /\ \E c : ent' = [ent EXCEPT ![t] = c]
    BY <1>6 DEF Acquire
  <2> QED BY <1>2, <2>1
<1>7. CASE \/ OutOfIds(t) \/ AcquirePush(t) \/ Attach(t) \/ DialReaches(t) \/ DialFails(t)
           \/ ClearPhysical(t) \/ Adopt(t) \/ Disown(t) \/ MarkState(t) \/ Settle(t)
           \/ RetireForget(t) \/ KeepAliveOn(t) \/ Disconnect(t)
  <2>1. \E s : Continue(t, s)
    BY <1>7 DEF OutOfIds, AcquirePush, Attach, DialReaches, DialFails, ClearPhysical,
       Adopt, Disown, MarkState, Settle, RetireForget, KeepAliveOn, Disconnect, Finish
  <2> QED BY <1>1, <2>1
<1>8. CASE AcquireCancel(t) \/ RetireUnlink(t)
  BY <1>2, <1>8 DEF AcquireCancel, RetireUnlink, Goto
<1>9. CASE ReleaseDetach(t) \/ ReleaseDecrement(t) \/ Disarm(t)
  <2>1. pc[t] \in {"enter", "decrement"} \cup Deciders
    BY <1>9 DEF ReleaseDetach, ReleaseDecrement, Disarm, At, AtCall, Deciders
  <2>2. Goto(t, "decrement") \/ Goto(t, "decide") \/ Goto(t, "capture")
    BY <1>9 DEF ReleaseDetach, ReleaseDecrement, Disarm
  <2> QED BY <1>3, <2>1, <2>2 DEF Labels
<1>10. CASE ReleaseDecide(t) \/ KeepCancel(t) \/ Capture(t)
  <2>1. pc[t] \in Deciders
    BY <1>10 DEF ReleaseDecide, KeepCancel, Capture, At, Deciders
  <2>2. \/ \E s : Continue(t, s)
        \/ Goto(t, "keepCancel") \/ Goto(t, "disarm") \/ Goto(t, "settle")
    BY <1>10 DEF ReleaseDecide, KeepCancel, Capture, Finish
  <2> QED BY <1>1, <1>4, <1>10, <2>1, <2>2 DEF Labels
<1>11. CASE RetireEnter(t)
  <2>1. CASE Finish(t)
    BY <1>1, <2>1 DEF Finish
  <2>2. CASE StillRegistered(t)
    BY <1>2, <1>11, <2>2 DEF RetireEnter
  <2> QED BY <1>11, <2>1, <2>2 DEF RetireEnter
<1>12. CASE KeepAliveOff(t)
  <2>1. pc[t] = "enter" /\ (Finish(t) \/ Goto(t, "disarm"))
    BY <1>12 DEF KeepAliveOff, AtCall
  <2> QED BY <1>1, <1>3, <2>1 DEF Finish, Labels
<1>13. CASE Rearm(t)
  <2>1. CASE Finish(t)
    BY <1>1, <2>1 DEF Finish
  <2>2. CASE /\ IdleUnused(entry[Cur(t).conn])
             /\ pc' = [pc EXCEPT ![t] = "disarm"] /\ ent' = [ent EXCEPT ![t] = Cur(t).conn]
    BY <1>0, <1>13, <2>2 DEF TasksOK, OthersStay, DecidesFrom, Late, Deciders
  <2> QED BY <1>13, <2>1, <2>2 DEF Rearm
<1>14. CASE TakeTransport(t)
  BY <1>14, TransportOnly DEF OthersStay, DecidesFrom, Late, Deciders
<1> QED BY <1>5, <1>6, <1>7, <1>8, <1>9, <1>10, <1>11, <1>12, <1>13, <1>14 DEF Step

-----------------------------------------------------------------------------
(* What is due stays due, except the disconnect that is made.               *)
EndStays(t) ==
  \A c \in Conns : Registered(c)' /\ Ending(c) => Ending(c)' \/ (Disconnect(t) /\ Cur(t).conn = c)

LEMMA EndingElements ==
  \A c : Ending(c) <=> \E t \in Tasks : \E m \in Elements(todo[t]) :
                          m.op \in {"retire", "kill"} /\ m.conn = c
BY DEF Ending, Elements

LEMMA KeepsDoomEnds ==
  ASSUME NEW t \in Tasks, KeepsDoom(t)
  PROVE  EndStays(t)
<1> SUFFICES ASSUME NEW c \in Conns, Registered(c)', Ending(c), ~(Disconnect(t) /\ Cur(t).conn = c)
             PROVE  Ending(c)'
  BY DEF EndStays
<1>1. PICK x \in Tasks : \E m \in Elements(todo[x]) : m.op \in {"retire", "kill"} /\ m.conn = c
  BY EndingElements
<1>2. PICK m \in Elements(todo[x]) : m.op \in {"retire", "kill"} /\ m.conn = c
  BY <1>1
<1>3. m \in Elements(todo'[x])
  BY <1>2 DEF KeepsDoom
<1>4. \E i \in 1 .. Len(todo'[x]) : todo'[x][i] = m
  BY <1>3 DEF Elements
<1> QED BY <1>2, <1>4 DEF Ending

LEMMA StepEnds ==
  ASSUME TypeInv, IndexInv, TodoInv, SettleInv, NEW t \in Tasks, Step(t)
  PROVE  EndStays(t)
BY LookupDoom, AcquireDoom, TransportDoom, OtherDoom, OwnershipDoom, DisconnectDoom, RetireDoom,
   KeepsDoomEnds
   DEF Step

(* A call of the connection that ends it.                                   *)
LEMMA EndingBy ==
  ASSUME NEW t \in Tasks, NEW c \in Conns, NEW m \in Elements(todo'[t]),
         m.op \in {"retire", "kill"}, m.conn = c
  PROVE  Ending(c)'
BY DEF Ending, Elements

(* What a step leaves of a connection.                                      *)
EntryKeeps(t, c) ==
  /\ entry'[c].timeoutOn = entry[c].timeoutOn
  /\ entry[c].armed > 0 => entry'[c].armed > 0
  /\ entry'[c].refCount = 0 => entry[c].refCount = 0
  /\ ~entry'[c].keepAlive => ~entry[c].keepAlive
  /\ entry'[c].state = "Idle" => entry[c].state = "Idle"
  /\ \A x \in Tasks \ {t} : x \in entry[c].captured => x \in entry'[c].captured

LEMMA StillTimed ==
  ASSUME NEW t \in Tasks, NEW c \in Conns, Timed(c),
         Registered(c)' => Registered(c), Registered(c)' /\ Ending(c) => Ending(c)',
         EntryKeeps(t, c), OthersStay(t), ~Late(t, c)', ~Covers(t, c)
  PROVE  Timed(c)'
<1> SUFFICES ASSUME MayIdle(c)'
             PROVE  entry'[c].armed > 0 \/ Ending(c)' \/ \E x \in Tasks : Covers(x, c)'
  BY DEF Timed
<1>1. Registered(c)' /\ Registered(c) /\ (Ending(c) => Ending(c)')
  BY DEF MayIdle
<1>2. ASSUME NEW x \in Tasks, Late(x, c)' PROVE Late(x, c)
  <2>1. x # t
    BY <1>2
  <2> QED BY <1>2, <2>1 DEF Late, OthersStay
<1>3. MayIdle(c)
  BY <1>1, <1>2 DEF MayIdle, EntryKeeps
<1>4. ASSUME NEW x \in Tasks, Covers(x, c) PROVE Covers(x, c)'
  <2>1. x # t
    BY <1>4
  <2> QED BY <1>4, <2>1 DEF Covers, EntryKeeps, OthersStay
<1> QED BY <1>1, <1>3, <1>4 DEF Timed, EntryKeeps

(* A connection that nobody makes idle and that is not idle needs nothing.  *)
LEMMA BusyTimed ==
  ASSUME NEW c \in Conns,
         \/ ~Registered(c)' \/ entry'[c].refCount # 0 \/ entry'[c].keepAlive
         \/ entry'[c].state # "Idle" /\ \A t \in Tasks : ~Late(t, c)'
  PROVE  Timed(c)'
BY DEF Timed, MayIdle

LEMMA CoveredTimed ==
  ASSUME NEW t \in Tasks, NEW c \in Conns, Covers(t, c)'
  PROVE  Timed(c)'
BY DEF Timed

LEMMA EndingTimed ==
  ASSUME NEW c \in Conns, Ending(c)'
  PROVE  Timed(c)'
BY DEF Timed

-----------------------------------------------------------------------------
(* One lemma for each way a task touches a connection it is on.             *)

TimerStep(t) ==
  /\ TypeInv /\ Step(t) /\ ~Acquire(t)
  /\ DecidesFrom(t) /\ EndStays(t) /\ NoneRegisters(Conns)

(* A connection that the step is not on.                                    *)
LEMMA ElsewhereTimed ==
  ASSUME NEW t \in Tasks, NEW c \in Conns, TimerStep(t), Timed(c),
         entry'[c] = entry[c], ent[t] # c, ~(Disconnect(t) /\ Cur(t).conn = c)
  PROVE  Timed(c)'
<1>1. ~Covers(t, c) /\ EntryKeeps(t, c)
  BY DEF Covers, EntryKeeps
<1>2. (Registered(c)' => Registered(c)) /\ (Registered(c)' /\ Ending(c) => Ending(c)')
  BY DEF TimerStep, NoneRegisters, EndStays
<1>3. OthersStay(t) /\ ~Late(t, c)'
  BY DEF TimerStep, DecidesFrom
<1> QED BY <1>1, <1>2, <1>3, StillTimed

LEMMA AsideTimed ==
  ASSUME NEW t \in Tasks, NEW c \in Conns, TimerStep(t), Timed(c),
         \/ LookupId(t) \/ LookupKey(t) \/ OutOfIds(t)
         \/ TakeTransport(t) \/ DialReaches(t) \/ DialFails(t)
         \/ ClearPhysical(t) \/ Adopt(t) \/ Disown(t) \/ MarkState(t) \/ ReleaseDetach(t)
         \/ RetireUnlink(t) \/ RetireForget(t)
  PROVE  Timed(c)'
<1>0. entry \in [Conns -> Entry] /\ TypeInv
  BY DEF TimerStep, TypeInv, RegistryOK
<1>1. pc[t] \in {"start", "byKey", "enter", "unlink", "forget"} /\ pc[t] # "free"
      /\ ~Disconnect(t)
  BY DEF LookupId, LookupKey, OutOfIds, TakeTransport, DialReaches, DialFails, ClearPhysical,
     Adopt, Disown, MarkState, ReleaseDetach, RetireUnlink, RetireForget, Disconnect, At, AtCall
<1>2. ~Covers(t, c)
  BY <1>1 DEF Covers
<1>3. (Registered(c)' => Registered(c)) /\ (Registered(c)' /\ Ending(c) => Ending(c)')
  BY <1>1 DEF TimerStep, NoneRegisters, EndStays
<1>4. OthersStay(t) /\ ~Late(t, c)'
  BY <1>1 DEF TimerStep, DecidesFrom, ReleaseDecide, KeepCancel, Capture, At
<1>5. EntryKeeps(t, c)
  <2>1. CASE UNCHANGED entry
    BY <2>1 DEF EntryKeeps
  <2>2. CASE DialReaches(t) \/ DialFails(t) \/ ClearPhysical(t) \/ ReleaseDetach(t)
    BY <1>0, <2>2 DEF DialReaches, DialFails, ClearPhysical, ReleaseDetach, Entry, EntryKeeps
  <2>3. CASE MarkState(t)
    <3> DEFINE s == IF Cur(t).op = "mark" THEN Cur(t).arg ELSE "Active"
    <3>1. s # "Idle"
      BY <1>0, <1>1, AtLabel, CallShape
    <3>2. entry' = [entry EXCEPT ![ent[t]].state = s]
      BY <2>3 DEF MarkState
    <3> HIDE DEF s
    <3> QED BY <1>0, <3>1, <3>2 DEF Entry, EntryKeeps
  <2>4. ASSUME NEW p, NEW u,
               entry' = [entry EXCEPT ![ent[t]].parent = p, ![ent[t]].parentConsumer = u]
        PROVE  EntryKeeps(t, c)
    BY <1>0, <2>4 DEF Entry, EntryKeeps
  <2> QED BY <2>1, <2>2, <2>3, <2>4
          DEF LookupId, LookupKey, OutOfIds, TakeTransport, Adopt, Disown, RetireUnlink, RetireForget
<1> QED BY <1>2, <1>3, <1>4, <1>5, StillTimed

(* A task that has cancelled a timer is on the way to using the connection, *)
(* or to arming one.                                                        *)
LEMMA CoverTimed ==
  ASSUME NEW t \in Tasks, NEW c \in Conns, TimerStep(t), Timed(c),
         AcquireCancel(t) \/ ReleaseDecrement(t) \/ Disarm(t) \/ Capture(t)
  PROVE  Timed(c)'
<1>0. entry \in [Conns -> Entry] /\ TasksOK /\ TypeInv
  BY DEF TimerStep, TypeInv, RegistryOK
<1>1. ent[t] \in Conns /\ pc[t] \in {"cancel", "decrement", "disarm", "capture"} /\ pc[t] # "free"
  BY <1>0, AtLabel DEF AcquireCancel, ReleaseDecrement, Disarm, Capture, At, Inside, Labels
<1>2. ent' = ent /\ \A x \in Conns \ {ent[t]} : entry'[x] = entry[x]
  BY <1>0 DEF AcquireCancel, ReleaseDecrement, Disarm, Capture, Goto
<1>3. CASE ent[t] # c
  <2>1. ~Disconnect(t)
    BY <1>1 DEF Disconnect, AtCall
  <2> QED BY <1>2, <1>3, <2>1, ElsewhereTimed
<1>4. CASE ent[t] = c
  <2>1. CASE AcquireCancel(t) \/ ReleaseDecrement(t) \/ Disarm(t)
    <3>1. pc'[t] \in {"push", "decide", "capture"}
      BY <1>0, <2>1 DEF AcquireCancel, ReleaseDecrement, Disarm, Goto, TasksOK
    <3>2. Covers(t, c)'
      BY <1>2, <1>4, <3>1 DEF Covers
    <3> QED BY <3>2, CoveredTimed
  <2>2. CASE Capture(t)
    <3>1. pc'[t] = "settle"
      BY <1>0, <2>2 DEF Capture, Goto, TasksOK
    <3>2. t \in entry'[c].captured
      BY <1>0, <1>4, <2>2 DEF Capture, Entry
    <3>3. Covers(t, c)'
      BY <1>2, <1>4, <3>1, <3>2 DEF Covers
    <3> QED BY <3>3, CoveredTimed
  <2> QED BY <2>1, <2>2
<1> QED BY <1>3, <1>4

(* A connection that a consumer joins is in use.                            *)
LEMMA JoinTimed ==
  ASSUME NEW t \in Tasks, NEW c \in Conns, TimerStep(t), Timed(c), CountInv,
         AcquirePush(t) \/ Attach(t)
  PROVE  Timed(c)'
<1>0. entry \in [Conns -> Entry] /\ TypeInv
  BY DEF TimerStep, TypeInv, RegistryOK
<1>1. ent[t] \in Conns /\ pc[t] \in {"push", "enter"} /\ pc[t] # "free" /\ ~Disconnect(t)
  BY <1>0, AtLabel DEF AcquirePush, Attach, Disconnect, At, AtCall, Inside, Labels
<1> DEFINE e == ent[t]
           u == Cur(t).who
<1>2. entry' = [entry EXCEPT ![e] = Push(@, u)] \/ entry' = [entry EXCEPT ![e] = PushAndRevive(@, u)]
  BY DEF AcquirePush, Attach
<1>3. CASE e # c
  <2>1. entry'[c] = entry[c]
    BY <1>0, <1>2, <1>3
  <2> QED BY <1>1, <1>3, <2>1, ElsewhereTimed
<1>4. CASE e = c
  <2>1. entry'[c].refCount = IF u \in entry[c].consumers THEN entry[c].refCount
                                                        ELSE entry[c].refCount + 1
    BY <1>0, <1>2, <1>4, PushJoins
  <2>2. u \in entry[c].consumers => entry[c].refCount > 0
    <3> DEFINE S == entry[c].consumers
    <3>1. /\ IsFiniteSet(S) /\ entry[c].refCount = Cardinality(S) + Cardinality(Releasing(c))
          /\ Cardinality(Releasing(c)) \in Nat
      BY ReleasingFinite DEF CountInv, CountOK
    <3>2. u \in S => Cardinality(S) \in Nat /\ Cardinality(S) # 0
      <4> HIDE DEF S
      <4> QED BY <3>1, FS_CardinalityType, FS_EmptySet
    <3> QED BY <3>1, <3>2
  <2>3. entry'[c].refCount # 0
    BY <1>0, <2>1, <2>2 DEF Entry
  <2> QED BY <2>3, BusyTimed
<1> QED BY <1>3, <1>4

LEMMA DecideTimed ==
  ASSUME NEW t \in Tasks, NEW c \in Conns, TimerStep(t), Timed(c), IndexInv, DedicatedInv,
         ReleaseDecide(t)
  PROVE  Timed(c)'
<1>0. TypeInv /\ Step(t) /\ ~Acquire(t)
  BY DEF TimerStep
<1>1. pc[t] = "decide" /\ ent[t] \in Conns /\ TasksOK /\ entry' = entry /\ ~Disconnect(t)
  BY <1>0, AtLabel DEF ReleaseDecide, Disconnect, At, AtCall, Inside, Labels
<1>2. CASE ent[t] # c
  BY <1>1, <1>2, ElsewhereTimed
<1>3. CASE ent[t] = c /\ (entry[c].refCount # 0 \/ entry[c].keepAlive)
  BY <1>1, <1>3, BusyTimed
<1>4. CASE ent[t] = c /\ entry[c].refCount = 0 /\ entry[c].dedicated
  <2>1. Cur(t).conn = c
    BY <1>0, <1>1, <1>4, OnDedicated DEF DedicatedInv, OnEntry
  <2>2. CountsDown(t)
    BY <1>0, StepCountsDown
  <2>3. PICK i \in 1 .. Len(todo'[t]) : todo'[t][i] = Retire(c)
    BY <1>1, <1>4, <2>1, <2>2 DEF CountsDown
  <2>4. todo'[t][i].op = "retire" /\ todo'[t][i].conn = c
    BY <2>3 DEF Retire, Call
  <2>5. Ending(c)'
    BY <2>4 DEF Ending
  <2> QED BY <2>5, EndingTimed
<1>5. CASE ent[t] = c /\ entry[c].refCount = 0 /\ ~entry[c].dedicated /\ ~entry[c].keepAlive
  <2>1. Goto(t, "disarm")
    BY <1>5 DEF ReleaseDecide
  <2>2. pc'[t] = "disarm" /\ ent'[t] = c
    BY <1>1, <1>5, <2>1 DEF Goto, TasksOK
  <2>3. Covers(t, c)'
    BY <2>2 DEF Covers
  <2> QED BY <2>3, CoveredTimed
<1> QED BY <1>2, <1>3, <1>4, <1>5

(* The transition to idle: the timer starts, unless somebody cancelled what *)
(* was captured, and then the connection was covered by somebody else.      *)
LEMMA SettleTimed ==
  ASSUME NEW t \in Tasks, NEW c \in Conns, TimerStep(t), Timed(c), Settle(t)
  PROVE  Timed(c)'
<1>0. /\ TypeInv /\ entry \in [Conns -> Entry]
      /\ ent[t] \in Conns /\ pc[t] = "settle" /\ ~Disconnect(t)
  <2>1. TypeInv /\ pc[t] = "settle" /\ ~Disconnect(t)
    BY DEF TimerStep, Settle, Disconnect, At, AtCall
  <2> QED BY <2>1, AtLabel DEF Inside, Labels, TypeInv, RegistryOK
<1>1. entry' = [entry EXCEPT ![ent[t]] =
         [entry[ent[t]] EXCEPT !.state = "Idle", !.captured = @ \ {t},
            !.armed = IF t \in entry[ent[t]].captured /\ entry[ent[t]].timeoutOn
                        THEN @ + 1 ELSE @]]
  BY DEF Settle
<1>2. CASE ent[t] # c
  BY <1>0, <1>1, <1>2, ElsewhereTimed
<1>3. CASE ent[t] = c
  <2>1. /\ entry'[c].captured = entry[c].captured \ {t}
        /\ entry'[c].refCount = entry[c].refCount /\ entry'[c].timeoutOn = entry[c].timeoutOn
        /\ entry'[c].keepAlive = entry[c].keepAlive
        /\ entry'[c].armed = IF t \in entry[c].captured /\ entry[c].timeoutOn
                               THEN entry[c].armed + 1 ELSE entry[c].armed
        /\ entry[c].armed \in Nat
    BY <1>0, <1>1, <1>3 DEF Entry
  <2> SUFFICES ASSUME MayIdle(c)'
               PROVE  entry'[c].armed > 0 \/ Ending(c)' \/ \E x \in Tasks : Covers(x, c)'
    BY DEF Timed
  <2>2. Registered(c)' /\ Registered(c)
    BY DEF MayIdle, TimerStep, NoneRegisters
  <2>3. MayIdle(c)
    BY <1>0, <1>3, <2>1, <2>2 DEF MayIdle, Late
  <2>4. CASE t \in entry[c].captured
    BY <2>1, <2>3, <2>4 DEF MayIdle
  <2>5. CASE t \notin entry[c].captured
    <3>1. ASSUME NEW x \in Tasks, Covers(x, c) PROVE Covers(x, c)'
      <4>1. x # t
        BY <1>0, <2>5, <3>1 DEF Covers
      <4>2. OthersStay(t)
        BY DEF TimerStep, DecidesFrom
      <4> QED BY <2>1, <3>1, <4>1, <4>2 DEF Covers, OthersStay
    <3>2. Ending(c) => Ending(c)'
      BY <1>0, <2>2 DEF TimerStep, EndStays
    <3> QED BY <2>1, <2>3, <2>5, <3>1, <3>2 DEF Timed
  <2> QED BY <2>4, <2>5
<1> QED BY <1>2, <1>3

LEMMA RetireTimed ==
  ASSUME NEW t \in Tasks, NEW c \in Conns, TimerStep(t), Timed(c), TypeInv', IndexInv',
         RetireEnter(t)
  PROVE  Timed(c)'
<1>0. /\ entry \in [Conns -> Entry] /\ ent[t] \in Conns /\ pc[t] = "enter" /\ TasksOK
      /\ ~Disconnect(t)
  <2>1. TypeInv /\ pc[t] = "enter" /\ ~Disconnect(t)
    BY DEF TimerStep, RetireEnter, Disconnect, AtCall
  <2> QED BY <2>1, AtLabel DEF Inside, Labels, TypeInv, RegistryOK
<1>1. CASE UNCHANGED entry
  <2>1. EntryKeeps(t, c) /\ ~Covers(t, c)
    BY <1>0, <1>1 DEF EntryKeeps, Covers
  <2>2. OthersStay(t) /\ ~Late(t, c)'
    BY <1>0 DEF TimerStep, DecidesFrom, ReleaseDecide, KeepCancel, Capture, At
  <2>3. (Registered(c)' => Registered(c)) /\ (Registered(c)' /\ Ending(c) => Ending(c)')
    BY <1>0 DEF TimerStep, NoneRegisters, EndStays
  <2> QED BY <2>1, <2>2, <2>3, StillTimed
<1>2. CASE ent[t] # c /\ StillRegistered(t)
  <2>1. entry'[c] = entry[c]
    BY <1>0, <1>2 DEF RetireEnter
  <2> QED BY <1>0, <1>2, <2>1, ElsewhereTimed
<1>3. CASE ent[t] = c /\ StillRegistered(t)
  <2>1. pc'[t] = "unlink" /\ ent'[t] = c
    BY <1>0, <1>3 DEF RetireEnter, TasksOK
  <2>2. Cur(t)'.op = "retire" /\ Cur(t)'.conn = c
    <3>1. TaskOK(t)' /\ IndexTask(t)'
      BY DEF TypeInv, TasksOK, IndexInv
    <3> QED BY <2>1, <3>1 DEF TaskOK, IndexTask
  <2>3. todo'[t] \in Seq(Calls) /\ todo'[t] # << >>
    BY <2>1 DEF TypeInv, TasksOK, TaskOK
  <2>4. 1 \in 1 .. Len(todo'[t]) /\ Cur(t)' = todo'[t][1]
    BY <2>3 DEF Cur
  <2>5. Ending(c)'
    BY <2>2, <2>4 DEF Ending
  <2> QED BY <2>5, EndingTimed
<1> QED BY <1>1, <1>2, <1>3 DEF RetireEnter

-----------------------------------------------------------------------------
(* The settings and the timers, with their races.                           *)

(* A release that found keep_alive makes the connection idle without a      *)
(* timer.                                                                   *)
LEMMA KeepTimed ==
  ASSUME NEW t \in Tasks, NEW c \in Conns, TimerStep(t), Timed(c), KeepCancel(t)
  PROVE  Timed(c)' \/ Overtaken(c)
<1>1. pc[t] = "keepCancel" /\ ~Disconnect(t) /\ entry \in [Conns -> Entry]
  BY DEF KeepCancel, Disconnect, At, AtCall, TimerStep, TypeInv, RegistryOK
<1>2. CASE ent[t] = c
  BY <1>1, <1>2 DEF Overtaken, Late
<1>3. CASE ent[t] # c
  <2>1. entry'[c] = entry[c]
    BY <1>1, <1>3 DEF KeepCancel
  <2> QED BY <1>1, <1>3, <2>1, ElsewhereTimed
<1> QED BY <1>2, <1>3

LEMMA KeepAliveTimed ==
  ASSUME NEW t \in Tasks, NEW c \in Conns, TimerStep(t), Timed(c), KeepAliveOn(t)
  PROVE  Timed(c)'
<1>1. ~Disconnect(t) /\ entry \in [Conns -> Entry]
  BY DEF KeepAliveOn, Disconnect, AtCall, TimerStep, TypeInv, RegistryOK
<1>2. entry' = [entry EXCEPT ![ent[t]] = [Cancel(@) EXCEPT !.keepAlive = TRUE]]
  BY DEF KeepAliveOn
<1>3. CASE ent[t] = c
  BY <1>1, <1>2, <1>3, BusyTimed DEF Cancel, Entry
<1>4. CASE ent[t] # c
  <2>1. entry'[c] = entry[c]
    BY <1>1, <1>2, <1>4
  <2> QED BY <1>1, <1>4, <2>1, ElsewhereTimed
<1> QED BY <1>3, <1>4

LEMMA KeepOffTimed ==
  ASSUME NEW t \in Tasks, NEW c \in Conns, TimerStep(t), Timed(c), KeepAliveOff(t)
  PROVE  Timed(c)' \/ Overtaken(c)
<1> DEFINE e == [entry[ent[t]] EXCEPT !.keepAlive = FALSE]
<1>1. /\ ~Disconnect(t) /\ entry \in [Conns -> Entry] /\ TasksOK /\ pc[t] = "enter"
      /\ entry' = [entry EXCEPT ![ent[t]] = e]
      /\ IF IdleUnused(e) THEN Goto(t, "disarm") ELSE Finish(t)
  BY DEF KeepAliveOff, Disconnect, AtCall, TimerStep, TypeInv, RegistryOK
<1>2. CASE ent[t] # c
  <2>1. entry'[c] = entry[c]
    BY <1>1, <1>2
  <2> QED BY <1>1, <1>2, <2>1, ElsewhereTimed
<1>3. CASE ent[t] = c /\ IdleUnused(e)
  <2>1. pc'[t] = "disarm" /\ ent'[t] = c
    BY <1>1, <1>3 DEF Goto, TasksOK
  <2>2. Covers(t, c)'
    BY <2>1 DEF Covers
  <2> QED BY <2>2, CoveredTimed
<1>4. CASE ent[t] = c /\ \E x \in Tasks : Late(x, c)
  BY <1>4 DEF Overtaken
<1>5. CASE ent[t] = c /\ ~IdleUnused(e) /\ \A x \in Tasks : ~Late(x, c)
  <2>1. entry'[c] = e
    BY <1>1, <1>5
  <2>2. \A x \in Tasks : ~Late(x, c)'
    BY <1>5 DEF TimerStep, DecidesFrom, OthersStay, Late, KeepAliveOff, ReleaseDecide,
       KeepCancel, Capture, At, AtCall
  <2>3. entry'[c].state # "Idle" \/ entry'[c].refCount # 0 \/ entry'[c].keepAlive
    BY <1>5, <2>1 DEF IdleUnused
  <2> QED BY <2>2, <2>3, BusyTimed
<1> QED BY <1>2, <1>3, <1>4, <1>5

LEMMA RearmTimed ==
  ASSUME NEW t \in Tasks, NEW c \in Conns, TimerStep(t), Timed(c), Rearm(t)
  PROVE  Timed(c)' \/ Overtaken(c)
<1> DEFINE d == Cur(t).conn
<1>1. /\ ~Disconnect(t) /\ entry \in [Conns -> Entry] /\ TasksOK /\ pc[t] = "start"
      /\ entry' = [entry EXCEPT ![d] = Cancel(@)]
      /\ IF IdleUnused(entry[d])
           THEN pc' = [pc EXCEPT ![t] = "disarm"] /\ ent' = [ent EXCEPT ![t] = d]
           ELSE Finish(t)
  BY DEF Rearm, Disconnect, AtCall, TimerStep, TypeInv, RegistryOK
<1>2. CASE d # c
  <2>1. entry'[c] = entry[c]
    BY <1>1, <1>2
  <2>2. ~Covers(t, c) /\ EntryKeeps(t, c)
    BY <1>1, <2>1 DEF Covers, EntryKeeps
  <2>3. OthersStay(t) /\ ~Late(t, c)'
    BY <1>1 DEF TimerStep, DecidesFrom, ReleaseDecide, KeepCancel, Capture, At
  <2>4. (Registered(c)' => Registered(c)) /\ (Registered(c)' /\ Ending(c) => Ending(c)')
    BY <1>1 DEF TimerStep, NoneRegisters, EndStays
  <2> QED BY <2>2, <2>3, <2>4, StillTimed
<1>3. CASE d = c /\ IdleUnused(entry[c])
  <2>1. pc'[t] = "disarm" /\ ent'[t] = c
    BY <1>1, <1>3 DEF TasksOK
  <2>2. Covers(t, c)'
    BY <2>1 DEF Covers
  <2> QED BY <2>2, CoveredTimed
<1>4. CASE d = c /\ \E x \in Tasks : Late(x, c)
  BY <1>4 DEF Overtaken
<1>5. CASE d = c /\ ~IdleUnused(entry[c]) /\ \A x \in Tasks : ~Late(x, c)
  <2>1. entry'[c] = Cancel(entry[c])
    BY <1>1, <1>5
  <2>2. /\ entry'[c].state = entry[c].state /\ entry'[c].refCount = entry[c].refCount
        /\ entry'[c].keepAlive = entry[c].keepAlive
    BY <1>1, <2>1 DEF Cancel, Entry
  <2>3. \A x \in Tasks : ~Late(x, c)'
    BY <1>1, <1>5 DEF TimerStep, DecidesFrom, OthersStay, Late, ReleaseDecide, KeepCancel,
       Capture, At
  <2>4. entry'[c].state # "Idle" \/ entry'[c].refCount # 0 \/ entry'[c].keepAlive
    BY <1>5, <2>2 DEF IdleUnused
  <2> QED BY <2>3, <2>4, BusyTimed
<1> QED BY <1>2, <1>3, <1>4, <1>5

(* The disconnect of a timer: it leaves the retirement of what it ends.     *)
LEMMA DisconnectTimed ==
  ASSUME NEW t \in Tasks, NEW c \in Conns, TimerStep(t), Timed(c), IndexInv, Disconnect(t)
  PROVE  Timed(c)' \/ Overtaken(c)
<1> DEFINE d == Cur(t).conn
           e == entry[ent[t]]
<1>1. /\ TypeInv /\ entry \in [Conns -> Entry] /\ TasksOK /\ pc[t] = "enter" /\ pc[t] # "free"
      /\ NoneRegisters(Conns)
  BY DEF Disconnect, AtCall, TimerStep, TypeInv, RegistryOK
<1>2. ent[t] \in Conns /\ e \in Entry /\ Rest(t) \in Seq(Calls) /\ Cur(t).op = "kill" /\ d \in Conns
  BY <1>1, AtLabel DEF Disconnect, AtCall, Inside, Labels
<1>3. CASE ent[t] = c /\ d # c
  BY <1>3 DEF Overtaken
<1>4. CASE ent[t] # c /\ d # c
  <2>1. entry'[c] = entry[c]
    BY <1>1, <1>4 DEF Disconnect
  <2> QED BY <1>4, <2>1, ElsewhereTimed
<1>5. CASE ent[t] # c /\ d = c
  <2>1. IndexTask(t)
    BY DEF IndexInv
  <2>2. byKey[key[t]] # c /\ entry[c].key = key[t]
    BY <1>1, <1>5, <2>1 DEF IndexTask
  <2>3. ~Registered(c)
    BY <2>2 DEF IndexInv, Registered
  <2>4. ~Registered(c)'
    BY <1>1, <2>3 DEF NoneRegisters
  <2> QED BY <2>4, BusyTimed
<1>6. CASE ent[t] = c /\ d = c /\ e.state = "Disconnected"
  <2>1. CASE \E x \in Tasks : Late(x, c)
    BY <1>6, <2>1 DEF Overtaken
  <2>2. CASE \A x \in Tasks : ~Late(x, c)
    <3>1. entry'[c].state # "Idle"
      BY <1>6 DEF Disconnect
    <3>2. \A x \in Tasks : ~Late(x, c)'
      BY <1>1, <2>2 DEF TimerStep, DecidesFrom, OthersStay, Late, ReleaseDecide, KeepCancel,
         Capture, At
    <3> QED BY <3>1, <3>2, BusyTimed
  <2> QED BY <2>1, <2>2
<1>7. CASE ent[t] = c /\ d = c /\ e.state # "Disconnected"
  <2>1. PICK known \in BOOLEAN :
          Continue(t, (IF known /\ e.parent # None THEN << Release(e.parent, d) >> ELSE << >>)
                      \o << Call("clear", ent[t], None, None), Mark(d, "Disconnected"), Retire(d) >>
                      \o Rest(t))
    BY <1>7 DEF Disconnect
  <2> DEFINE a == IF known /\ e.parent # None THEN << Release(e.parent, d) >> ELSE << >>
             b == << Call("clear", ent[t], None, None), Mark(d, "Disconnected"), Retire(d) >>
  <2>2. a \in Seq(Calls)
    <3>1. e.parent # None => Release(e.parent, d) \in Calls
      BY <1>2, ReleaseCall DEF Entry, Users
    <3> QED BY <3>1
  <2>3. b \in Seq(Calls) /\ Len(b) = 3 /\ b[3] = Retire(d)
    <3>1. /\ Call("clear", ent[t], None, None) \in Calls
          /\ Mark(d, "Disconnected") \in Calls /\ Retire(d) \in Calls
      BY <1>2, UnaryCall, MarkCall DEF Retire, States
    <3> QED BY <3>1
  <2>4. todo'[t] = a \o b \o Rest(t)
    BY <1>1, <2>1 DEF Continue, TasksOK
  <2> HIDE DEF a, b
  <2>5. Retire(d) \in Elements(b)
    BY <2>3 DEF Elements
  <2>6. a \o b \in Seq(Calls) /\ Retire(d) \in Elements(a \o b)
    BY <2>2, <2>3, <2>5, ElementsJoin
  <2> DEFINE ab == a \o b
  <2>7. ab \in Seq(Calls) /\ Retire(d) \in Elements(ab) /\ todo'[t] = ab \o Rest(t)
    BY <2>4, <2>6
  <2> HIDE DEF ab
  <2>8. Retire(d) \in Elements(todo'[t])
    BY <1>2, <2>7, ElementsJoin
  <2>9. Retire(d).op = "retire" /\ Retire(d).conn = c
    BY <1>7 DEF Retire, Call
  <2>10. Ending(c)'
    BY <2>8, <2>9, EndingBy
  <2> QED BY <2>10, EndingTimed
<1> QED BY <1>3, <1>4, <1>5, <1>6, <1>7

LEMMA StepTimed ==
  ASSUME TypeInv, TypeInv', IndexInv, IndexInv', CountInv, TodoInv, SettleInv, DedicatedInv,
         NEW t \in Tasks, NEW c \in Conns, Step(t), ~Acquire(t), Timed(c)
  PROVE  Timed(c)' \/ Overtaken(c)
<1>1. TimerStep(t)
  BY StepDecides, StepEnds, RegistersNone DEF TimerStep
<1> QED BY <1>1, AsideTimed, CoverTimed, JoinTimed, DecideTimed, SettleTimed, RetireTimed,
           KeepTimed, KeepAliveTimed, KeepOffTimed, RearmTimed, DisconnectTimed
        DEF Step

-----------------------------------------------------------------------------
(* The steps that start a task, and the ones that make the connections of   *)
(* S.                                                                       *)
Begins(t, S) ==
  /\ OthersStay(t) /\ pc[t] \in {"free", "start"} /\ pc'[t] \in {"free", "start", "cancel"}
  /\ S \subseteq Conns /\ NoneRegisters(Conns \ S)
  /\ \A c \in S : ~Born(c) /\ Born(c)' /\ entry'[c].state # "Idle"
  /\ \A c \in Conns \ S : entry'[c] = entry[c]

LEMMA QuietBegins ==
  ASSUME NEW t \in Tasks, OthersStay(t),
         pc[t] \in {"free", "start"}, pc'[t] \in {"free", "start", "cancel"},
         UNCHANGED <<indexVars, entry>>
  PROVE  Begins(t, {})
<1>1. NoneRegisters(Conns)
  BY DEF NoneRegisters, Registered, indexVars
<1> QED BY <1>1 DEF Begins

LEMMA NewBegins ==
  ASSUME TypeInv, NEW t \in Tasks, OthersStay(t),
         pc[t] \in {"free", "start"}, pc'[t] \in {"free", "start", "cancel"},
         NEW d \in Conns, ~Born(d), NEW k \in PoolKeys, byKey[k] = None,
         byKey' = [byKey EXCEPT ![k] = d], byId' = [byId EXCEPT ![d] = k],
         entry'[d].key # None, entry'[d].state # "Idle",
         \A c \in Conns \ {d} : entry'[c] = entry[c]
  PROVE  Begins(t, {d})
<1>1. NoneRegisters(Conns \ {d})
  BY InsertRegisters
<1> QED BY <1>1 DEF Begins, Born

LEMMA AcquireBegins ==
  ASSUME TypeInv, NEW t \in Tasks, Acquire(t)
  PROVE  \E S : Begins(t, S)
<1> DEFINE k == Cur(t).arg
<1>1. /\ pc[t] = "start" /\ k \in PoolKeys /\ k # None /\ TasksOK /\ RegistryOK
      /\ pc' = [pc EXCEPT ![t] = "cancel"]
  BY AtLabel, CallShape, RegistryAssumption DEF Acquire, AtCall, PoolKeys
<1>2. OthersStay(t) /\ pc'[t] = "cancel"
  BY <1>1 DEF Acquire, TasksOK, OthersStay
<1>3. CASE UNCHANGED <<indexVars, entry>>
  BY <1>1, <1>2, <1>3, QuietBegins
<1>4. ASSUME NEW c \in Conns, ~Born(c), byKey[k] = None,
             byKey' = [byKey EXCEPT ![k] = c], byId' = [byId EXCEPT ![c] = k],
             entry' = [entry EXCEPT ![c] = NewEntry(k, FALSE, poolTimeout)]
      PROVE  Begins(t, {c})
  <2>1. /\ entry'[c].key # None /\ entry'[c].state # "Idle"
        /\ \A x \in Conns \ {c} : entry'[x] = entry[x]
    BY <1>1, <1>4 DEF NewEntry, RegistryOK
  <2> QED BY <1>1, <1>2, <1>4, <2>1, NewBegins
<1> QED BY <1>3, <1>4 DEF Acquire

LEMMA StartBegins ==
  ASSUME TypeInv, IndexInv, NEW t \in Workers, StartProgram(t)
  PROVE  /\ \E S : Begins(t, S)
         /\ pc[t] = "free" /\ \E s : Continue(t, s)
<1>1. t \in Tasks /\ TasksOK /\ RegistryOK
  BY DEF Tasks, TypeInv
<1>0. ASSUME NEW client, NEW s, Start(t, client, s)
      PROVE  OthersStay(t) /\ pc[t] = "free" /\ pc'[t] \in {"free", "start"} /\ Continue(t, s)
  BY <1>0, <1>1 DEF Start, Continue, TasksOK, OthersStay
<1> DEFINE Goal == /\ \E S : Begins(t, S)
                   /\ pc[t] = "free" /\ \E s : Continue(t, s)
<1>2. ASSUME NEW client, NEW s, Start(t, client, s), UNCHANGED <<indexVars, entry>>
      PROVE  Goal
  <2>1. OthersStay(t) /\ pc[t] = "free" /\ pc'[t] \in {"free", "start"} /\ Continue(t, s)
    BY <1>0, <1>2
  <2>2. Begins(t, {})
    BY <1>1, <1>2, <2>1, QuietBegins
  <2> QED BY <2>1, <2>2
<1>3. ASSUME NEW c \in Conns, NEW u \in Consumers, NEW p \in Conns \cup {None},
             StartDedicated(t, c, u, p)
      PROVE  Goal
  <2>1. /\ ~Born(c)
        /\ byKey' = [byKey EXCEPT ![c] = c] /\ byId' = [byId EXCEPT ![c] = c]
        /\ entry' = [entry EXCEPT ![c] = Push(NewEntry(c, TRUE, poolTimeout), u)]
    BY <1>3 DEF StartDedicated, OpenDedicated
  <2>2. c \in PoolKeys /\ c # None /\ byKey[c] = None
    <3>1. c \in PoolKeys /\ c # None
      BY RegistryAssumption DEF PoolKeys
    <3>2. ASSUME byKey[c] # None PROVE FALSE
      <4>1. byKey[c] \in Conns /\ Born(byKey[c]) /\ entry[byKey[c]].key = c
        BY <3>1, <3>2, RegisteredBorn
      <4>2. byKey[c] = c
        BY <4>1 DEF IndexInv
      <4> QED BY <2>1, <4>1, <4>2
    <3> QED BY <3>1, <3>2
  <2>3. PICK m : Start(t, "dedicated", << m >>)
    BY <1>3 DEF StartDedicated
  <2>4. OthersStay(t) /\ pc[t] = "free" /\ pc'[t] \in {"free", "start"} /\ Continue(t, << m >>)
    BY <1>0, <2>3
  <2>5. /\ entry'[c].key # None /\ entry'[c].state # "Idle"
        /\ \A x \in Conns \ {c} : entry'[x] = entry[x]
    BY <1>1, <2>1, <2>2 DEF NewEntry, Push, RegistryOK
  <2>6. Begins(t, {c})
    BY <1>1, <2>1, <2>2, <2>4, <2>5, NewBegins
  <2> QED BY <2>4, <2>6
<1>4. ASSUME NEW c \in Conns, StartOnConnection(t, c) PROVE Goal
  <2>1. PICK client, call : StartCall(t, client, call)
    BY <1>4 DEF StartOnConnection
  <2> HIDE DEF Goal
  <2> QED BY <1>2, <2>1 DEF StartCall
<1>5. ASSUME NEW k \in Keys, NEW u \in Consumers, StartNode(t, k, u) PROVE Goal
  <2> HIDE DEF Goal
  <2> QED BY <1>2, <1>5 DEF StartNode
<1>6. ASSUME NEW b \in BOOLEAN, StartSetIdleTimeout(t, b) PROVE Goal
  <2>1. PICK s : Start(t, "timeout", s)
    BY <1>6 DEF StartSetIdleTimeout
  <2> HIDE DEF Goal
  <2> QED BY <1>2, <1>6, <2>1 DEF StartSetIdleTimeout
<1> HIDE DEF Goal
<1>7. Goal
  BY <1>3, <1>4, <1>5, <1>6 DEF StartProgram
<1> QED BY <1>7 DEF Goal

LEMMA BeginsTimed ==
  ASSUME TypeInv, BornInv, NEW t \in Tasks, NEW S, Begins(t, S), EndStays(t), ~Disconnect(t),
         NEW c \in Conns, Timed(c)
  PROVE  Timed(c)'
<1>1. CASE c \in S
  <2>1. ASSUME NEW x \in Tasks, Late(x, c)' PROVE FALSE
    <3>1. x # t
      BY <2>1 DEF Begins, Late
    <3>2. Late(x, c)
      BY <2>1, <3>1 DEF Begins, OthersStay, Late
    <3> QED BY <1>1, <3>2 DEF Begins, BornInv, Deciders, Late
  <2> QED BY <1>1, <2>1, BusyTimed DEF Begins
<1>2. CASE c \notin S
  <2>1. EntryKeeps(t, c) /\ ~Covers(t, c) /\ ~Late(t, c)' /\ OthersStay(t)
    BY <1>2 DEF Begins, EntryKeeps, Covers, Late
  <2>2. (Registered(c)' => Registered(c)) /\ (Registered(c)' /\ Ending(c) => Ending(c)')
    BY <1>2 DEF Begins, NoneRegisters, EndStays
  <2> QED BY <2>1, <2>2, StillTimed
<1> QED BY <1>1, <1>2

(* A task that had nothing to do drops nothing.                             *)
LEMMA FreeEnds ==
  ASSUME TypeInv, TodoInv, NEW t \in Tasks, pc[t] = "free", NEW s, Continue(t, s)
  PROVE  EndStays(t) /\ ~Disconnect(t)
<1>1. todo[t] = << >> /\ ~Disconnect(t)
  BY DEF TodoInv, Disconnect, AtCall
<1>2. KeepsDoom(t)
  BY <1>1, ElementsNone DEF KeepsDoom, Continue, TypeInv, TasksOK
<1> QED BY <1>1, <1>2, KeepsDoomEnds

(* The timer of a connection goes off.                                      *)
LEMMA WakeTimed ==
  ASSUME TypeInv, TodoInv, NEW t \in Reapers, NEW d \in Conns, Wake(t, d),
         NEW c \in Conns, Timed(c)
  PROVE  Timed(c)' \/ Overtaken(c)
<1>0. /\ t \in Tasks /\ entry \in [Conns -> Entry] /\ TasksOK
      /\ pc[t] = "free" /\ UNCHANGED indexVars
      /\ entry' = [entry EXCEPT ![d].armed = @ - 1]
  BY DEF Wake, Tasks, TypeInv, RegistryOK
<1>1. /\ (Registered(c)' => Registered(c))
      /\ OthersStay(t) /\ ~Late(t, c)' /\ ~Covers(t, c)
      /\ Registered(c)' /\ Ending(c) => Ending(c)'
  <2>1. CASE UNCHANGED taskVars
    BY <1>0, <2>1 DEF taskVars, indexVars, Registered, OthersStay, Late, Covers, Ending
  <2>2. ASSUME NEW s, Continue(t, s)
        PROVE  /\ (Registered(c)' => Registered(c))
               /\ OthersStay(t) /\ ~Late(t, c)' /\ ~Covers(t, c)
               /\ Registered(c)' /\ Ending(c) => Ending(c)'
    <3>1. EndStays(t) /\ ~Disconnect(t)
      BY <1>0, <2>2, FreeEnds
    <3>2. OthersStay(t) /\ pc'[t] \in {"free", "start"}
      BY <1>0, <2>2 DEF Continue, TasksOK, OthersStay
    <3> QED BY <1>0, <3>1, <3>2 DEF indexVars, Registered, Late, Covers, EndStays
  <2> QED BY <2>1, <2>2 DEF Wake
<1>2. CASE c # d
  <2>1. EntryKeeps(t, c)
    BY <1>0, <1>2 DEF EntryKeeps
  <2> QED BY <1>0, <1>1, <2>1, StillTimed
<1>3. CASE c = d /\ Registered(c) /\ IdleUnused(entry[c])
  <2>1. PICK s \in Orders(Descendants(c)) :
          Continue(t, [i \in DOMAIN s |-> Kill(s[i])] \o << Kill(c) >>)
    BY <1>3 DEF Wake
  <2> DEFINE r == [i \in DOMAIN s |-> Kill(s[i])]
  <2>2. r \in Seq(Calls)
    <3>1. Descendants(c) \subseteq Conns
      BY DEF Descendants, Pooled
    <3>2. Plain(r)
      BY <3>1, EachPlain DEF Kill
    <3> QED BY <3>2 DEF Plain
  <2>3. << Kill(c) >> \in Seq(Calls) /\ Kill(c) \in Elements(<< Kill(c) >>)
    BY UnaryCall, ElementsOne DEF Kill
  <2>4. todo'[t] = r \o << Kill(c) >>
    BY <1>0, <2>1 DEF Continue, TasksOK
  <2> HIDE DEF r
  <2>5. Kill(c) \in Elements(todo'[t])
    BY <2>2, <2>3, <2>4, ElementsJoin
  <2>6. Kill(c).op = "kill" /\ Kill(c).conn = c
    BY DEF Kill, Call
  <2>7. Ending(c)'
    BY <1>0, <2>5, <2>6, EndingBy
  <2> QED BY <2>7, EndingTimed
<1>4. CASE c = d /\ \E x \in Tasks : Late(x, c)
  BY <1>4 DEF Overtaken
<1>5. CASE c = d /\ ~(Registered(c) /\ IdleUnused(entry[c])) /\ \A x \in Tasks : ~Late(x, c)
  <2>1. /\ entry'[c].state = entry[c].state /\ entry'[c].refCount = entry[c].refCount
        /\ entry'[c].keepAlive = entry[c].keepAlive
    BY <1>0, <1>5 DEF Entry
  <2>2. \A x \in Tasks : ~Late(x, c)'
    BY <1>1, <1>5 DEF OthersStay, Late
  <2> QED BY <1>1, <1>5, <2>1, <2>2, BusyTimed DEF IdleUnused
<1> QED BY <1>2, <1>3, <1>4, <1>5

-----------------------------------------------------------------------------
(* Only the last step of a release makes a connection idle.                 *)
IdlesBy(t) ==
  \A c \in Conns : entry'[c].state = "Idle" =>
    entry[c].state = "Idle" \/ (pc[t] = "settle" /\ c = ent[t])

LEMMA IdleFrom ==
  ASSUME TypeInv, NEW t \in Tasks, Step(t), ~Acquire(t)
  PROVE  IdlesBy(t)
<1>0. entry \in [Conns -> Entry]
  BY DEF TypeInv, RegistryOK
<1>a. \A e \in Entry : Cancel(e).state = e.state
  BY DEF Cancel, Entry
<1>1. CASE \/ LookupId(t) \/ LookupKey(t) \/ OutOfIds(t) \/ TakeTransport(t)
           \/ ReleaseDecide(t) \/ RetireUnlink(t) \/ RetireForget(t)
  BY <1>1 DEF LookupId, LookupKey, OutOfIds, TakeTransport, ReleaseDecide, RetireUnlink,
     RetireForget, IdlesBy
<1>2. CASE AcquireCancel(t) \/ KeepCancel(t) \/ Disarm(t) \/ Rearm(t) \/ Disconnect(t)
  BY <1>0, <1>a, <1>2 DEF AcquireCancel, KeepCancel, Disarm, Rearm, Disconnect, IdlesBy
<1>3. CASE DialReaches(t) \/ DialFails(t) \/ ClearPhysical(t)
  BY <1>0, <1>3 DEF DialReaches, DialFails, ClearPhysical, Entry, IdlesBy
<1>4. CASE Adopt(t) \/ Disown(t)
  <2>1. CASE UNCHANGED entry
    BY <2>1 DEF IdlesBy
  <2>2. ASSUME NEW p, NEW u,
               entry' = [entry EXCEPT ![ent[t]].parent = p, ![ent[t]].parentConsumer = u]
        PROVE  IdlesBy(t)
    BY <1>0, <2>2 DEF Entry, IdlesBy
  <2> QED BY <1>4, <2>1, <2>2 DEF Adopt, Disown
<1>5. CASE AcquirePush(t) \/ Attach(t)
  <2>1. \A e \in Entry : \A u : Push(e, u).state = "Idle" => e.state = "Idle"
    BY DEF Push, Entry
  <2>2. \A e \in Entry : \A u : PushAndRevive(e, u).state = "Idle" => e.state = "Idle"
    BY DEF Push, PushAndRevive, Entry
  <2> QED BY <1>0, <1>5, <2>1, <2>2 DEF AcquirePush, Attach, IdlesBy
<1>6. CASE ReleaseDetach(t) \/ ReleaseDecrement(t) \/ Capture(t) \/ KeepAliveOff(t)
  BY <1>0, <1>6 DEF ReleaseDetach, ReleaseDecrement, Capture, KeepAliveOff, Entry, IdlesBy
<1>7. CASE Settle(t)
  BY <1>0, <1>7 DEF Settle, At, Entry, IdlesBy
<1>8. CASE KeepAliveOn(t) \/ RetireEnter(t)
  <2>1. CASE UNCHANGED entry
    BY <2>1 DEF IdlesBy
  <2>2. CASE entry' = [entry EXCEPT ![ent[t]] = [Cancel(@) EXCEPT !.keepAlive = TRUE]]
    BY <1>0, <2>2 DEF Cancel, Entry, IdlesBy
  <2>3. CASE entry' = [entry EXCEPT ![ent[t]] =
                         [Cancel(entry[ent[t]]) EXCEPT !.parentConsumer = None]]
    BY <1>0, <2>3 DEF Cancel, Entry, IdlesBy
  <2> QED BY <1>8, <2>1, <2>2, <2>3 DEF KeepAliveOn, RetireEnter
<1>9. CASE MarkState(t)
  <2> DEFINE s == IF Cur(t).op = "mark" THEN Cur(t).arg ELSE "Active"
  <2>1. s # "Idle"
    BY <1>9, AtLabel, CallShape DEF MarkState, AtCall
  <2>2. entry' = [entry EXCEPT ![ent[t]].state = s]
    BY <1>9 DEF MarkState
  <2> HIDE DEF s
  <2> QED BY <1>0, <2>1, <2>2 DEF Entry, IdlesBy
<1> QED BY <1>1, <1>2, <1>3, <1>4, <1>5, <1>6, <1>7, <1>8, <1>9 DEF Step

(* Connections keep their key once they are made.                           *)
LEMMA BornKept ==
  ASSUME TypeInv, BornInv, NEW t \in Tasks, OthersStay(t),
         \A c \in Conns : Born(c) => Born(c)',
         \A c \in Conns : entry'[c].state = "Idle" => Born(c)',
         pc'[t] \in Deciders => Born(ent[t])'
  PROVE  BornInv'
<1>1. ASSUME NEW x \in Tasks, pc'[x] \in Deciders PROVE Born(ent[x])'
  <2>1. CASE x = t
    BY <1>1, <2>1 DEF Born
  <2>2. CASE x # t
    <3>1. pc[x] \in Deciders /\ ent'[x] = ent[x]
      BY <1>1, <2>2 DEF OthersStay
    <3>2. ent[x] \in Conns /\ Born(ent[x])
      BY <3>1, AtLabel DEF BornInv, Deciders, Inside, Labels
    <3> QED BY <3>1, <3>2 DEF Born
  <2> QED BY <2>1, <2>2
<1> QED BY <1>1 DEF BornInv

LEMMA StepBornInv ==
  ASSUME TypeInv, IndexInv, TodoInv, DedicatedInv, BornInv, [Next]_vars
  PROVE  BornInv'
<1>1. ASSUME NEW t \in Tasks, Step(t), ~Acquire(t) PROVE BornInv'
  <2>1. SameKind /\ DecidesFrom(t) /\ IdlesBy(t)
    BY <1>1, KindKept, StepDecides, IdleFrom
  <2>2. \A c \in Conns : Born(c) => Born(c)'
    BY <2>1 DEF SameKind, Born
  <2>3. pc[t] \in {"enter", "decrement"} \cup Deciders => ent[t] \in Conns /\ Born(ent[t])
    BY AtLabel DEF DedicatedInv, BornInv, Deciders, Inside, Labels
  <2>4. ASSUME NEW c \in Conns, entry'[c].state = "Idle" PROVE Born(c)'
    BY <2>1, <2>2, <2>3, <2>4 DEF IdlesBy, BornInv, Deciders
  <2>5. Rearm(t) => Cur(t).conn \in Conns
    BY AtLabel, CallShape DEF Rearm, AtCall
  <2>6. ASSUME pc'[t] \in Deciders PROVE ent'[t] \in Conns /\ Born(ent'[t])
    BY <2>1, <2>3, <2>5, <2>6 DEF DecidesFrom, IdleUnused, BornInv
  <2>7. pc'[t] \in Deciders => Born(ent[t])'
    BY <2>2, <2>6 DEF Born
  <2>8. OthersStay(t)
    BY <2>1 DEF DecidesFrom
  <2> QED BY <2>2, <2>4, <2>7, <2>8, BornKept
<1>2. ASSUME NEW t \in Tasks, NEW S, Begins(t, S) PROVE BornInv'
  <2>1. \A c \in Conns : Born(c) => Born(c)'
    BY <1>2 DEF Begins, Born
  <2>2. \A c \in Conns : entry'[c].state = "Idle" => Born(c)'
    BY <1>2, <2>1 DEF Begins, BornInv
  <2>3. OthersStay(t) /\ pc'[t] \notin Deciders
    BY <1>2 DEF Begins, Deciders
  <2> QED BY <2>1, <2>2, <2>3, BornKept
<1>3. ASSUME NEW t \in Tasks, Acquire(t) PROVE BornInv'
  BY <1>2, <1>3, AcquireBegins
<1>4. ASSUME NEW t \in Workers, StartProgram(t) PROVE BornInv'
  BY <1>2, <1>4, StartBegins DEF Tasks
<1>5. ASSUME NEW t \in Reapers, NEW c \in Conns, Wake(t, c) PROVE BornInv'
  <2>1. t \in Tasks /\ TasksOK /\ entry \in [Conns -> Entry]
    BY DEF Tasks, TypeInv, RegistryOK
  <2>2. /\ \A x \in Conns : entry'[x].state = entry[x].state /\ entry'[x].key = entry[x].key
        /\ pc[t] = "free"
    BY <1>5, <2>1 DEF Wake, Entry
  <2>3. OthersStay(t) /\ pc'[t] \notin Deciders
    <3>1. CASE UNCHANGED taskVars
      BY <2>2, <3>1 DEF taskVars, OthersStay, Deciders
    <3>2. ASSUME NEW s, Continue(t, s) PROVE OthersStay(t) /\ pc'[t] \notin Deciders
      BY <2>1, <3>2 DEF Continue, TasksOK, OthersStay, Deciders
    <3> QED BY <1>5, <3>1, <3>2 DEF Wake
  <2>4. \A x \in Conns : Born(x) => Born(x)'
    BY <2>2 DEF Born
  <2>5. \A x \in Conns : entry'[x].state = "Idle" => Born(x)'
    BY <2>2, <2>4 DEF BornInv
  <2> QED BY <2>1, <2>3, <2>4, <2>5, BornKept
<1>6. CASE UNCHANGED vars
  BY <1>6 DEF BornInv, Born, vars
<1> QED BY <1>1, <1>3, <1>4, <1>5, <1>6 DEF Next

LEMMA InitBornInv == Init => BornInv
BY DEF Init, BornInv, NewEntry, Deciders

-----------------------------------------------------------------------------
LEMMA NextTimed ==
  ASSUME TypeInv, TypeInv', IndexInv, IndexInv', CountInv, TodoInv, SettleInv, DedicatedInv,
         BornInv, [Next]_vars, NEW c \in Conns, Timed(c)
  PROVE  Timed(c)' \/ Overtaken(c)
<1>1. ASSUME NEW t \in Tasks, Step(t), ~Acquire(t) PROVE Timed(c)' \/ Overtaken(c)
  BY <1>1, StepTimed
<1>2. ASSUME NEW t \in Tasks, Acquire(t) PROVE Timed(c)'
  <2>1. EndStays(t)
    BY <1>2, StepEnds DEF Step
  <2>2. ~Disconnect(t)
    BY <1>2 DEF Acquire, Disconnect, AtCall
  <2> QED BY <1>2, <2>1, <2>2, AcquireBegins, BeginsTimed
<1>3. ASSUME NEW t \in Workers, StartProgram(t) PROVE Timed(c)'
  <2>1. t \in Tasks /\ pc[t] = "free" /\ (\E S : Begins(t, S)) /\ \E s : Continue(t, s)
    BY <1>3, StartBegins DEF Tasks
  <2>2. EndStays(t) /\ ~Disconnect(t)
    BY <2>1, FreeEnds
  <2> QED BY <2>1, <2>2, BeginsTimed
<1>4. ASSUME NEW t \in Reapers, NEW d \in Conns, Wake(t, d) PROVE Timed(c)' \/ Overtaken(c)
  BY <1>4, WakeTimed
<1>5. CASE UNCHANGED vars
  BY <1>5 DEF Timed, MayIdle, Late, Covers, Ending, Registered, vars
<1> QED BY <1>1, <1>2, <1>3, <1>4, <1>5 DEF Next

(* Whatever the registry's calls and timers do, an idle and unused          *)
(* connection whose timeout is on keeps its timer, except in the races that *)
(* Overtaken names (start_idle_timer_for_entry, cancel_idle_timer,          *)
(* set_keep_alive, set_idle_timeout, disconnect_if_idle_timeout).           *)
THEOREM TimersAlwaysKept == Spec => TimersKept
<1>1. TypeInv /\ TypeInv' /\ IndexInv /\ IndexInv' /\ CountInv /\ TodoInv /\ SettleInv
        /\ DedicatedInv /\ BornInv /\ [Next]_vars
          => [\A c \in Conns : Timed(c) => Timed(c)' \/ Overtaken(c)]_vars
  BY NextTimed
<1>2. Spec => []TodoInv
  BY InitTodoInv, StepTodoInv, TypeInvariant, PTL DEF Spec
<1>3. Spec => []CountInv
  BY InitCountInv, StepCountInv, TypeInvariant, IndexInvariant, PTL DEF Spec
<1>4. Spec => []SettleInv
  BY InitSettleInv, StepSettleInv, TypeInvariant, PTL DEF Spec
<1>5. Spec => []DedicatedInv
  BY <1>2, <1>4, InitDedicatedInv, StepDedicatedInv, TypeInvariant, IndexInvariant, PTL DEF Spec
<1>6. Spec => []BornInv
  BY <1>2, <1>5, InitBornInv, StepBornInv, TypeInvariant, IndexInvariant, PTL DEF Spec
<1> QED BY <1>1, <1>2, <1>3, <1>4, <1>5, <1>6, TypeInvariant, IndexInvariant, PTL DEF Spec, TimersKept

=============================================================================
