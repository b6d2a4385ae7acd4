---------------------- MODULE ConnectionRegistry_proofs ----------------------
(***************************************************************************)
(* Theorems about the connection registry, for any number of connections,  *)
(* keys, consumers and threads and for every set of client programs.       *)
(***************************************************************************)
EXTENDS ConnectionRegistry, TLAPS, FiniteSetTheorems

(* Where a task that is past its lookups can be.                            *)
Inside == Labels \ {"free", "start", "byKey"}

(* What a task carries at each label.                                       *)
TaskOK(t) ==
  /\ pc[t] \in Labels
  /\ todo[t] \in Seq(Calls)
  /\ key[t] \in PoolKeys \cup {None}
  /\ ent[t] \in Conns \cup {None}
  /\ pc[t] # "free" => todo[t] # << >>
  /\ pc[t] \in {"byKey", "enter"} => Cur(t).op \in LookupOps /\ key[t] \in PoolKeys
  /\ pc[t] \in {"cancel", "push"} => Cur(t).op = "acquire"
  /\ pc[t] \in {"decrement", "decide", "keepCancel"} => Cur(t).op = "release"
  /\ pc[t] \in {"unlink", "forget"} => Cur(t).op = "retire" /\ key[t] \in PoolKeys
  /\ pc[t] \in Inside => ent[t] \in Conns

TasksOK ==
  /\ pc \in [Tasks -> Labels] /\ todo \in [Tasks -> Seq(Calls)]
  /\ key \in [Tasks -> PoolKeys \cup {None}]
  /\ ent \in [Tasks -> Conns \cup {None}]
  /\ \A t \in Tasks : TaskOK(t)

RegistryOK ==
  /\ byKey \in [PoolKeys -> Conns \cup {None}]
  /\ byId  \in [Conns -> PoolKeys \cup {None}]
  /\ entry \in [Conns -> Entry]
  /\ poolTimeout \in BOOLEAN

TypeInv == RegistryOK /\ TasksOK

-----------------------------------------------------------------------------
(* Calls.                                                                   *)

LEMMA ReleaseCall ==
  ASSUME NEW c \in Conns, NEW u \in Users
  PROVE  Release(c, u) \in Calls
BY DEF Release, Call, Calls

LEMMA UnaryCall ==
  ASSUME NEW c \in Conns,
         NEW op \in {"disown", "retire", "keepOn", "keepOff", "rearm", "clear", "kill"}
  PROVE  Call(op, c, None, None) \in Calls
BY DEF Call, Calls

LEMMA MarkCall ==
  ASSUME NEW c \in Conns, NEW s \in States \ {"Idle"}
  PROVE  Mark(c, s) \in Calls
BY DEF Mark, Call, Calls

LEMMA CallShape ==
  ASSUME NEW x \in Calls
  PROVE  /\ x.op # "acquire" => x.conn \in Conns
         /\ x.op = "acquire" => x.arg \in Keys
         /\ x.op \in {"acquire", "attach", "release", "borrow", "dial", "adopt",
                      "activate"} => x.who \in Users
         /\ x.op = "borrow" => x.who \in Conns /\ x.arg \in Users
         /\ x.op = "dial" => x.arg \in Conns \cup {None}
         /\ x.op \in {"adopt", "activate"} => x.arg \in Conns
         /\ x.op = "mark" => x.arg \in States \ {"Idle"}
BY DEF Calls, Users

(* A thread that is in a call has a current one and a rest.                 *)
LEMMA Current ==
  ASSUME TasksOK, NEW t \in Tasks, pc[t] # "free"
  PROVE  Cur(t) \in Calls /\ Rest(t) \in Seq(Calls)
BY DEF TasksOK, TaskOK, Cur, Rest

(* Going on with a sequence of calls keeps the tasks well formed.           *)
LEMMA ContinueOK ==
  ASSUME TasksOK, NEW t \in Tasks, NEW s \in Seq(Calls), Continue(t, s)
  PROVE  TasksOK'
<1>1. /\ pc' \in [Tasks -> Labels] /\ todo' \in [Tasks -> Seq(Calls)]
      /\ key' \in [Tasks -> PoolKeys \cup {None}]
      /\ ent' \in [Tasks -> Conns \cup {None}]
  BY DEF TasksOK, Continue, Labels
<1>2. ASSUME NEW x \in Tasks PROVE TaskOK(x)'
  <2>1. CASE x = t
    BY <2>1, <1>1 DEF TasksOK, TaskOK, Continue, Labels, Inside
  <2>2. CASE x # t
    BY <2>2, <1>1 DEF TasksOK, TaskOK, Continue, Cur, Inside
  <2> QED BY <2>1, <2>2
<1> QED BY <1>1, <1>2 DEF TasksOK

LEMMA FinishOK ==
  ASSUME TasksOK, NEW t \in Tasks, pc[t] # "free", Finish(t)
  PROVE  TasksOK'
BY Current, ContinueOK DEF Finish

(* Moving on inside a call keeps them well formed if the label fits.        *)
LEMMA GotoOK ==
  ASSUME TasksOK, NEW t \in Tasks, pc[t] # "free", NEW label \in Inside,
         Goto(t, label), ent[t] \in Conns,
         label = "enter" => Cur(t).op \in LookupOps /\ key[t] \in PoolKeys,
         label \in {"cancel", "push"} => Cur(t).op = "acquire",
         label \in {"decrement", "decide", "keepCancel"} => Cur(t).op = "release",
         label \in {"unlink", "forget"} => Cur(t).op = "retire" /\ key[t] \in PoolKeys
  PROVE  TasksOK'
<1>1. /\ pc' \in [Tasks -> Labels] /\ todo' \in [Tasks -> Seq(Calls)]
      /\ key' \in [Tasks -> PoolKeys \cup {None}]
      /\ ent' \in [Tasks -> Conns \cup {None}]
  BY DEF TasksOK, Goto, Inside
<1>2. ASSUME NEW x \in Tasks PROVE TaskOK(x)'
  <2>1. CASE x = t
    BY <2>1, <1>1 DEF TasksOK, TaskOK, Goto, Cur, Inside, Labels
  <2>2. CASE x # t
    BY <2>2, <1>1 DEF TasksOK, TaskOK, Goto, Cur, Inside
  <2> QED BY <2>1, <2>2
<1> QED BY <1>1, <1>2 DEF TasksOK

-----------------------------------------------------------------------------
(* Entries.                                                                 *)

LEMMA NewEntryOK ==
  ASSUME NEW k \in PoolKeys \cup {None}, NEW d \in BOOLEAN, NEW o \in BOOLEAN
  PROVE  NewEntry(k, d, o) \in Entry
BY DEF NewEntry, Entry, States

LEMMA CancelOK ==
  ASSUME NEW e \in Entry
  PROVE  Cancel(e) \in Entry
BY DEF Cancel, Entry

LEMMA PushOK ==
  ASSUME NEW e \in Entry, NEW u \in Users
  PROVE  Push(e, u) \in Entry
<1>1. e.refCount + 1 \in Nat /\ e.consumers \cup {u} \in SUBSET Users
  BY DEF Entry
<1>2. [e EXCEPT !.consumers = e.consumers \cup {u}, !.refCount = e.refCount + 1]
        \in Entry
  BY <1>1 DEF Entry
<1> QED BY <1>2 DEF Push

LEMMA PushAndReviveOK ==
  ASSUME NEW e \in Entry, NEW u \in Users
  PROVE  PushAndRevive(e, u) \in Entry
<1> DEFINE p == Push(e, u)
<1>1. p \in Entry
  BY PushOK
<1> HIDE DEF p
<1>2. [p EXCEPT !.armed = 0, !.captured = {},
                !.state = IF e.state = "Idle" /\ e.physical THEN "Active" ELSE @]
        \in Entry
  BY <1>1 DEF Entry, States
<1> QED BY <1>1, <1>2 DEF PushAndRevive, p

-----------------------------------------------------------------------------
(* Every step keeps the types.                                              *)

LEMMA InitTypeInv == Init => TypeInv
<1> SUFFICES ASSUME Init PROVE TypeInv
  OBVIOUS
<1>1. RegistryOK
  <2>1. NewEntry(None, FALSE, TRUE) \in Entry
    BY NewEntryOK
  <2> QED BY <2>1 DEF Init, RegistryOK
<1>2. TasksOK
  BY DEF Init, TasksOK, TaskOK, Labels, Inside
<1> QED BY <1>1, <1>2 DEF TypeInv

LEMMA LookupTypeInv ==
  ASSUME TypeInv, NEW t \in Tasks, LookupId(t) \/ LookupKey(t)
  PROVE  TypeInv'
<1> USE DEF TypeInv
<1>0. TasksOK /\ pc[t] \in {"start", "byKey"} /\ pc[t] # "free" /\ TaskOK(t)
  BY DEF LookupId, LookupKey, At, AtCall, TasksOK
<1>1. RegistryOK'
  BY DEF RegistryOK, LookupId, LookupKey, indexVars
<1>2. Cur(t) \in Calls /\ Rest(t) \in Seq(Calls) /\ Cur(t).op \in LookupOps
  BY <1>0, Current DEF LookupId, LookupKey, At, AtCall, TaskOK
<1>3. Cur(t).conn \in Conns
  BY <1>2, CallShape DEF LookupOps
<1>4. ASSUME Missing(t) PROVE TasksOK'
  <2>1. CASE Cur(t).op = "borrow"
    <3>1. Cur(t).who \in Conns /\ Cur(t).arg \in Users
      BY <1>2, <2>1, CallShape
    <3>2. Release(Cur(t).who, Cur(t).arg) \in Calls
      BY <3>1, ReleaseCall
    <3>3. << Release(Cur(t).who, Cur(t).arg) >> \o Rest(t) \in Seq(Calls)
      BY <1>2, <3>2
    <3>4. Continue(t, << Release(Cur(t).who, Cur(t).arg) >> \o Rest(t))
      BY <1>4, <2>1 DEF Missing
    <3> QED BY <1>0, <3>3, <3>4, ContinueOK
  <2>2. CASE Cur(t).op \in {"adopt", "activate"}
    <3>1. Cur(t).who \in Users /\ Cur(t).arg \in Conns /\ Cur(t).conn \in Users
      BY <1>2, <1>3, <2>2, CallShape DEF Users
    <3>2. Abandon(Cur(t).conn, Cur(t).who, Cur(t).arg) \in Seq(Calls)
      BY <1>3, <3>1, ReleaseCall DEF Abandon
    <3>3. Call("clear", Cur(t).conn, None, None) \in Calls
      BY <1>3, UnaryCall
    <3> DEFINE s == Abandon(Cur(t).conn, Cur(t).who, Cur(t).arg)
                      \o << Call("clear", Cur(t).conn, None, None) >>
    <3>4. s \in Seq(Calls)
      BY <3>2, <3>3
    <3>5. Continue(t, s)
      BY <1>4, <2>2 DEF Missing
    <3> HIDE DEF s
    <3> QED BY <1>0, <3>4, <3>5, ContinueOK
  <2>3. CASE Cur(t).op \notin {"borrow", "adopt", "activate"}
    BY <1>0, <1>4, <2>3, FinishOK DEF Missing
  <2> QED BY <2>1, <2>2, <2>3
<1>5. CASE LookupId(t)
  <2>1. CASE byId[Cur(t).conn] # None
    <3>1. byId[Cur(t).conn] \in PoolKeys
      BY <1>3, <2>1 DEF RegistryOK
    <3>2. \A x \in Tasks : TaskOK(x)'
      BY <1>0, <1>2, <1>5, <2>1, <3>1
      DEF LookupId, At, TasksOK, TaskOK, Cur, Labels, Inside
    <3>3. pc' \in [Tasks -> Labels]
      BY <1>0, <1>5, <2>1 DEF LookupId, TasksOK, Labels
    <3>4. key' \in [Tasks -> PoolKeys \cup {None}] /\ UNCHANGED <<todo, ent>>
      BY <1>0, <1>5, <2>1, <3>1 DEF LookupId, TasksOK
    <3>5. TasksOK'
      BY <1>0, <3>2, <3>3, <3>4 DEF TasksOK
    <3> QED BY <1>1, <3>5
  <2> QED BY <1>1, <1>4, <1>5, <2>1 DEF LookupId
<1>6. CASE LookupKey(t)
  <2>1. CASE byKey[key[t]] # None
    <3>1. byKey[key[t]] \in Conns
      BY <1>0, <1>6, <2>1 DEF RegistryOK, TaskOK, LookupKey, At
    <3>2. \A x \in Tasks : TaskOK(x)'
      BY <1>0, <1>2, <1>6, <2>1, <3>1
      DEF LookupKey, At, TasksOK, TaskOK, Cur, Labels, Inside
    <3>3. pc' \in [Tasks -> Labels]
      BY <1>0, <1>6, <2>1 DEF LookupKey, TasksOK, Labels
    <3>4. ent' \in [Tasks -> Conns \cup {None}] /\ UNCHANGED <<todo, key>>
      BY <1>0, <1>6, <2>1, <3>1 DEF LookupKey, TasksOK
    <3>5. TasksOK'
      BY <1>0, <3>2, <3>3, <3>4 DEF TasksOK
    <3> QED BY <1>1, <3>5
  <2> QED BY <1>1, <1>4, <1>6, <2>1 DEF LookupKey
<1> QED BY <1>1, <1>5, <1>6

(* A step that changes one entry, and nothing else of the registry.         *)
LEMMA EntryStep ==
  ASSUME RegistryOK, NEW c \in Conns, NEW e \in Entry,
         entry' = [entry EXCEPT ![c] = e],
         UNCHANGED <<indexVars, poolTimeout>>
  PROVE  RegistryOK'
BY DEF RegistryOK, indexVars

LEMMA SameRegistry ==
  ASSUME RegistryOK, UNCHANGED <<indexVars, entry, poolTimeout>>
  PROVE  RegistryOK'
BY DEF RegistryOK, indexVars

(* What is known of a task at a label.                                      *)
LEMMA AtLabel ==
  ASSUME TypeInv, NEW t \in Tasks, pc[t] # "free"
  PROVE  /\ TasksOK /\ TaskOK(t) /\ RegistryOK
         /\ Cur(t) \in Calls /\ Rest(t) \in Seq(Calls)
         /\ pc[t] \in Inside => ent[t] \in Conns /\ entry[ent[t]] \in Entry
         /\ Cur(t).op # "acquire" => Cur(t).conn \in Conns /\ entry[Cur(t).conn] \in Entry
BY Current, CallShape DEF TypeInv, TasksOK, TaskOK, RegistryOK

LEMMA AcquireTypeInv ==
  ASSUME TypeInv, NEW t \in Tasks,
         Acquire(t) \/ OutOfIds(t) \/ AcquireCancel(t) \/ AcquirePush(t)
  PROVE  TypeInv'
<1>0. pc[t] # "free"
  BY DEF Acquire, OutOfIds, AcquireCancel, AcquirePush, At, AtCall
<1>1. CASE Acquire(t)
  <2> DEFINE k == Cur(t).arg
  <2>1. /\ pc[t] = "start" /\ Cur(t).op = "acquire" /\ k \in Keys /\ k \in PoolKeys
        /\ TasksOK /\ RegistryOK
    BY <1>0, <1>1, AtLabel, CallShape DEF Acquire, AtCall, PoolKeys
  <2>2. ASSUME NEW c \in Conns, ent' = [ent EXCEPT ![t] = c] PROVE TasksOK'
    <3>1. pc' = [pc EXCEPT ![t] = "cancel"] /\ UNCHANGED <<todo, key>>
      BY <1>1 DEF Acquire
    <3>2. /\ pc' \in [Tasks -> Labels] /\ ent' \in [Tasks -> Conns \cup {None}]
          /\ todo' \in [Tasks -> Seq(Calls)] /\ key' \in [Tasks -> PoolKeys \cup {None}]
      BY <2>1, <2>2, <3>1 DEF TasksOK, Labels
    <3>3. \A x \in Tasks : TaskOK(x)'
      BY <2>1, <2>2, <3>1 DEF TasksOK, TaskOK, Cur, Labels, Inside
    <3> QED BY <3>2, <3>3 DEF TasksOK
  <2>3. CASE byKey[k] # None
    <3>1. byKey[k] \in Conns
      BY <2>1, <2>3 DEF RegistryOK
    <3>2. ent' = [ent EXCEPT ![t] = byKey[k]] /\ UNCHANGED <<indexVars, entry, poolTimeout>>
      BY <1>1, <2>3 DEF Acquire
    <3> QED BY <2>1, <2>2, <3>1, <3>2, SameRegistry DEF TypeInv
  <2>4. CASE byKey[k] = None
    <3>1. PICK c \in Conns :
            /\ byKey' = [byKey EXCEPT ![k] = c] /\ byId' = [byId EXCEPT ![c] = k]
            /\ entry' = [entry EXCEPT ![c] = NewEntry(k, FALSE, poolTimeout)]
            /\ ent'   = [ent EXCEPT ![t] = c]
      BY <1>1, <2>4 DEF Acquire
    <3>2. NewEntry(k, FALSE, poolTimeout) \in Entry
      BY <2>1, NewEntryOK DEF RegistryOK
    <3>3. poolTimeout' = poolTimeout
      BY <1>1 DEF Acquire
    <3>4. RegistryOK'
      BY <2>1, <3>1, <3>2, <3>3 DEF RegistryOK
    <3> QED BY <2>2, <3>1, <3>4 DEF TypeInv
  <2> QED BY <2>3, <2>4
<1>2. CASE OutOfIds(t)
  BY <1>0, <1>2, AtLabel, FinishOK, SameRegistry DEF OutOfIds, TypeInv
<1>3. CASE AcquireCancel(t)
  <2>1. pc[t] = "cancel" /\ ent[t] \in Conns /\ entry[ent[t]] \in Entry
        /\ Cur(t).op = "acquire" /\ TasksOK /\ RegistryOK
    BY <1>0, <1>3, AtLabel DEF AcquireCancel, At, Inside, Labels, TaskOK
  <2>2. RegistryOK'
    BY <1>3, <2>1, CancelOK, EntryStep DEF AcquireCancel
  <2>3. TasksOK'
    BY <1>0, <1>3, <2>1, GotoOK DEF AcquireCancel, Inside, Labels
  <2> QED BY <2>2, <2>3 DEF TypeInv
<1>4. CASE AcquirePush(t)
  <2>1. /\ pc[t] = "push" /\ ent[t] \in Conns /\ entry[ent[t]] \in Entry
        /\ Cur(t).op = "acquire" /\ TasksOK /\ RegistryOK /\ Cur(t).who \in Users
        /\ Rest(t) \in Seq(Calls)
    BY <1>0, <1>4, AtLabel, CallShape DEF AcquirePush, At, Inside, Labels, TaskOK
  <2>2. RegistryOK'
    BY <1>4, <2>1, PushOK, EntryStep DEF AcquirePush
  <2>3. Call("dial", ent[t], Cur(t).who, None) \in Calls
    BY <2>1 DEF Call, Calls
  <2>4. << Call("dial", ent[t], Cur(t).who, None) >> \o Rest(t) \in Seq(Calls)
    BY <2>1, <2>3
  <2>5. TasksOK'
    BY <1>4, <2>1, <2>4, ContinueOK DEF AcquirePush
  <2> QED BY <2>2, <2>5 DEF TypeInv
<1> QED BY <1>1, <1>2, <1>3, <1>4

LEMMA AttachTypeInv ==
  ASSUME TypeInv, NEW t \in Tasks, Attach(t)
  PROVE  TypeInv'
<1>1. /\ pc[t] = "enter" /\ pc[t] # "free" /\ Cur(t).op \in {"attach", "borrow"}
      /\ ent[t] \in Conns /\ entry[ent[t]] \in Entry
      /\ TasksOK /\ RegistryOK /\ Cur(t) \in Calls /\ Rest(t) \in Seq(Calls)
  BY AtLabel DEF Attach, At, AtCall, Inside, Labels
<1>2. Cur(t).who \in Users
  BY <1>1, CallShape
<1>3. RegistryOK'
  BY <1>1, <1>2, PushAndReviveOK, EntryStep DEF Attach
<1>4. CASE Cur(t).op = "borrow"
  <2>1. Call("dial", Cur(t).who, Cur(t).arg, ent[t]) \in Calls
    BY <1>1, <1>4, CallShape DEF Call, Calls
  <2>2. << Call("dial", Cur(t).who, Cur(t).arg, ent[t]) >> \o Rest(t) \in Seq(Calls)
    BY <1>1, <2>1
  <2>3. TasksOK'
    BY <1>1, <1>4, <2>2, ContinueOK DEF Attach
  <2> QED BY <1>3, <2>3 DEF TypeInv
<1>5. CASE Cur(t).op # "borrow"
  BY <1>1, <1>3, <1>5, FinishOK DEF Attach, TypeInv
<1> QED BY <1>4, <1>5

LEMMA AbandonCalls ==
  ASSUME NEW c \in Conns, NEW u \in Users, NEW p \in Conns
  PROVE  Abandon(c, u, p) \in Seq(Calls)
BY ReleaseCall DEF Abandon, Users

LEMMA DialTypeInv ==
  ASSUME TypeInv, NEW t \in Tasks, DialReaches(t) \/ DialFails(t)
  PROVE  TypeInv'
<1> DEFINE c == Cur(t).conn
           u == Cur(t).who
           p == Cur(t).arg
<1>1. /\ pc[t] = "start" /\ pc[t] # "free" /\ Cur(t).op = "dial"
      /\ TasksOK /\ RegistryOK /\ Cur(t) \in Calls /\ Rest(t) \in Seq(Calls)
      /\ c \in Conns /\ entry[c] \in Entry
  BY AtLabel DEF DialReaches, DialFails, At, AtCall
<1>2. u \in Users /\ p \in Conns \cup {None}
  BY <1>1, CallShape
<1>3. CASE DialReaches(t)
  <2>1. RegistryOK'
    <3>1. entry' = [entry EXCEPT ![c] = [entry[c] EXCEPT !.physical = TRUE]]
      BY <1>3 DEF DialReaches
    <3>2. [entry[c] EXCEPT !.physical = TRUE] \in Entry
      BY <1>1 DEF Entry
    <3> QED BY <1>1, <1>3, <3>1, <3>2, EntryStep DEF DialReaches
  <2> DEFINE s == IF p = None
                    THEN << Call("disown", c, None, None), Mark(c, "Active") >>
                    ELSE << Call("adopt", c, u, p), Call("activate", c, u, p) >>
  <2>2. s \in Seq(Calls)
    <3>1. Call("disown", c, None, None) \in Calls /\ Mark(c, "Active") \in Calls
      BY <1>1, UnaryCall, MarkCall DEF States
    <3>2. p # None => /\ Call("adopt", c, u, p) \in Calls
                      /\ Call("activate", c, u, p) \in Calls
      BY <1>1, <1>2 DEF Call, Calls
    <3> QED BY <3>1, <3>2
  <2>3. Continue(t, s \o Rest(t))
    BY <1>3 DEF DialReaches
  <2> HIDE DEF s
  <2>4. s \o Rest(t) \in Seq(Calls)
    BY <1>1, <2>2
  <2> QED BY <1>1, <2>1, <2>3, <2>4, ContinueOK DEF TypeInv
<1>4. CASE DialFails(t)
  <2>1. RegistryOK'
    <3> DEFINE e == [entry[c] EXCEPT !.physical = entry[c].physical /\ p # None]
    <3>1. entry' = [entry EXCEPT ![c] = e]
      BY <1>4 DEF DialFails
    <3>2. e \in Entry
      BY <1>1 DEF Entry
    <3> HIDE DEF e
    <3>3. UNCHANGED <<indexVars, poolTimeout>>
      BY <1>4 DEF DialFails
    <3> QED BY <1>1, <3>1, <3>2, <3>3, EntryStep
  <2> DEFINE s == IF p = None THEN << Release(c, u) >> ELSE Abandon(c, u, p)
  <2>2. s \in Seq(Calls)
    BY <1>1, <1>2, ReleaseCall, AbandonCalls
  <2>3. Continue(t, << Mark(c, "Error") >> \o s \o Rest(t))
    BY <1>4 DEF DialFails
  <2>4. Mark(c, "Error") \in Calls
    BY <1>1, MarkCall DEF States
  <2> HIDE DEF s
  <2>5. << Mark(c, "Error") >> \o s \o Rest(t) \in Seq(Calls)
    BY <1>1, <2>2, <2>4
  <2> QED BY <1>1, <2>1, <2>3, <2>5, ContinueOK DEF TypeInv
<1> QED BY <1>3, <1>4

(* Taking the parent's transport touches the task's own handle only.        *)
LEMMA TransportOnly ==
  ASSUME TypeInv, NEW t \in Tasks, TakeTransport(t)
  PROVE  /\ UNCHANGED <<indexVars, entry, poolTimeout, pc, todo, key>>
         /\ pc[t] = "start" /\ Cur(t).op = "dial"
         /\ ent' \in [Tasks -> Conns \cup {None}]
         /\ \A x \in Tasks : x # t \/ pc[x] # "start" => ent'[x] = ent[x]
<1>1. pc[t] = "start" /\ Cur(t).op = "dial" /\ Cur(t).arg # None
  BY DEF TakeTransport, AtCall
<1>2. TasksOK /\ Cur(t).arg \in Conns
  BY <1>1, AtLabel, CallShape
<1> QED BY <1>1, <1>2 DEF TakeTransport, TasksOK

LEMMA TransportTypeInv ==
  ASSUME TypeInv, NEW t \in Tasks, TakeTransport(t)
  PROVE  TypeInv'
<1>1. TasksOK /\ RegistryOK
  BY DEF TypeInv
<1>2. ASSUME NEW x \in Tasks PROVE TaskOK(x)'
  BY <1>1, <1>2, TransportOnly DEF TasksOK, TaskOK, Cur, Inside
<1> QED BY <1>1, <1>2, TransportOnly DEF TypeInv, TasksOK, RegistryOK, indexVars

LEMMA ClearMarkTypeInv ==
  ASSUME TypeInv, NEW t \in Tasks, ClearPhysical(t) \/ MarkState(t)
  PROVE  TypeInv'
<1>1. CASE ClearPhysical(t)
  <2>1. /\ pc[t] # "free" /\ TasksOK /\ RegistryOK
        /\ Cur(t).conn \in Conns /\ entry[Cur(t).conn] \in Entry
    BY <1>1, AtLabel DEF ClearPhysical, AtCall
  <2>2. [entry[Cur(t).conn] EXCEPT !.physical = FALSE] \in Entry
    BY <2>1 DEF Entry
  <2>3. RegistryOK'
    BY <1>1, <2>1, <2>2, EntryStep DEF ClearPhysical
  <2> QED BY <1>1, <2>1, <2>3, FinishOK DEF ClearPhysical, TypeInv
<1>2. CASE MarkState(t)
  <2> DEFINE s == IF Cur(t).op = "mark" THEN Cur(t).arg ELSE "Active"
  <2>1. /\ pc[t] = "enter" /\ pc[t] # "free" /\ TasksOK /\ RegistryOK
        /\ ent[t] \in Conns /\ entry[ent[t]] \in Entry /\ Cur(t) \in Calls
    BY <1>2, AtLabel DEF MarkState, AtCall, Inside, Labels
  <2>2. s \in States
    BY <2>1, CallShape DEF States
  <2>3. [entry[ent[t]] EXCEPT !.state = s] \in Entry
    BY <2>1, <2>2 DEF Entry
  <2>4. RegistryOK'
    BY <1>2, <2>1, <2>3, EntryStep DEF MarkState
  <2> QED BY <1>2, <2>1, <2>4, FinishOK DEF MarkState, TypeInv
<1> QED BY <1>1, <1>2

LEMMA OwnershipTypeInv ==
  ASSUME TypeInv, NEW t \in Tasks, Adopt(t) \/ Disown(t)
  PROVE  TypeInv'
<1> DEFINE e == entry[ent[t]]
<1>1. /\ pc[t] = "enter" /\ pc[t] # "free" /\ TasksOK /\ RegistryOK
      /\ ent[t] \in Conns /\ e \in Entry /\ Cur(t) \in Calls
      /\ Rest(t) \in Seq(Calls) /\ Cur(t).op \in {"adopt", "disown"}
      /\ Cur(t).conn \in Conns
  BY AtLabel DEF Adopt, Disown, AtCall, Inside, Labels
<1>2. CASE Adopt(t) /\ StillRegistered(t)
  <2>1. Cur(t).arg \in Conns /\ Cur(t).conn \in Users
    BY <1>1, <1>2, CallShape DEF Adopt, AtCall, Users
  <2>2. [e EXCEPT !.parent = Cur(t).arg, !.parentConsumer = Cur(t).conn] \in Entry
    BY <1>1, <2>1 DEF Entry
  <2>3. entry' = [entry EXCEPT ![ent[t]] =
                    [e EXCEPT !.parent = Cur(t).arg, !.parentConsumer = Cur(t).conn]]
    BY <1>1, <1>2 DEF Adopt, RegistryOK
  <2>4. RegistryOK'
    BY <1>1, <1>2, <2>2, <2>3, EntryStep DEF Adopt
  <2> QED BY <1>1, <1>2, <2>4, FinishOK DEF Adopt, TypeInv
<1>3. CASE Adopt(t) /\ ~StillRegistered(t)
  <2> DEFINE s == Abandon(Cur(t).conn, Cur(t).who, Cur(t).arg)
                    \o << Call("clear", Cur(t).conn, None, None) >>
  <2>1. Cur(t).who \in Users /\ Cur(t).arg \in Conns
    BY <1>1, <1>3, CallShape DEF Adopt, AtCall
  <2>2. Call("clear", Cur(t).conn, None, None) \in Calls
    BY <1>1, UnaryCall
  <2>3. Abandon(Cur(t).conn, Cur(t).who, Cur(t).arg) \in Seq(Calls)
    BY <1>1, <2>1, AbandonCalls
  <2>4. s \in Seq(Calls)
    BY <2>2, <2>3
  <2>5. Continue(t, s) /\ UNCHANGED <<indexVars, entry, poolTimeout>>
    BY <1>3 DEF Adopt
  <2> HIDE DEF s
  <2> QED BY <1>1, <2>4, <2>5, ContinueOK, SameRegistry DEF TypeInv
<1>4. CASE Disown(t) /\ StillRegistered(t)
  <2> DEFINE s == IF e.parent # None /\ e.parentConsumer # None
                    THEN << Release(e.parent, e.parentConsumer) >> ELSE << >>
  <2>1. [e EXCEPT !.parent = None, !.parentConsumer = None] \in Entry
    BY <1>1 DEF Entry
  <2>2. entry' = [entry EXCEPT ![ent[t]] =
                    [e EXCEPT !.parent = None, !.parentConsumer = None]]
    BY <1>1, <1>4 DEF Disown, RegistryOK
  <2>3. RegistryOK'
    BY <1>1, <1>4, <2>1, <2>2, EntryStep DEF Disown
  <2>4. s \in Seq(Calls)
    BY <1>1, ReleaseCall DEF Entry
  <2>5. Continue(t, s \o Rest(t))
    BY <1>4 DEF Disown
  <2> HIDE DEF s
  <2>6. s \o Rest(t) \in Seq(Calls)
    BY <1>1, <2>4
  <2> QED BY <1>1, <2>3, <2>5, <2>6, ContinueOK DEF TypeInv
<1>5. CASE Disown(t) /\ ~StillRegistered(t)
  BY <1>1, <1>5, FinishOK, SameRegistry DEF Disown, TypeInv
<1> QED BY <1>2, <1>3, <1>4, <1>5

LEMMA ReleaseTypeInv ==
  ASSUME TypeInv, NEW t \in Tasks,
         \/ ReleaseDetach(t) \/ ReleaseDecrement(t) \/ ReleaseDecide(t)
         \/ KeepCancel(t)
  PROVE  TypeInv'
<1> DEFINE e == entry[ent[t]]
<1>1. /\ pc[t] \in Inside /\ pc[t] # "free" /\ TasksOK /\ RegistryOK /\ TaskOK(t)
      /\ ent[t] \in Conns /\ e \in Entry /\ Cur(t) \in Calls
      /\ Rest(t) \in Seq(Calls) /\ Cur(t).op = "release" /\ Cur(t).conn \in Conns
  BY AtLabel DEF ReleaseDetach, ReleaseDecrement, ReleaseDecide, KeepCancel,
                 At, AtCall, Inside, Labels, TaskOK
<1>2. CASE ReleaseDetach(t)
  <2>1. [e EXCEPT !.consumers = e.consumers \ {Cur(t).who}] \in Entry
    BY <1>1 DEF Entry
  <2>2. RegistryOK'
    BY <1>1, <1>2, <2>1, EntryStep DEF ReleaseDetach
  <2>3. TasksOK'
    BY <1>1, <1>2, GotoOK DEF ReleaseDetach, Inside, Labels
  <2> QED BY <2>2, <2>3 DEF TypeInv
<1>3. CASE ReleaseDecrement(t)
  <2> DEFINE n == IF e.refCount = 0 THEN 0 ELSE e.refCount - 1
  <2>1. n \in Nat
    BY <1>1 DEF Entry
  <2>2. entry' = [entry EXCEPT ![ent[t]] = [e EXCEPT !.refCount = n]]
    BY <1>3 DEF ReleaseDecrement
  <2> HIDE DEF n
  <2>3. [e EXCEPT !.refCount = n] \in Entry
    BY <1>1, <2>1 DEF Entry
  <2>4. RegistryOK'
    BY <1>1, <1>3, <2>2, <2>3, EntryStep DEF ReleaseDecrement
  <2>5. TasksOK'
    BY <1>1, <1>3, GotoOK DEF ReleaseDecrement, Inside, Labels
  <2> QED BY <2>4, <2>5 DEF TypeInv
<1>4. CASE ReleaseDecide(t)
  <2>1. RegistryOK'
    BY <1>1, <1>4, SameRegistry DEF ReleaseDecide
  <2>2. CASE Finish(t)
    BY <1>1, <2>1, <2>2, FinishOK DEF TypeInv
  <2>3. CASE Continue(t, << Retire(Cur(t).conn) >> \o Rest(t))
    <3>1. Retire(Cur(t).conn) \in Calls
      BY <1>1, UnaryCall DEF Retire
    <3>2. << Retire(Cur(t).conn) >> \o Rest(t) \in Seq(Calls)
      BY <1>1, <3>1
    <3> QED BY <1>1, <2>1, <2>3, <3>2, ContinueOK DEF TypeInv
  <2>4. CASE Goto(t, IF e.keepAlive THEN "keepCancel" ELSE "disarm")
    BY <1>1, <2>1, <2>4, GotoOK DEF TypeInv, Inside, Labels
  <2> QED BY <1>4, <2>2, <2>3, <2>4 DEF ReleaseDecide
<1>5. CASE KeepCancel(t)
  <2>1. RegistryOK'
    BY <1>1, <1>5, CancelOK, EntryStep DEF KeepCancel
  <2>2. TasksOK'
    BY <1>1, <1>5, GotoOK DEF KeepCancel, Inside, Labels
  <2> QED BY <2>1, <2>2 DEF TypeInv
<1> QED BY <1>2, <1>3, <1>4, <1>5

LEMMA TimerTypeInv ==
  ASSUME TypeInv, NEW t \in Tasks, Disarm(t) \/ Capture(t) \/ Settle(t)
  PROVE  TypeInv'
<1> DEFINE e == entry[ent[t]]
<1>1. /\ pc[t] \in {"disarm", "capture", "settle"} /\ pc[t] # "free"
      /\ TasksOK /\ RegistryOK /\ ent[t] \in Conns /\ e \in Entry
  BY AtLabel DEF Disarm, Capture, Settle, At, Inside, Labels
<1>2. CASE Disarm(t)
  <2>1. RegistryOK'
    BY <1>1, <1>2, CancelOK, EntryStep DEF Disarm
  <2>2. TasksOK'
    BY <1>1, <1>2, GotoOK DEF Disarm, Inside, Labels
  <2> QED BY <2>1, <2>2 DEF TypeInv
<1>3. CASE Capture(t)
  <2>1. [e EXCEPT !.captured = e.captured \cup {t}] \in Entry
    BY <1>1 DEF Entry
  <2>2. RegistryOK'
    BY <1>1, <1>3, <2>1, EntryStep DEF Capture
  <2>3. TasksOK'
    BY <1>1, <1>3, GotoOK DEF Capture, Inside, Labels
  <2> QED BY <2>2, <2>3 DEF TypeInv
<1>4. CASE Settle(t)
  <2> DEFINE n == IF t \in e.captured /\ e.timeoutOn THEN e.armed + 1 ELSE e.armed
             f == [e EXCEPT !.state = "Idle", !.captured = e.captured \ {t},
                            !.armed = n]
  <2>1. n \in Nat
    BY <1>1 DEF Entry
  <2>2. entry' = [entry EXCEPT ![ent[t]] = f]
    BY <1>4 DEF Settle
  <2> HIDE DEF n
  <2>3. f \in Entry
    BY <1>1, <2>1 DEF Entry, States
  <2> HIDE DEF f
  <2>4. UNCHANGED <<indexVars, poolTimeout>>
    BY <1>4 DEF Settle
  <2>5. RegistryOK'
    BY <1>1, <2>2, <2>3, <2>4, EntryStep
  <2>6. TasksOK'
    BY <1>1, <1>4, FinishOK DEF Settle
  <2> QED BY <2>5, <2>6 DEF TypeInv
<1> QED BY <1>2, <1>3, <1>4

LEMMA RetireTypeInv ==
  ASSUME TypeInv, NEW t \in Tasks, RetireEnter(t) \/ RetireUnlink(t) \/ RetireForget(t)
  PROVE  TypeInv'
<1> DEFINE e == entry[ent[t]]
<1>1. /\ pc[t] \in {"enter", "unlink", "forget"} /\ pc[t] # "free"
      /\ TasksOK /\ RegistryOK /\ TaskOK(t) /\ ent[t] \in Conns /\ e \in Entry
      /\ Cur(t) \in Calls /\ Rest(t) \in Seq(Calls) /\ Cur(t).op = "retire"
      /\ Cur(t).conn \in Conns /\ key[t] \in PoolKeys /\ todo[t] \in Seq(Calls)
  BY AtLabel DEF RetireEnter, RetireUnlink, RetireForget, At, AtCall, Inside,
                 Labels, TaskOK
<1>2. CASE RetireEnter(t) /\ StillRegistered(t)
  <2> DEFINE s == IF e.parent # None /\ e.parentConsumer # None
                    THEN << Release(e.parent, e.parentConsumer) >> ELSE << >>
             f == [Cancel(e) EXCEPT !.parentConsumer = None]
  <2>1. f \in Entry
    BY <1>1, CancelOK DEF Entry
  <2>2. /\ entry' = [entry EXCEPT ![ent[t]] = f]
        /\ UNCHANGED <<indexVars, poolTimeout>>
    BY <1>2 DEF RetireEnter
  <2> HIDE DEF f
  <2>3. RegistryOK'
    BY <1>1, <2>1, <2>2, EntryStep
  <2>4. s \in Seq(Calls)
    BY <1>1, ReleaseCall DEF Entry
  <2>5. /\ todo' = [todo EXCEPT ![t] = << Cur(t) >> \o s \o Rest(t)]
        /\ pc' = [pc EXCEPT ![t] = "unlink"] /\ UNCHANGED <<key, ent>>
    BY <1>2 DEF RetireEnter
  <2> HIDE DEF s
  <2>6. /\ << Cur(t) >> \o s \o Rest(t) \in Seq(Calls)
        /\ << Cur(t) >> \o s \o Rest(t) # << >>
        /\ Head(<< Cur(t) >> \o s \o Rest(t)) = Cur(t)
    BY <1>1, <2>4
  <2>7. /\ pc' \in [Tasks -> Labels] /\ todo' \in [Tasks -> Seq(Calls)]
        /\ key' \in [Tasks -> PoolKeys \cup {None}]
        /\ ent' \in [Tasks -> Conns \cup {None}]
    BY <1>1, <2>5, <2>6 DEF TasksOK, Labels
  <2>8. ASSUME NEW x \in Tasks PROVE TaskOK(x)'
    <3>1. CASE x = t
      <4>1. /\ todo'[x] = << Cur(t) >> \o s \o Rest(t) /\ pc'[x] = "unlink"
            /\ key'[x] = key[t] /\ ent'[x] = ent[t]
        BY <1>1, <2>5, <3>1 DEF TasksOK
      <4>2. Head(todo'[x]).op = "retire"
        BY <1>1, <2>6, <4>1
      <4> QED BY <1>1, <2>6, <4>1, <4>2 DEF TaskOK, Cur, Labels, Inside
    <3>2. CASE x # t
      BY <1>1, <2>5, <2>7, <3>2 DEF TasksOK, TaskOK, Cur, Inside
    <3> QED BY <3>1, <3>2
  <2> QED BY <2>3, <2>7, <2>8 DEF TypeInv, TasksOK
<1>3. CASE RetireEnter(t) /\ ~StillRegistered(t)
  BY <1>1, <1>3, FinishOK, SameRegistry DEF RetireEnter, TypeInv
<1>4. CASE RetireUnlink(t)
  <2>1. RegistryOK'
    BY <1>1, <1>4 DEF RetireUnlink, RegistryOK
  <2>2. TasksOK'
    BY <1>1, <1>4, GotoOK DEF RetireUnlink, Inside, Labels
  <2> QED BY <2>1, <2>2 DEF TypeInv
<1>5. CASE RetireForget(t)
  <2>1. RegistryOK'
    BY <1>1, <1>5 DEF RetireForget, RegistryOK
  <2> QED BY <1>1, <1>5, <2>1, FinishOK DEF RetireForget, TypeInv
<1> QED BY <1>2, <1>3, <1>4, <1>5

LEMMA KeepAliveTypeInv ==
  ASSUME TypeInv, NEW t \in Tasks, KeepAliveOn(t) \/ KeepAliveOff(t)
  PROVE  TypeInv'
<1>1. /\ pc[t] = "enter" /\ pc[t] # "free" /\ TasksOK /\ RegistryOK
      /\ ent[t] \in Conns /\ entry[ent[t]] \in Entry
  BY AtLabel DEF KeepAliveOn, KeepAliveOff, AtCall, Inside, Labels
<1>2. CASE KeepAliveOn(t)
  <2>1. [Cancel(entry[ent[t]]) EXCEPT !.keepAlive = TRUE] \in Entry
    BY <1>1, CancelOK DEF Entry
  <2>2. RegistryOK'
    BY <1>1, <1>2, <2>1, EntryStep DEF KeepAliveOn
  <2> QED BY <1>1, <1>2, <2>2, FinishOK DEF KeepAliveOn, TypeInv
<1>3. CASE KeepAliveOff(t)
  <2> DEFINE e == [entry[ent[t]] EXCEPT !.keepAlive = FALSE]
  <2>1. e \in Entry
    BY <1>1 DEF Entry
  <2>2. /\ entry' = [entry EXCEPT ![ent[t]] = e]
        /\ UNCHANGED <<indexVars, poolTimeout>>
        /\ Goto(t, "disarm") \/ Finish(t)
    BY <1>3 DEF KeepAliveOff
  <2> HIDE DEF e
  <2>3. RegistryOK'
    BY <1>1, <2>1, <2>2, EntryStep
  <2>4. TasksOK'
    BY <1>1, <2>2, FinishOK, GotoOK DEF Inside, Labels
  <2> QED BY <2>3, <2>4 DEF TypeInv
<1> QED BY <1>2, <1>3

LEMMA RearmTypeInv ==
  ASSUME TypeInv, NEW t \in Tasks, Rearm(t)
  PROVE  TypeInv'
<1> DEFINE c == Cur(t).conn
<1>1. /\ pc[t] = "start" /\ pc[t] # "free" /\ TasksOK /\ RegistryOK
      /\ c \in Conns /\ entry[c] \in Entry
  BY AtLabel DEF Rearm, AtCall
<1>2. RegistryOK'
  BY <1>1, CancelOK, EntryStep DEF Rearm
<1>3. CASE Finish(t)
  BY <1>1, <1>2, <1>3, FinishOK DEF TypeInv
<1>4. CASE /\ pc'  = [pc EXCEPT ![t] = "disarm"]
           /\ ent' = [ent EXCEPT ![t] = c]
           /\ UNCHANGED <<todo, key>>
  <2>1. /\ pc' \in [Tasks -> Labels] /\ todo' \in [Tasks -> Seq(Calls)]
        /\ key' \in [Tasks -> PoolKeys \cup {None}]
        /\ ent' \in [Tasks -> Conns \cup {None}]
    BY <1>1, <1>4 DEF TasksOK, Labels
  <2>2. \A x \in Tasks : TaskOK(x)'
    BY <1>1, <1>4 DEF TasksOK, TaskOK, Cur, Labels, Inside
  <2> QED BY <1>2, <2>1, <2>2 DEF TypeInv, TasksOK
<1> QED BY <1>3, <1>4 DEF Rearm

LEMMA OrdersAreSequences ==
  ASSUME NEW S, IsFiniteSet(S), NEW s \in Orders(S)
  PROVE  s \in Seq(S) /\ DOMAIN s = 1 .. Len(s)
BY FS_CardinalityType DEF Orders

LEMMA WakeTypeInv ==
  ASSUME TypeInv, NEW t \in Reapers, NEW c \in Conns, Wake(t, c)
  PROVE  TypeInv'
<1>1. t \in Tasks /\ TasksOK /\ RegistryOK /\ entry[c] \in Entry
  BY DEF Tasks, TypeInv, RegistryOK
<1>2. RegistryOK'
  <2>1. entry[c].armed - 1 \in Nat
    BY <1>1 DEF Wake, Entry
  <2>2. [entry[c] EXCEPT !.armed = entry[c].armed - 1] \in Entry
    BY <1>1, <2>1 DEF Entry
  <2>3. entry' = [entry EXCEPT ![c] = [entry[c] EXCEPT !.armed = entry[c].armed - 1]]
    BY DEF Wake
  <2> QED BY <1>1, <2>2, <2>3, EntryStep DEF Wake
<1>3. CASE UNCHANGED taskVars
  BY <1>1, <1>2, <1>3 DEF TypeInv, TasksOK, TaskOK, Cur, taskVars
<1>4. ASSUME NEW s \in Orders(Descendants(c)),
             Continue(t, [i \in DOMAIN s |-> Kill(s[i])] \o << Kill(c) >>)
      PROVE  TasksOK'
  <2> DEFINE S == Descendants(c)
             r == [i \in DOMAIN s |-> Kill(s[i])]
  <2>1. S \subseteq Conns /\ IsFiniteSet(S)
    <3>1. S \subseteq Conns
      BY DEF Descendants, Pooled
    <3> QED BY <3>1, FS_Subset, RegistryAssumption
  <2>2. s \in Seq(S) /\ DOMAIN s = 1 .. Len(s) /\ Len(s) \in Nat
    BY <2>1, OrdersAreSequences
  <2>3. \A x \in Conns : Kill(x) \in Calls
    BY UnaryCall DEF Kill
  <2>4. \A i \in 1 .. Len(s) : s[i] \in Conns
    BY <2>1, <2>2
  <2>5. r = [i \in 1 .. Len(s) |-> Kill(s[i])]
    BY <2>2
  <2>6. r \in Seq(Calls)
    BY <2>2, <2>3, <2>4, <2>5
  <2>7. r \o << Kill(c) >> \in Seq(Calls)
    BY <2>3, <2>6
  <2>8. Continue(t, r \o << Kill(c) >>)
    BY <1>4
  <2> HIDE DEF r
  <2> QED BY <1>1, <2>7, <2>8, ContinueOK
<1> QED BY <1>2, <1>3, <1>4 DEF Wake, TypeInv

LEMMA DisconnectTypeInv ==
  ASSUME TypeInv, NEW t \in Tasks, Disconnect(t)
  PROVE  TypeInv'
<1> DEFINE c == Cur(t).conn
           e == entry[ent[t]]
<1>1. /\ pc[t] = "enter" /\ pc[t] # "free" /\ TasksOK /\ RegistryOK
      /\ ent[t] \in Conns /\ e \in Entry /\ Cur(t) \in Calls
      /\ Rest(t) \in Seq(Calls) /\ c \in Conns
  BY AtLabel DEF Disconnect, AtCall, Inside, Labels
<1>2. CASE e.state = "Disconnected"
  BY <1>1, <1>2, FinishOK, SameRegistry DEF Disconnect, TypeInv
<1>3. CASE e.state # "Disconnected"
  <2>1. RegistryOK'
    BY <1>1, <1>3, CancelOK, EntryStep DEF Disconnect
  <2> DEFINE a(known) == IF known /\ e.parent # None
                           THEN << Release(e.parent, c) >> ELSE << >>
             b == << Call("clear", ent[t], None, None), Mark(c, "Disconnected"),
                     Retire(c) >>
  <2>2. PICK known \in BOOLEAN : Continue(t, a(known) \o b \o Rest(t))
    BY <1>3 DEF Disconnect
  <2>3. a(known) \in Seq(Calls)
    BY <1>1, ReleaseCall DEF Entry, Users
  <2>4. b \in Seq(Calls)
    <3>1. Call("clear", ent[t], None, None) \in Calls /\ Retire(c) \in Calls
      BY <1>1, UnaryCall DEF Retire
    <3>2. Mark(c, "Disconnected") \in Calls
      BY <1>1, MarkCall DEF States
    <3> QED BY <3>1, <3>2
  <2> HIDE DEF a, b
  <2>5. a(known) \o b \o Rest(t) \in Seq(Calls)
    BY <1>1, <2>3, <2>4
  <2> QED BY <1>1, <2>1, <2>2, <2>5, ContinueOK DEF TypeInv
<1> QED BY <1>2, <1>3

LEMMA StartTypeInv ==
  ASSUME TypeInv, NEW t \in Workers, StartProgram(t)
  PROVE  TypeInv'
<1>1. t \in Tasks /\ TasksOK /\ RegistryOK
  BY DEF Tasks, TypeInv
<1>2. ASSUME NEW s \in Seq(Calls), NEW client, Start(t, client, s) PROVE TasksOK'
  BY <1>1, <1>2, ContinueOK DEF Start
<1>3. ASSUME NEW k \in Keys, NEW u \in Consumers, StartNode(t, k, u) PROVE TypeInv'
  <2>1. << Call("acquire", None, u, k) >> \in Seq(Calls)
    BY DEF Call, Calls, Users
  <2> QED BY <1>1, <1>2, <1>3, <2>1, SameRegistry DEF StartNode, TypeInv
<1>4. ASSUME NEW c \in Conns, NEW u \in Consumers, NEW p \in Conns \cup {None},
             StartDedicated(t, c, u, p)
      PROVE  TypeInv'
  <2> DEFINE x == IF p = None THEN Call("dial", c, u, None)
                              ELSE Call("borrow", p, c, u)
  <2>1. << x >> \in Seq(Calls)
    BY DEF Call, Calls, Users
  <2>2. Start(t, "dedicated", << x >>) /\ OpenDedicated(t, c, u) /\ UNCHANGED poolTimeout
    BY <1>4 DEF StartDedicated
  <2> HIDE DEF x
  <2>3. TasksOK'
    BY <1>2, <2>1, <2>2
  <2>4. c \in PoolKeys /\ u \in Users /\ poolTimeout \in BOOLEAN
    BY <1>1 DEF PoolKeys, Users, RegistryOK
  <2>5. Push(NewEntry(c, TRUE, poolTimeout), u) \in Entry
    BY <2>4, NewEntryOK, PushOK
  <2>6. RegistryOK'
    BY <1>1, <2>2, <2>4, <2>5 DEF OpenDedicated, RegistryOK
  <2> QED BY <2>3, <2>6 DEF TypeInv
<1>5. ASSUME NEW c \in Conns, StartOnConnection(t, c) PROVE TypeInv'
  <2>1. ASSUME NEW x \in Calls, NEW client, StartCall(t, client, x) PROVE TypeInv'
    <3>1. << x >> \in Seq(Calls)
      OBVIOUS
    <3> QED BY <1>1, <1>2, <2>1, <3>1, SameRegistry DEF StartCall, TypeInv
  <2>2. /\ \A u \in Consumers : Call("attach", c, u, None) \in Calls
        /\ \A u \in Consumers : Release(c, u) \in Calls
        /\ Retire(c) \in Calls /\ Mark(c, "LinkDown") \in Calls
        /\ \A op \in {"keepOn", "keepOff"} : Call(op, c, None, None) \in Calls
    BY ReleaseCall, UnaryCall, MarkCall DEF Call, Calls, Users, Retire, States
  <2> QED BY <1>5, <2>1, <2>2 DEF StartOnConnection
<1>6. ASSUME NEW b \in BOOLEAN, StartSetIdleTimeout(t, b) PROVE TypeInv'
  <2>1. PICK s \in Orders(Pooled) :
          Start(t, "timeout", [i \in DOMAIN s |-> Call("rearm", s[i], None, None)])
    BY <1>6 DEF StartSetIdleTimeout
  <2> DEFINE r == [i \in DOMAIN s |-> Call("rearm", s[i], None, None)]
  <2>2. Pooled \subseteq Conns /\ IsFiniteSet(Pooled)
    <3>1. Pooled \subseteq Conns
      BY DEF Pooled
    <3> QED BY <3>1, FS_Subset, RegistryAssumption
  <2>3. s \in Seq(Pooled) /\ DOMAIN s = 1 .. Len(s) /\ Len(s) \in Nat
    BY <2>2, OrdersAreSequences
  <2>4. \A x \in Conns : Call("rearm", x, None, None) \in Calls
    BY UnaryCall
  <2>5. \A i \in 1 .. Len(s) : s[i] \in Conns
    BY <2>2, <2>3
  <2>6. r = [i \in 1 .. Len(s) |-> Call("rearm", s[i], None, None)]
    BY <2>3
  <2>7. r \in Seq(Calls)
    BY <2>3, <2>4, <2>5, <2>6
  <2>8. Start(t, "timeout", r)
    BY <2>1
  <2> HIDE DEF r
  <2>9. TasksOK'
    BY <1>2, <2>7, <2>8
  <2> QED BY <1>1, <1>6, <2>9 DEF StartSetIdleTimeout, TypeInv, RegistryOK, indexVars
<1> QED BY <1>3, <1>4, <1>5, <1>6 DEF StartProgram

LEMMA StepTypeInv ==
  ASSUME TypeInv, [Next]_vars
  PROVE  TypeInv'
<1>1. ASSUME NEW t \in Tasks, Step(t) PROVE TypeInv'
  BY <1>1, LookupTypeInv, AcquireTypeInv, AttachTypeInv, DialTypeInv,
     TransportTypeInv, ClearMarkTypeInv, OwnershipTypeInv, ReleaseTypeInv, TimerTypeInv,
     RetireTypeInv, KeepAliveTypeInv, RearmTypeInv, DisconnectTypeInv DEF Step
<1>2. CASE UNCHANGED vars
  BY <1>2 DEF TypeInv, RegistryOK, TasksOK, TaskOK, Cur, vars
<1> QED BY <1>1, <1>2, StartTypeInv, WakeTypeInv DEF Next

(* The inductive form of TypeOK, with what each label of a task says of its *)
(* call, holds of every behaviour of the registry.                          *)
THEOREM TypeInvariant == Spec => []TypeInv
<1> QED BY InitTypeInv, StepTypeInv, PTL DEF Spec

(* Every variable of the registry keeps its type, and a thread inside a     *)
(* call has one.                                                            *)
THEOREM TypeCorrect == Spec => []TypeOK
<1>1. TypeInv => TypeOK
  BY DEF TypeInv, RegistryOK, TasksOK, TaskOK, TypeOK
<1> QED BY <1>1, TypeInvariant, PTL

-----------------------------------------------------------------------------
(* The indexes.  retire_connection empties by_key before by_id, and holds   *)
(* ownership_transition of the entry meanwhile; the registration it checks  *)
(* under that lock is what makes the two removals hit the entry it found.   *)

Unregistering(t, c) == pc[t] \in {"unlink", "forget"} /\ ent[t] = c

IndexTask(t) ==
  /\ pc[t] \in {"cancel", "push", "enter", "decrement"} => Born(ent[t])
  /\ pc[t] \in {"byKey", "enter"} =>
       Born(Cur(t).conn) /\ entry[Cur(t).conn].key = key[t]
  /\ pc[t] = "enter" /\ ent[t] # Cur(t).conn => byKey[key[t]] # Cur(t).conn
  /\ pc[t] \in {"unlink", "forget"} =>
       ent[t] = Cur(t).conn /\ byId[ent[t]] = key[t] /\ Born(ent[t])
  /\ pc[t] = "unlink" => byKey[key[t]] = ent[t]
  /\ pc[t] = "forget" => byKey[key[t]] # ent[t]

IndexInv ==
  /\ \A k \in PoolKeys : byKey[k] # None => byId[byKey[k]] = k
  /\ \A c \in Conns : byId[c] # None => entry[c].key = byId[c]
  /\ \A c \in Conns : entry[c].key \in Conns => entry[c].key = c
  /\ \A c \in Conns : byId[c] # None =>
       byKey[byId[c]] = c \/ \E t \in Tasks : pc[t] = "forget" /\ ent[t] = c
  /\ \A t \in Tasks : IndexTask(t)
  /\ \A t, x \in Tasks : \A c \in Conns :
       Unregistering(t, c) /\ Unregistering(x, c) => t = x

LEMMA IndexInvAgrees == TypeInv /\ IndexInv => IndexesAgree
BY DEF TypeInv, TasksOK, TaskOK, IndexInv, IndexTask, IndexesAgree, Retiring

(* A step of task t outside the indexes, the lookups and the retirement.    *)
Aside(t) ==
  /\ UNCHANGED indexVars
  /\ \A c \in Conns : entry'[c].key = entry[c].key
  /\ \A x \in Tasks \ {t} : /\ pc'[x] = pc[x] /\ todo'[x] = todo[x]
                            /\ key'[x] = key[x] /\ ent'[x] = ent[x]
  /\ pc[t] \notin {"unlink", "forget"}
  /\ pc'[t] \notin {"byKey", "enter", "unlink", "forget"}
  /\ pc'[t] \in {"cancel", "push", "decrement"} =>
       ent'[t] = ent[t] /\ pc[t] \in {"cancel", "enter"}

LEMMA AsideIndex ==
  ASSUME TypeInv, IndexInv, NEW t \in Tasks, Aside(t)
  PROVE  IndexInv'
<1>1. \A c \in Conns : Born(c)' <=> Born(c)
  BY DEF Aside, Born
<1>2. ASSUME NEW x \in Tasks PROVE IndexTask(x)'
  <2>1. CASE x = t
    <3>1. pc'[t] \in {"cancel", "push", "decrement"} => Born(ent[t]) /\ ent[t] \in Conns
      BY DEF IndexInv, IndexTask, Aside, TypeInv, TasksOK, TaskOK, Inside, Labels
    <3> QED BY <1>1, <2>1, <3>1 DEF Aside, IndexTask
  <2>2. CASE x # t
    <3>1. /\ pc'[x] = pc[x] /\ todo'[x] = todo[x] /\ key'[x] = key[x] /\ ent'[x] = ent[x]
          /\ byKey' = byKey /\ byId' = byId /\ TaskOK(x) /\ IndexTask(x)
      BY <2>2 DEF Aside, indexVars, TypeInv, TasksOK, IndexInv
    <3>2. pc[x] \in {"byKey", "enter", "unlink", "forget"} => Cur(x).conn \in Conns
      BY <3>1, AtLabel DEF TaskOK, LookupOps
    <3> QED BY <1>1, <3>1, <3>2 DEF Aside, IndexTask, TaskOK, Cur, Inside, Labels
  <2> QED BY <2>1, <2>2
<1>3. \A c \in Conns : byId'[c] # None =>
        byKey'[byId'[c]] = c \/ \E x \in Tasks : pc'[x] = "forget" /\ ent'[x] = c
  BY DEF IndexInv, Aside, indexVars
<1>4. \A y, x \in Tasks : \A c \in Conns :
        Unregistering(y, c)' /\ Unregistering(x, c)' => y = x
  BY DEF IndexInv, Aside, Unregistering
<1> QED BY <1>2, <1>3, <1>4 DEF IndexInv, Aside, indexVars

LEMMA MoveAside ==
  ASSUME TypeInv, NEW t \in Tasks, pc[t] \notin {"unlink", "forget"},
         UNCHANGED indexVars, \A c \in Conns : entry'[c].key = entry[c].key,
         \/ \E s : Continue(t, s)
         \/ Finish(t)
         \/ \E label \in {"decide", "keepCancel", "disarm", "capture", "settle"} :
              Goto(t, label)
         \/ pc[t] \in {"cancel", "enter"}
            /\ \E label \in {"push", "decrement"} : Goto(t, label)
  PROVE  Aside(t)
BY DEF Aside, Continue, Finish, Goto, TypeInv, TasksOK

LEMMA StepAside ==
  ASSUME TypeInv, NEW t \in Tasks,
         \/ OutOfIds(t) \/ AcquireCancel(t) \/ AcquirePush(t) \/ Attach(t)
         \/ DialReaches(t) \/ DialFails(t) \/ ClearPhysical(t)
         \/ Adopt(t) \/ Disown(t) \/ MarkState(t)
         \/ ReleaseDetach(t) \/ ReleaseDecrement(t) \/ ReleaseDecide(t)
         \/ KeepCancel(t) \/ Disarm(t) \/ Capture(t) \/ Settle(t)
         \/ KeepAliveOn(t) \/ KeepAliveOff(t) \/ Disconnect(t)
  PROVE  Aside(t)
<1>0. entry \in [Conns -> Entry] /\ pc[t] \notin {"free", "unlink", "forget"}
  BY DEF TypeInv, RegistryOK, OutOfIds, AcquireCancel, AcquirePush, Attach,
     DialReaches, DialFails, ClearPhysical, Adopt, Disown, MarkState,
     ReleaseDetach, ReleaseDecrement, ReleaseDecide, KeepCancel, Disarm, Capture,
     Settle, KeepAliveOn, KeepAliveOff, Disconnect, At, AtCall
<1>a. \A e \in Entry : Cancel(e).key = e.key
  BY DEF Cancel, Entry
<1>b. \A e \in Entry, u \in Users : Push(e, u).key = e.key /\ PushAndRevive(e, u).key = e.key
  BY DEF Push, PushAndRevive, Entry
<1>1. UNCHANGED indexVars
  BY DEF OutOfIds, AcquireCancel, AcquirePush, Attach,
     DialReaches, DialFails, ClearPhysical, Adopt, Disown, MarkState,
     ReleaseDetach, ReleaseDecrement, ReleaseDecide, KeepCancel, Disarm, Capture,
     Settle, KeepAliveOn, KeepAliveOff, Disconnect
<1>2. \A c \in Conns : entry'[c].key = entry[c].key
  <2>1. CASE OutOfIds(t) \/ ReleaseDecide(t)
    BY <2>1 DEF OutOfIds, ReleaseDecide
  <2>2. CASE AcquireCancel(t) \/ KeepCancel(t) \/ Disarm(t)
    BY <1>0, <1>a, <2>2 DEF AcquireCancel, KeepCancel, Disarm
  <2>8. CASE KeepAliveOn(t)
    BY <1>0, <2>8 DEF KeepAliveOn, Cancel, Entry
  <2>9. CASE KeepAliveOff(t)
    BY <1>0, <2>9 DEF KeepAliveOff, Entry
  <2>3. CASE AcquirePush(t) \/ Attach(t)
    <3>1. Cur(t).who \in Users
      BY <1>0, <2>3, AtLabel, CallShape
      DEF AcquirePush, Attach, At, AtCall, TaskOK
    <3> QED BY <1>0, <1>b, <2>3, <3>1 DEF AcquirePush, Attach
  <2>4. CASE DialReaches(t) \/ DialFails(t) \/ ClearPhysical(t) \/ MarkState(t)
    BY <1>0, <2>4 DEF DialReaches, DialFails, ClearPhysical, MarkState, Entry
  <2>5. CASE Adopt(t) \/ Disown(t)
    BY <1>0, <2>5 DEF Adopt, Disown, Entry
  <2>6. CASE ReleaseDetach(t) \/ ReleaseDecrement(t) \/ Capture(t)
    BY <1>0, <2>6 DEF ReleaseDetach, ReleaseDecrement, Capture, Entry
  <2>10. CASE Settle(t)
    BY <1>0, <2>10 DEF Settle, Entry
  <2>7. CASE Disconnect(t)
    BY <1>0, <1>a, <2>7 DEF Disconnect
  <2> QED BY <2>1, <2>2, <2>3, <2>4, <2>5, <2>6, <2>7, <2>8, <2>9, <2>10
<1>3. \/ \E s : Continue(t, s)
      \/ Finish(t)
      \/ \E label \in {"decide", "keepCancel", "disarm", "capture", "settle"} : Goto(t, label)
      \/ pc[t] \in {"cancel", "enter"} /\ \E label \in {"push", "decrement"} : Goto(t, label)
  BY DEF OutOfIds, AcquireCancel, AcquirePush, Attach,
     DialReaches, DialFails, ClearPhysical, Adopt, Disown, MarkState,
     ReleaseDetach, ReleaseDecrement, ReleaseDecide, KeepCancel, Disarm, Capture,
     Settle, KeepAliveOn, KeepAliveOff, Disconnect, At, AtCall
<1> QED BY <1>0, <1>1, <1>2, <1>3, MoveAside

LEMMA TransportAside ==
  ASSUME TypeInv, NEW t \in Tasks, TakeTransport(t)
  PROVE  Aside(t)
BY TransportOnly DEF Aside

LEMMA LookupIndex ==
  ASSUME TypeInv, IndexInv, NEW t \in Tasks, LookupId(t) \/ LookupKey(t)
  PROVE  IndexInv'
<1>0. /\ UNCHANGED <<byKey, byId, entry>> /\ pc[t] \in {"start", "byKey"}
      /\ Cur(t).conn \in Conns /\ TasksOK /\ RegistryOK
  BY AtLabel DEF LookupId, LookupKey, At, AtCall, indexVars, LookupOps, TaskOK
<1>1. CASE Missing(t)
  <2>1. \E s : Continue(t, s)
    BY <1>1 DEF Missing, Finish
  <2> QED BY <1>0, <2>1, MoveAside, AsideIndex DEF indexVars
<1>2. CASE LookupId(t) /\ byId[Cur(t).conn] # None
  <2>1. /\ pc' = [pc EXCEPT ![t] = "byKey"] /\ UNCHANGED <<todo, ent>>
        /\ key' = [key EXCEPT ![t] = byId[Cur(t).conn]]
    BY <1>2 DEF LookupId
  <2>2. Born(Cur(t).conn) /\ entry[Cur(t).conn].key = byId[Cur(t).conn]
    BY <1>0, <1>2 DEF IndexInv, Born
  <2>3. \A x \in Tasks : IndexTask(x)'
    BY <1>0, <2>1, <2>2 DEF IndexInv, IndexTask, Born, Cur, TasksOK
  <2>4. \A x \in Tasks : pc[x] \in {"unlink", "forget"} => pc'[x] = pc[x]
    BY <1>0, <2>1 DEF TasksOK
  <2>5. \A x \in Tasks : pc'[x] \in {"unlink", "forget"} => pc'[x] = pc[x]
    BY <1>0, <2>1 DEF TasksOK
  <2> QED BY <1>0, <2>1, <2>3, <2>4, <2>5 DEF IndexInv, Unregistering
<1>3. CASE LookupKey(t) /\ byKey[key[t]] # None
  <2>1. /\ pc' = [pc EXCEPT ![t] = "enter"] /\ UNCHANGED <<todo, key>>
        /\ ent' = [ent EXCEPT ![t] = byKey[key[t]]]
        /\ pc[t] = "byKey" /\ key[t] \in PoolKeys
    BY <1>0, <1>3 DEF LookupKey, At, TasksOK, TaskOK
  <2>2. Born(byKey[key[t]])
    <3>1. byKey[key[t]] \in Conns /\ byId[byKey[key[t]]] = key[t]
      BY <1>0, <1>3, <2>1 DEF IndexInv, RegistryOK
    <3> QED BY <2>1, <3>1, RegistryAssumption DEF IndexInv, Born, PoolKeys
  <2>3. \A x \in Tasks : IndexTask(x)'
    BY <1>0, <2>1, <2>2 DEF IndexInv, IndexTask, Born, Cur, TasksOK
  <2>4. \A x \in Tasks : /\ pc[x] \in {"unlink", "forget"} => pc'[x] = pc[x] /\ ent'[x] = ent[x]
                         /\ pc'[x] \in {"unlink", "forget"} => pc'[x] = pc[x] /\ ent'[x] = ent[x]
    BY <1>0, <2>1 DEF TasksOK
  <2> QED BY <1>0, <2>3, <2>4 DEF IndexInv, Unregistering
<1> QED BY <1>1, <1>2, <1>3 DEF LookupId, LookupKey

(* A new connection takes a pool key nothing is registered under.           *)
LEMMA InsertIndex ==
  ASSUME TypeInv, IndexInv, NEW t \in Tasks, NEW c \in Conns, NEW k \in PoolKeys,
         ~Born(c), byKey[k] = None, k \in Conns => k = c,
         byKey' = [byKey EXCEPT ![k] = c], byId' = [byId EXCEPT ![c] = k],
         \A x \in Conns \ {c} : entry'[x].key = entry[x].key, entry'[c].key = k,
         \A x \in Tasks \ {t} : /\ pc'[x] = pc[x] /\ todo'[x] = todo[x]
                                /\ key'[x] = key[x] /\ ent'[x] = ent[x],
         pc[t] \in {"free", "start"}, pc'[t] \in {"cancel", "start"},
         pc'[t] = "cancel" => ent'[t] # None /\ ent'[t] \in Conns /\ (ent'[t] = c \/ Born(ent'[t]))
  PROVE  IndexInv'
<1>0. k # None /\ c # None
  BY RegistryAssumption DEF PoolKeys
<1>1. \A x \in Conns : Born(x) => x # c /\ Born(x)'
  BY DEF Born
<1>2. Born(c)'
  BY <1>0 DEF Born
<1>3. byKey' \in [PoolKeys -> Conns \cup {None}] /\ byId' \in [Conns -> PoolKeys \cup {None}]
  BY DEF TypeInv, RegistryOK
<1>4. \A x \in Conns : byId[x] # None => Born(x)
  BY DEF IndexInv, Born
<1>5. ASSUME NEW x \in Tasks PROVE IndexTask(x)'
  <2>1. CASE x = t
    BY <1>1, <1>2, <2>1 DEF IndexTask
  <2>2. CASE x # t
    <3>1. /\ pc'[x] = pc[x] /\ todo'[x] = todo[x] /\ key'[x] = key[x] /\ ent'[x] = ent[x]
          /\ TaskOK(x) /\ IndexTask(x) /\ Cur(x)' = Cur(x)
      BY <2>2 DEF TypeInv, TasksOK, IndexInv, Cur
    <3>2. pc[x] \in {"byKey", "enter", "unlink", "forget"} =>
            Cur(x).conn \in Conns /\ key[x] \in PoolKeys
      BY <3>1, AtLabel DEF TaskOK, LookupOps
    <3>3. pc[x] \in {"cancel", "push", "enter", "decrement", "unlink", "forget"} =>
            ent[x] \in Conns /\ Born(ent[x])
      BY <3>1 DEF TaskOK, IndexTask, Inside, Labels
    <3>4. \A y \in PoolKeys : byKey'[y] = IF y = k THEN c ELSE byKey[y]
      BY DEF TypeInv, RegistryOK
    <3>5. \A y \in Conns : Born(y) => entry'[y].key = entry[y].key /\ byId'[y] = byId[y]
      BY <1>1 DEF TypeInv, RegistryOK
    <3>6. pc[x] \in {"cancel", "push", "enter", "decrement", "unlink", "forget"} =>
            Born(ent[x])' /\ ent[x] # None
      BY <1>0, <1>1, <3>3, RegistryAssumption
    <3>7. pc[x] \in {"byKey", "enter"} =>
            /\ Born(Cur(x).conn)' /\ Cur(x).conn # c
            /\ entry'[Cur(x).conn].key = key[x]
      BY <1>1, <3>1, <3>2, <3>5 DEF IndexTask
    <3>8. pc[x] = "enter" /\ ent[x] # Cur(x).conn => byKey'[key[x]] # Cur(x).conn
      BY <3>1, <3>2, <3>4, <3>7 DEF IndexTask
    <3>9. pc[x] \in {"unlink", "forget"} =>
            ent[x] = Cur(x).conn /\ byId'[ent[x]] = key[x]
      BY <3>1, <3>3, <3>5 DEF IndexTask
    <3>10. pc[x] = "unlink" => byKey'[key[x]] = ent[x]
      BY <3>1, <3>2, <3>4, <3>6 DEF IndexTask
    <3>11. pc[x] = "forget" => byKey'[key[x]] # ent[x]
      BY <1>1, <3>1, <3>2, <3>3, <3>4 DEF IndexTask
    <3> QED BY <3>1, <3>6, <3>7, <3>8, <3>9, <3>10, <3>11 DEF IndexTask
  <2> QED BY <2>1, <2>2
<1>6. ASSUME NEW y \in PoolKeys, byKey'[y] # None PROVE byId'[byKey'[y]] = y
  <2>1. CASE y = k
    BY <2>1 DEF TypeInv, RegistryOK
  <2>2. CASE y # k
    <3>1. byKey'[y] = byKey[y] /\ byKey[y] \in Conns /\ byId[byKey[y]] = y /\ y # None
      BY <1>6, <2>2, RegistryAssumption DEF IndexInv, TypeInv, RegistryOK, PoolKeys
    <3>2. byKey[y] # c
      BY <1>1, <1>4, <3>1
    <3> QED BY <3>1, <3>2 DEF TypeInv, RegistryOK
  <2> QED BY <2>1, <2>2
<1>7. \A x \in Conns : byId'[x] # None => entry'[x].key = byId'[x]
  BY DEF IndexInv, TypeInv, RegistryOK
<1>8. \A x \in Conns : entry'[x].key \in Conns => entry'[x].key = x
  BY DEF IndexInv
<1>9. ASSUME NEW x \in Conns, byId'[x] # None
      PROVE  byKey'[byId'[x]] = x \/ \E y \in Tasks : pc'[y] = "forget" /\ ent'[y] = x
  <2>1. CASE x = c
    BY <2>1 DEF TypeInv, RegistryOK
  <2>2. CASE x # c
    <3>1. byId'[x] = byId[x] /\ byId[x] \in PoolKeys
      BY <1>9, <2>2 DEF TypeInv, RegistryOK
    <3>2. CASE byKey[byId[x]] = x
      BY <1>0, <3>1, <3>2, RegistryAssumption DEF TypeInv, RegistryOK
    <3>3. CASE \E y \in Tasks : pc[y] = "forget" /\ ent[y] = x
      <4>1. PICK y \in Tasks : pc[y] = "forget" /\ ent[y] = x
        BY <3>3
      <4> QED BY <4>1
    <3> QED BY <1>9, <3>1, <3>2, <3>3 DEF IndexInv
  <2> QED BY <2>1, <2>2
<1>10. \A y, x \in Tasks : \A z \in Conns :
         Unregistering(y, z)' /\ Unregistering(x, z)' => y = x
  BY DEF IndexInv, Unregistering
<1> QED BY <1>5, <1>6, <1>7, <1>8, <1>9, <1>10 DEF IndexInv

LEMMA RegisteredBorn ==
  ASSUME TypeInv, IndexInv
  PROVE  /\ \A c \in Conns : byId[c] # None => Born(c)
         /\ \A k \in PoolKeys : byKey[k] # None =>
              byKey[k] \in Conns /\ Born(byKey[k]) /\ entry[byKey[k]].key = k
BY RegistryAssumption DEF TypeInv, RegistryOK, IndexInv, Born, PoolKeys

LEMMA AcquireIndex ==
  ASSUME TypeInv, IndexInv, NEW t \in Tasks, Acquire(t)
  PROVE  IndexInv'
<1> DEFINE k == Cur(t).arg
<1>1. /\ pc[t] = "start" /\ k \in Keys /\ k \in PoolKeys /\ k \notin Conns
      /\ TasksOK /\ RegistryOK
  BY AtLabel, CallShape, RegistryAssumption DEF Acquire, AtCall, PoolKeys
<1>2. /\ pc' = [pc EXCEPT ![t] = "cancel"] /\ UNCHANGED <<todo, key>>
  BY DEF Acquire
<1>3. CASE byKey[k] # None
  <2>1. ent' = [ent EXCEPT ![t] = byKey[k]] /\ UNCHANGED <<byKey, byId, entry>>
    BY <1>3 DEF Acquire, indexVars
  <2>2. Born(byKey[k])
    BY <1>1, <1>3, RegisteredBorn
  <2>3. \A x \in Tasks : IndexTask(x)'
    BY <1>1, <1>2, <2>1, <2>2 DEF IndexInv, IndexTask, Born, Cur, TasksOK
  <2>4. \A x \in Tasks : /\ pc[x] \in {"unlink", "forget"} => pc'[x] = pc[x] /\ ent'[x] = ent[x]
                         /\ pc'[x] \in {"unlink", "forget"} => pc'[x] = pc[x] /\ ent'[x] = ent[x]
    BY <1>1, <1>2, <2>1 DEF TasksOK
  <2> QED BY <2>1, <2>3, <2>4 DEF IndexInv, Unregistering
<1>4. CASE byKey[k] = None
  <2>1. PICK c \in Conns :
          /\ ~Born(c)
          /\ byKey' = [byKey EXCEPT ![k] = c] /\ byId' = [byId EXCEPT ![c] = k]
          /\ entry' = [entry EXCEPT ![c] = NewEntry(k, FALSE, poolTimeout)]
          /\ ent'   = [ent EXCEPT ![t] = c]
    BY <1>4 DEF Acquire
  <2>2. /\ \A x \in Conns \ {c} : entry'[x].key = entry[x].key
        /\ entry'[c].key = k
    BY <1>1, <2>1 DEF RegistryOK, NewEntry
  <2>3. /\ \A x \in Tasks \ {t} : /\ pc'[x] = pc[x] /\ todo'[x] = todo[x]
                                  /\ key'[x] = key[x] /\ ent'[x] = ent[x]
        /\ pc'[t] = "cancel" /\ ent'[t] = c /\ c # None
    BY <1>1, <1>2, <2>1, RegistryAssumption DEF TasksOK
  <2> QED BY <1>1, <1>4, <2>1, <2>2, <2>3, InsertIndex
<1> QED BY <1>3, <1>4

LEMMA StartIndex ==
  ASSUME TypeInv, IndexInv, NEW t \in Workers, StartProgram(t)
  PROVE  IndexInv'
<1>1. t \in Tasks /\ TasksOK /\ RegistryOK
  BY DEF Tasks, TypeInv
<1>2. ASSUME NEW client, NEW s, Start(t, client, s), UNCHANGED <<indexVars, entry>>
      PROVE  IndexInv'
  <2>1. pc[t] = "free" /\ Continue(t, s)
    BY <1>2 DEF Start
  <2> QED BY <1>1, <1>2, <2>1, MoveAside, AsideIndex
<1>3. ASSUME NEW c \in Conns, NEW u \in Consumers, NEW p \in Conns \cup {None},
             StartDedicated(t, c, u, p)
      PROVE  IndexInv'
  <2>1. /\ ~Born(c)
        /\ byKey' = [byKey EXCEPT ![c] = c] /\ byId' = [byId EXCEPT ![c] = c]
        /\ entry' = [entry EXCEPT ![c] = Push(NewEntry(c, TRUE, poolTimeout), u)]
    BY <1>3 DEF StartDedicated, OpenDedicated
  <2>2. c \in PoolKeys /\ u \in Users
    BY DEF PoolKeys, Users
  <2>3. byKey[c] = None
    <3>1. SUFFICES ASSUME byKey[c] # None PROVE FALSE
      OBVIOUS
    <3>2. byKey[c] \in Conns /\ Born(byKey[c]) /\ entry[byKey[c]].key = c
      BY <2>2, <3>1, RegisteredBorn
    <3>3. byKey[c] = c
      BY <3>2 DEF IndexInv
    <3> QED BY <2>1, <3>2, <3>3
  <2>4. PICK x : Start(t, "dedicated", << x >>)
    BY <1>3 DEF StartDedicated
  <2>5. /\ \A y \in Tasks \ {t} : /\ pc'[y] = pc[y] /\ todo'[y] = todo[y]
                                  /\ key'[y] = key[y] /\ ent'[y] = ent[y]
        /\ pc'[t] = "start" /\ pc[t] = "free"
    BY <1>1, <2>4 DEF Start, Continue, TasksOK
  <2>6. /\ \A y \in Conns \ {c} : entry'[y].key = entry[y].key
        /\ entry'[c].key = c
    BY <1>1, <2>1 DEF RegistryOK, NewEntry, Push
  <2> QED BY <1>1, <2>1, <2>2, <2>3, <2>5, <2>6, InsertIndex
<1>4. ASSUME NEW c \in Conns, StartOnConnection(t, c) PROVE IndexInv'
  <2>1. PICK client, call : StartCall(t, client, call)
    BY <1>4 DEF StartOnConnection
  <2> QED BY <1>2, <2>1 DEF StartCall
<1>5. ASSUME NEW k \in Keys, NEW u \in Consumers, StartNode(t, k, u) PROVE IndexInv'
  BY <1>2, <1>5 DEF StartNode
<1>6. ASSUME NEW b \in BOOLEAN, StartSetIdleTimeout(t, b) PROVE IndexInv'
  <2>1. PICK s : Start(t, "timeout", s)
    BY <1>6 DEF StartSetIdleTimeout
  <2> QED BY <1>2, <1>6, <2>1 DEF StartSetIdleTimeout
<1> QED BY <1>3, <1>4, <1>5, <1>6 DEF StartProgram

LEMMA WakeIndex ==
  ASSUME TypeInv, IndexInv, NEW t \in Reapers, NEW c \in Conns, Wake(t, c)
  PROVE  IndexInv'
<1>1. t \in Tasks /\ pc[t] = "free" /\ UNCHANGED indexVars
  BY DEF Tasks, Wake
<1>2. \A x \in Conns : entry'[x].key = entry[x].key
  BY DEF Wake, TypeInv, RegistryOK, Entry
<1>3. CASE UNCHANGED taskVars
  BY <1>1, <1>2, <1>3, AsideIndex DEF Aside, taskVars
<1>4. CASE \E s : Continue(t, s)
  BY <1>1, <1>2, <1>4, MoveAside, AsideIndex
<1> QED BY <1>3, <1>4 DEF Wake

LEMMA RearmIndex ==
  ASSUME TypeInv, IndexInv, NEW t \in Tasks, Rearm(t)
  PROVE  IndexInv'
<1>1. /\ pc[t] = "start" /\ pc[t] # "free" /\ TasksOK /\ RegistryOK
      /\ Cur(t).conn \in Conns /\ UNCHANGED indexVars
  BY AtLabel DEF Rearm, AtCall
<1>2. \A x \in Conns : entry'[x].key = entry[x].key
  BY <1>1 DEF Rearm, RegistryOK, Entry, Cancel
<1>3. CASE Finish(t)
  BY <1>1, <1>2, <1>3, MoveAside, AsideIndex
<1>4. CASE pc' = [pc EXCEPT ![t] = "disarm"] /\ ent' = [ent EXCEPT ![t] = Cur(t).conn]
           /\ UNCHANGED <<todo, key>>
  BY <1>1, <1>2, <1>4, AsideIndex DEF Aside, TasksOK
<1> QED BY <1>3, <1>4 DEF Rearm

(* What a step that only moves t between labels of the retirement keeps.    *)
LEMMA RetireEnterIndex ==
  ASSUME TypeInv, IndexInv, NEW t \in Tasks, RetireEnter(t)
  PROVE  IndexInv'
<1> DEFINE c == Cur(t).conn
<1>1. /\ pc[t] = "enter" /\ pc[t] # "free" /\ TasksOK /\ RegistryOK
      /\ ent[t] \in Conns /\ c \in Conns /\ key[t] \in PoolKeys
      /\ todo[t] \in Seq(Calls) /\ todo[t] # << >>
      /\ Born(ent[t]) /\ UNCHANGED indexVars
  BY AtLabel DEF RetireEnter, AtCall, Inside, Labels, TaskOK, IndexInv, IndexTask
<1>2. CASE StillRegistered(t)
  <2>1. ent[t] = c /\ byKey[key[t]] = c /\ byId[c] = key[t]
    BY <1>1, <1>2 DEF IndexInv, IndexTask, StillRegistered
  <2>2. /\ pc' = [pc EXCEPT ![t] = "unlink"] /\ UNCHANGED <<key, ent, byKey, byId>>
        /\ \E s \in Seq(Calls) : todo' = [todo EXCEPT ![t] = << Cur(t) >> \o s]
    <3> DEFINE e == entry[ent[t]]
               s == (IF e.parent # None /\ e.parentConsumer # None
                      THEN << Release(e.parent, e.parentConsumer) >> ELSE << >>)
                    \o Rest(t)
    <3>1. s \in Seq(Calls)
      <4>1. e \in Entry /\ Rest(t) \in Seq(Calls)
        BY <1>1, AtLabel DEF RegistryOK
      <4>2. (IF e.parent # None /\ e.parentConsumer # None
              THEN << Release(e.parent, e.parentConsumer) >> ELSE << >>) \in Seq(Calls)
        BY <4>1, ReleaseCall DEF Entry
      <4> QED BY <4>1, <4>2
    <3>2. todo' = [todo EXCEPT ![t] = << Cur(t) >> \o s]
      BY <1>2 DEF RetireEnter
    <3> HIDE DEF s
    <3> QED BY <1>2, <3>1, <3>2 DEF RetireEnter, indexVars
  <2>3. Cur(t)' = Cur(t) /\ \A x \in Tasks \ {t} : Cur(x)' = Cur(x)
    BY <1>1, <2>2, Current DEF Cur, TasksOK
  <2>4. \A x \in Conns : entry'[x].key = entry[x].key
    <3> DEFINE f == [Cancel(entry[ent[t]]) EXCEPT !.parentConsumer = None]
    <3>1. entry' = [entry EXCEPT ![ent[t]] = f]
      BY <1>2 DEF RetireEnter
    <3>2. f.key = entry[ent[t]].key
      <4>1. entry[ent[t]] \in Entry
        BY <1>1 DEF RegistryOK
      <4> QED BY <4>1 DEF Cancel, Entry
    <3> HIDE DEF f
    <3> QED BY <1>1, <3>1, <3>2 DEF RegistryOK
  <2>5. ASSUME NEW x \in Tasks PROVE IndexTask(x)'
    <3>1. CASE x = t
      BY <1>1, <2>1, <2>2, <2>3, <2>4, <3>1 DEF IndexTask, Born, TasksOK
    <3>2. CASE x # t
      <4>1. /\ pc'[x] = pc[x] /\ key'[x] = key[x] /\ ent'[x] = ent[x]
            /\ Cur(x)' = Cur(x) /\ TaskOK(x) /\ IndexTask(x)
        BY <1>1, <2>2, <2>3, <3>2 DEF TasksOK, IndexInv
      <4>2. /\ pc[x] \in {"byKey", "enter"} => Cur(x).conn \in Conns
            /\ pc[x] \in {"cancel", "push", "enter", "decrement", "unlink", "forget"} =>
                 ent[x] \in Conns
        BY <4>1, AtLabel DEF TaskOK, LookupOps, Inside, Labels
      <4> QED BY <2>2, <2>4, <4>1, <4>2 DEF IndexTask, Born
    <3> QED BY <3>1, <3>2
  <2>6. ~Locked(ent[t])
    BY DEF RetireEnter
  <2>7. \A y, x \in Tasks : \A z \in Conns :
          Unregistering(y, z)' /\ Unregistering(x, z)' => y = x
    BY <1>1, <2>2, <2>6 DEF IndexInv, Unregistering, Locked, TasksOK
  <2>8. \A x \in Tasks : pc[x] = "forget" => pc'[x] = "forget" /\ ent'[x] = ent[x]
    BY <1>1, <2>2 DEF TasksOK
  <2> QED BY <2>2, <2>4, <2>5, <2>7, <2>8 DEF IndexInv
<1>3. CASE ~StillRegistered(t)
  <2>1. Finish(t) /\ UNCHANGED entry
    BY <1>3 DEF RetireEnter
  <2> QED BY <1>1, <2>1, MoveAside, AsideIndex
<1> QED BY <1>2, <1>3

LEMMA RetireUnlinkIndex ==
  ASSUME TypeInv, IndexInv, NEW t \in Tasks, RetireUnlink(t)
  PROVE  IndexInv'
<1> DEFINE c == ent[t]
<1>1. /\ pc[t] = "unlink" /\ TasksOK /\ RegistryOK /\ c \in Conns /\ c = Cur(t).conn
      /\ key[t] \in PoolKeys /\ byKey[key[t]] = c /\ byId[c] = key[t]
      /\ c # None /\ UNCHANGED <<byId, entry, todo, key, ent>>
      /\ pc' = [pc EXCEPT ![t] = "forget"] /\ byKey' = [byKey EXCEPT ![key[t]] = None]
  <2>1. pc[t] = "unlink" /\ TasksOK /\ RegistryOK /\ TaskOK(t) /\ IndexTask(t)
    BY DEF RetireUnlink, At, TypeInv, TasksOK, IndexInv
  <2>2. c \in Conns /\ key[t] \in PoolKeys
    BY <2>1, AtLabel DEF TaskOK, Inside, Labels
  <2>3. c = Cur(t).conn /\ byKey[key[t]] = c /\ byId[c] = key[t]
    BY <2>1 DEF IndexTask
  <2>4. /\ UNCHANGED <<byId, entry, todo, key, ent>>
        /\ pc' = [pc EXCEPT ![t] = "forget"]
        /\ byKey' = [byKey EXCEPT ![key[t]] = IF c = Cur(t).conn THEN None ELSE @]
    BY DEF RetireUnlink, Goto
  <2> QED BY <2>1, <2>2, <2>3, <2>4, RegistryAssumption
<1>2. ASSUME NEW x \in Tasks PROVE IndexTask(x)'
  <2>1. CASE x = t
    BY <1>1, <2>1 DEF IndexInv, IndexTask, Born, Cur, TasksOK, RegistryOK
  <2>2. CASE x # t
    <3>1. /\ pc'[x] = pc[x] /\ Cur(x)' = Cur(x) /\ TaskOK(x) /\ IndexTask(x)
      BY <1>1, <2>2 DEF TasksOK, IndexInv, Cur
    <3>2. pc[x] \in {"byKey", "enter", "unlink", "forget"} =>
            Cur(x).conn # None /\ key[x] \in PoolKeys
      BY <3>1, AtLabel, RegistryAssumption DEF TaskOK, LookupOps
    <3>3. pc[x] = "unlink" => key[x] # key[t]
      BY <1>1, <2>2, <3>1 DEF IndexInv, IndexTask, Unregistering
    <3>4. pc[x] \in {"unlink", "forget"} => ent[x] # None
      BY <3>1, RegistryAssumption DEF TaskOK, Inside, Labels
    <3> QED BY <1>1, <3>1, <3>2, <3>3, <3>4 DEF IndexTask, Born, RegistryOK
  <2> QED BY <2>1, <2>2
<1>3. \A k \in PoolKeys : byKey'[k] # None => byId'[byKey'[k]] = k
  BY <1>1 DEF IndexInv, RegistryOK
<1>4. ASSUME NEW x \in Conns, byId'[x] # None
      PROVE  byKey'[byId'[x]] = x \/ \E y \in Tasks : pc'[y] = "forget" /\ ent'[y] = x
  <2>1. CASE x = c
    BY <1>1, <2>1 DEF TasksOK
  <2>2. CASE x # c
    <3>1. byId[x] # None /\ byId[x] \in PoolKeys
      BY <1>1, <1>4 DEF RegistryOK
    <3>2. CASE byKey[byId[x]] = x
      BY <1>1, <2>2, <3>1, <3>2 DEF RegistryOK
    <3>3. CASE \E y \in Tasks : pc[y] = "forget" /\ ent[y] = x
      BY <1>1, <3>3 DEF TasksOK
    <3> QED BY <3>1, <3>2, <3>3 DEF IndexInv
  <2> QED BY <2>1, <2>2
<1>5. \A y, x \in Tasks : \A z \in Conns :
        Unregistering(y, z)' /\ Unregistering(x, z)' => y = x
  BY <1>1 DEF IndexInv, Unregistering, TasksOK
<1> QED BY <1>1, <1>2, <1>3, <1>4, <1>5 DEF IndexInv

LEMMA RetireForgetIndex ==
  ASSUME TypeInv, IndexInv, NEW t \in Tasks, RetireForget(t)
  PROVE  IndexInv'
<1> DEFINE c == ent[t]
<1>1. /\ pc[t] = "forget" /\ TasksOK /\ RegistryOK /\ c \in Conns /\ c = Cur(t).conn
      /\ key[t] \in PoolKeys /\ byKey[key[t]] # c /\ byId[c] = key[t]
      /\ c # None /\ UNCHANGED <<byKey, entry>>
      /\ byId' = [byId EXCEPT ![c] = None] /\ Finish(t)
  <2>1. pc[t] = "forget" /\ TasksOK /\ RegistryOK /\ TaskOK(t) /\ IndexTask(t)
    BY DEF RetireForget, At, TypeInv, TasksOK, IndexInv
  <2>2. c \in Conns /\ key[t] \in PoolKeys
    BY <2>1, AtLabel DEF TaskOK, Inside, Labels
  <2>3. c = Cur(t).conn /\ byKey[key[t]] # c /\ byId[c] = key[t]
    BY <2>1 DEF IndexTask
  <2>4. /\ UNCHANGED <<byKey, entry>>
        /\ byId' = [byId EXCEPT ![Cur(t).conn] = None] /\ Finish(t)
    BY DEF RetireForget
  <2> QED BY <2>1, <2>2, <2>3, <2>4, RegistryAssumption
<1>2. /\ \A x \in Tasks \ {t} : /\ pc'[x] = pc[x] /\ todo'[x] = todo[x]
                                /\ key'[x] = key[x] /\ ent'[x] = ent[x]
      /\ pc'[t] \in {"free", "start"}
  BY <1>1 DEF Finish, Continue, TasksOK
<1>3. ASSUME NEW x \in Tasks PROVE IndexTask(x)'
  <2>1. CASE x = t
    BY <1>2, <2>1 DEF IndexTask
  <2>2. CASE x # t
    <3>1. Cur(x)' = Cur(x) /\ TaskOK(x) /\ IndexTask(x)
      BY <1>1, <1>2, <2>2 DEF TasksOK, IndexInv, Cur
    <3>2. pc[x] \in {"unlink", "forget"} => ent[x] # c
      BY <1>1, <2>2 DEF IndexInv, Unregistering
    <3> QED BY <1>1, <1>2, <2>2, <3>1, <3>2 DEF IndexTask, Born, RegistryOK
  <2> QED BY <2>1, <2>2
<1>4. \A k \in PoolKeys : byKey'[k] # None => byId'[byKey'[k]] = k
  BY <1>1 DEF IndexInv, RegistryOK
<1>5. ASSUME NEW x \in Conns, byId'[x] # None
      PROVE  byKey'[byId'[x]] = x \/ \E y \in Tasks : pc'[y] = "forget" /\ ent'[y] = x
  <2>1. x # c /\ byId'[x] = byId[x]
    BY <1>1, <1>5 DEF RegistryOK
  <2>2. CASE \E y \in Tasks : pc[y] = "forget" /\ ent[y] = x
    <3>1. PICK y \in Tasks : pc[y] = "forget" /\ ent[y] = x
      BY <2>2
    <3> QED BY <1>2, <2>1, <3>1
  <2> QED BY <1>1, <1>5, <2>1, <2>2 DEF IndexInv
<1>6. \A y, x \in Tasks : \A z \in Conns :
        Unregistering(y, z)' /\ Unregistering(x, z)' => y = x
  BY <1>2 DEF IndexInv, Unregistering
<1>7. \A x \in Conns : byId'[x] # None => entry'[x].key = byId'[x]
  BY <1>1 DEF IndexInv, RegistryOK
<1> QED BY <1>1, <1>3, <1>4, <1>5, <1>6, <1>7 DEF IndexInv

LEMMA StepIndexInv ==
  ASSUME TypeInv, IndexInv, [Next]_vars
  PROVE  IndexInv'
<1>1. ASSUME NEW t \in Tasks, Step(t) PROVE IndexInv'
  BY <1>1, LookupIndex, AcquireIndex, RearmIndex, RetireEnterIndex,
     RetireUnlinkIndex, RetireForgetIndex, StepAside, TransportAside, AsideIndex DEF Step
<1>2. CASE UNCHANGED vars
  BY <1>2 DEF IndexInv, IndexTask, Unregistering, Born, Cur, vars
<1> QED BY <1>1, <1>2, StartIndex, WakeIndex DEF Next

LEMMA InitIndexInv == Init => IndexInv
<1> SUFFICES ASSUME Init PROVE IndexInv
  OBVIOUS
<1>1. \A c \in Conns : entry[c].key = None /\ None \notin Conns
  BY RegistryAssumption DEF Init, NewEntry
<1> QED BY <1>1 DEF Init, IndexInv, IndexTask, Unregistering

(* retire_connection unregisters the entry it found and no other, a release *)
(* or an acquire is on an entry that exists, and at most one thread is      *)
(* between the two removals of a connection.                                *)
THEOREM IndexInvariant == Spec => []IndexInv
<1> QED BY InitIndexInv, StepIndexInv, TypeInvariant, PTL DEF Spec

(* by_key and by_id describe the same registrations at every step of every  *)
(* interleaving of acquire, release and retire_connection.                  *)
THEOREM IndexesAlwaysAgree == Spec => []IndexesAgree
<1> QED BY IndexInvAgrees, TypeInvariant, IndexInvariant, PTL

=============================================================================
