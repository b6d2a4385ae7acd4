------------------------- MODULE ConnectionRegistry -------------------------
(***************************************************************************)
(* The SSH connection registry of oxideterm-ssh                            *)
(* (crates/oxideterm-ssh/src/connection_registry.rs) and the transport     *)
(* client operations that drive it (transport/client.rs).                  *)
(*                                                                         *)
(* The registry is shared by every thread of the program.  It holds no     *)
(* global lock: by_key and by_id are concurrent maps, each entry guards    *)
(* its consumer list, its state and its ownership link separately, and     *)
(* the reference count and idle generation are atomics.  A step of this    *)
(* module is one such critical section, so that the interleavings of two   *)
(* registry calls are the interleavings of their critical sections.        *)
(*                                                                         *)
(* A task is a thread inside a registry call.  todo[t] is the sequence of  *)
(* calls it still has to make, the one it is in first; pc[t] is where it   *)
(* is in that call; key[t] is the pool key it read from by_id and ent[t]   *)
(* the entry it then read from by_key.                                     *)
(*                                                                         *)
(* idle_generation is only ever compared for equality with the value a     *)
(* sleeping idle timer captured.  An entry therefore keeps armed, the      *)
(* number of sleeping timers whose captured generation is the current one, *)
(* and captured, the tasks that read the current generation and have not   *)
(* spawned their timer yet.                                                *)
(*                                                                         *)
(* Left out: auditing, node events, remote environment detection, time     *)
(* stamps, and the SFTP slot of an entry (module SharedSftp).              *)
(***************************************************************************)
EXTENDS Integers, Sequences, FiniteSets

CONSTANTS
  Conns,      (* connection ids; each is handed out at most once            *)
  Keys,       (* pool keys of shared connections: SshConfig::connection_key *)
  Consumers,  (* logical consumers: terminals, SFTP, forwards, nodes        *)
  Workers,    (* threads that call the registry                             *)
  Reapers,    (* threads that run idle timers that went off                 *)
  Clients,    (* the client programs an instance runs, among ClientPrograms *)
  None        (* the absent connection, key or consumer                     *)

ClientPrograms == {"node", "dedicated", "attach", "release", "retire",
                   "keepAlive", "timeout", "linkDown"}

ASSUME RegistryAssumption ==
  /\ None \notin Conns \cup Keys \cup Consumers
  /\ Conns \cap Keys = {}
  /\ Conns \cap Consumers = {}
  /\ Workers \cap Reapers = {}
  /\ IsFiniteSet(Conns) /\ IsFiniteSet(Workers) /\ IsFiniteSet(Reapers)
  /\ Clients \subseteq ClientPrograms

Tasks == Workers \cup Reapers

(* A dedicated connection has a pool key of its own (a fresh uuid), written *)
(* here as its connection id.                                               *)
PoolKeys == Keys \cup Conns

(* NodeRouter("{child}:ancestor"), the consumer a tunnelled child registers *)
(* on its parent, is written as the child's connection id.                  *)
Users == Consumers \cup Conns

States == {"Connecting", "Active", "Idle", "LinkDown", "Disconnected", "Error"}

Entry == [key            : PoolKeys \cup {None},
          state          : States,
          consumers      : SUBSET Users,
          refCount       : Nat,
          keepAlive      : BOOLEAN,
          dedicated      : BOOLEAN,
          timeoutOn      : BOOLEAN,
          armed          : Nat,
          captured       : SUBSET Tasks,
          physical       : BOOLEAN,
          parent         : Conns \cup {None},
          parentConsumer : Users \cup {None}]

NewEntry(k, isDedicated, timeout) ==
  [key |-> k, state |-> "Connecting", consumers |-> {}, refCount |-> 0,
   keepAlive |-> FALSE, dedicated |-> isDedicated, timeoutOn |-> timeout,
   armed |-> 0, captured |-> {}, physical |-> FALSE, parent |-> None, parentConsumer |-> None]

VARIABLES
  byKey,        (* pool key -> connection of the registered entry           *)
  byId,         (* connection id -> pool key                                *)
  entry,        (* connection id -> its entry; key None before it is made   *)
  poolTimeout,  (* the configured idle timeout is on                        *)
  pc, todo, key, ent

indexVars == <<byKey, byId>>
taskVars  == <<pc, todo, key, ent>>
vars      == <<byKey, byId, entry, poolTimeout, pc, todo, key, ent>>

-----------------------------------------------------------------------------
(* Calls.  conn is the connection id argument (of borrow, the parent), who  *)
(* the consumer, arg a pool key, a parent, a state or a child's consumer.   *)

Calls ==
  [op : {"acquire"}, conn : {None}, who : Users, arg : Keys]
  \cup [op : {"attach", "release"}, conn : Conns, who : Users, arg : {None}]
  \cup [op : {"borrow"}, conn : Conns, who : Conns, arg : Users]
  \cup [op : {"dial"}, conn : Conns, who : Users, arg : Conns \cup {None}]
  \cup [op : {"adopt", "activate"}, conn : Conns, who : Users, arg : Conns]
  \cup [op : {"mark"}, conn : Conns, who : {None}, arg : States \ {"Idle"}]
  \cup [op : {"disown", "retire", "keepOn", "keepOff", "rearm", "clear", "kill"},
        conn : Conns, who : {None}, arg : {None}]

Call(op, c, u, a) == [op |-> op, conn |-> c, who |-> u, arg |-> a]

Release(c, u) == Call("release", c, u, None)
Mark(c, s)    == Call("mark", c, None, s)
Retire(c)     == Call("retire", c, None, None)

(* The unwinding of a child connect that failed after it borrowed its       *)
(* parent: both RegistryConsumerGuards release.                             *)
Abandon(c, u, p) == << Release(p, c), Release(c, u) >>

(* The calls that begin with by_id.get(connection_id), by_key.get(key).     *)
LookupOps == {"attach", "borrow", "adopt", "disown", "activate", "mark",
              "release", "retire", "keepOn", "keepOff", "kill"}

Registered(c) == byId[c] # None /\ byKey[byId[c]] = c

Born(c) == entry[c].key # None

(* The thread that holds ownership_transition of an entry is in the middle  *)
(* of retire_connection on it.                                              *)
Locked(e) == \E t \in Tasks : pc[t] \in {"unlink", "forget"} /\ ent[t] = e

Cur(t) == Head(todo[t])
Rest(t) == Tail(todo[t])

(* Task t goes on with the calls in s.                                      *)
Continue(t, s) ==
  /\ todo' = [todo EXCEPT ![t] = s]
  /\ pc'   = [pc EXCEPT ![t] = IF s = << >> THEN "free" ELSE "start"]
  /\ key'  = [key EXCEPT ![t] = None]
  /\ ent'  = [ent EXCEPT ![t] = None]

Finish(t) == Continue(t, Rest(t))

Goto(t, label) ==
  /\ pc' = [pc EXCEPT ![t] = label]
  /\ UNCHANGED <<todo, key, ent>>

At(t, label) == pc[t] = label

(* cancel_idle_timer: no timer that captured an earlier generation counts.  *)
Cancel(e) == [e EXCEPT !.armed = 0, !.captured = {}]

AtCall(t, label, op) == pc[t] = label /\ Cur(t).op = op

-----------------------------------------------------------------------------
Init ==
  /\ byKey = [k \in PoolKeys |-> None]
  /\ byId  = [c \in Conns |-> None]
  /\ entry = [c \in Conns |-> NewEntry(None, FALSE, TRUE)]
  /\ poolTimeout = TRUE
  /\ pc   = [t \in Tasks |-> "free"]
  /\ todo = [t \in Tasks |-> << >>]
  /\ key  = [t \in Tasks |-> None]
  /\ ent  = [t \in Tasks |-> None]

-----------------------------------------------------------------------------
(* Looking an entry up: two reads of two maps.                              *)

(* The call returns None or Err: nothing is registered under the id.        *)
Missing(t) ==
  \/ /\ Cur(t).op = "borrow"
     /\ Continue(t, << Release(Cur(t).who, Cur(t).arg) >> \o Rest(t))
  \/ /\ Cur(t).op \in {"adopt", "activate"}
     /\ Continue(t, Abandon(Cur(t).conn, Cur(t).who, Cur(t).arg)
                      \o << Call("clear", Cur(t).conn, None, None) >>)
  \/ /\ Cur(t).op \notin {"borrow", "adopt", "activate"}
     /\ Finish(t)

LookupId(t) ==
  /\ At(t, "start") /\ Cur(t).op \in LookupOps
  /\ IF byId[Cur(t).conn] = None
       THEN Missing(t)
       ELSE /\ key' = [key EXCEPT ![t] = byId[Cur(t).conn]]
            /\ pc'  = [pc EXCEPT ![t] = "byKey"]
            /\ UNCHANGED <<todo, ent>>
  /\ UNCHANGED <<indexVars, entry, poolTimeout>>

LookupKey(t) ==
  /\ At(t, "byKey")
  /\ IF byKey[key[t]] = None
       THEN Missing(t)
       ELSE /\ ent' = [ent EXCEPT ![t] = byKey[key[t]]]
            /\ pc'  = [pc EXCEPT ![t] = "enter"]
            /\ UNCHANGED <<todo, key>>
  /\ UNCHANGED <<indexVars, entry, poolTimeout>>

-----------------------------------------------------------------------------
(* acquire(config, consumer): get or insert under the shard lock of by_key, *)
(* then cancel_idle_timer, then the consumers lock.                         *)

Acquire(t) ==
  /\ AtCall(t, "start", "acquire")
  /\ LET k == Cur(t).arg IN
     IF byKey[k] # None
       THEN /\ ent' = [ent EXCEPT ![t] = byKey[k]]
            /\ UNCHANGED <<indexVars, entry>>
       ELSE \E c \in Conns :
            /\ ~Born(c)
            /\ byKey' = [byKey EXCEPT ![k] = c]
            /\ byId'  = [byId EXCEPT ![c] = k]
            /\ entry' = [entry EXCEPT ![c] = NewEntry(k, FALSE, poolTimeout)]
            /\ ent'   = [ent EXCEPT ![t] = c]
  /\ pc' = [pc EXCEPT ![t] = "cancel"]
  /\ UNCHANGED <<poolTimeout, todo, key>>

(* Bound: an acquire that finds every id used up is dropped.                *)
OutOfIds(t) ==
  /\ AtCall(t, "start", "acquire")
  /\ byKey[Cur(t).arg] = None /\ \A c \in Conns : Born(c)
  /\ Finish(t)
  /\ UNCHANGED <<indexVars, entry, poolTimeout>>

AcquireCancel(t) ==
  /\ At(t, "cancel")
  /\ entry' = [entry EXCEPT ![ent[t]] = Cancel(@)]
  /\ Goto(t, "push")
  /\ UNCHANGED <<indexVars, poolTimeout>>

(* Mutant of Push: a consumer that is already there counts again.           *)
PushTwice(e, u) == [e EXCEPT !.consumers = @ \cup {u}, !.refCount = @ + 1]

Push(e, u) ==
  IF u \in e.consumers THEN e
  ELSE [e EXCEPT !.consumers = @ \cup {u}, !.refCount = @ + 1]

(* connect_node_with_registry dials as soon as it has the handle.           *)
AcquirePush(t) ==
  /\ At(t, "push")
  /\ entry' = [entry EXCEPT ![ent[t]] = Push(@, Cur(t).who)]
  /\ Continue(t, << Call("dial", ent[t], Cur(t).who, None) >> \o Rest(t))
  /\ UNCHANGED <<indexVars, poolTimeout>>

(* acquire_dedicated(config, consumer): the entry is complete before it is  *)
(* inserted under a pool key nobody else knows.                             *)
OpenDedicated(t, c, u) ==
  /\ ~Born(c)
  /\ byKey' = [byKey EXCEPT ![c] = c]
  /\ byId'  = [byId EXCEPT ![c] = c]
  /\ entry' = [entry EXCEPT ![c] = Push(NewEntry(c, TRUE, poolTimeout), u)]

(* acquire_consumer_for_connection: one region under the consumers lock.    *)
(* The first consumer of an idle entry cancels the timer and revives it.    *)
PushAndRevive(e, u) ==
  IF u \in e.consumers \/ e.refCount # 0 THEN Push(e, u)
  ELSE [Push(e, u) EXCEPT
          !.armed = 0, !.captured = {},
          !.state = IF e.state = "Idle" /\ e.physical THEN "Active" ELSE @]

Attach(t) ==
  /\ AtCall(t, "enter", "attach") \/ AtCall(t, "enter", "borrow")
  /\ entry' = [entry EXCEPT ![ent[t]] = PushAndRevive(@, Cur(t).who)]
  /\ IF Cur(t).op = "borrow"
       THEN Continue(t, << Call("dial", Cur(t).who, Cur(t).arg, ent[t]) >> \o Rest(t))
       ELSE Finish(t)
  /\ UNCHANGED <<indexVars, poolTimeout>>

-----------------------------------------------------------------------------
(* The dial: authentication over the network or over the parent's tunnel.   *)
(* It touches only the task's own handle, and takes as long as it takes.    *)

(* A tunnel is dialled over the transport that the parent has now, even if  *)
(* the parent is disconnected later.                                        *)
TakeTransport(t) ==
  LET p == Cur(t).arg IN
  /\ AtCall(t, "start", "dial") /\ p # None /\ ent[t] = None
  /\ entry[p].physical
  /\ ent' = [ent EXCEPT ![t] = p]
  /\ UNCHANGED <<pc, todo, key, indexVars, entry, poolTimeout>>

DialReaches(t) ==
  LET c == Cur(t).conn  u == Cur(t).who  p == Cur(t).arg IN
  /\ AtCall(t, "start", "dial")
  /\ ent[t] = p
  /\ entry' = [entry EXCEPT ![c].physical = TRUE]
  /\ Continue(t, (IF p = None
                   THEN << Call("disown", c, None, None), Mark(c, "Active") >>
                   ELSE << Call("adopt", c, u, p), Call("activate", c, u, p) >>)
                 \o Rest(t))
  /\ UNCHANGED <<indexVars, poolTimeout>>

(* Mutant of DialFails: the borrowed parent is forgotten.                   *)
DialFailsKeepsParent(t) ==
  LET c == Cur(t).conn  u == Cur(t).who  p == Cur(t).arg IN
  /\ AtCall(t, "start", "dial")
  /\ entry' = [entry EXCEPT ![c].physical = @ /\ p # None]
  /\ Continue(t, << Mark(c, "Error"), Release(c, u) >> \o Rest(t))
  /\ UNCHANGED <<indexVars, poolTimeout>>

(* A root connection first drops the transport it found closed.             *)
DialFails(t) ==
  LET c == Cur(t).conn  u == Cur(t).who  p == Cur(t).arg IN
  /\ AtCall(t, "start", "dial")
  /\ entry' = [entry EXCEPT ![c].physical = @ /\ p # None]
  /\ Continue(t, << Mark(c, "Error") >>
                 \o (IF p = None THEN << Release(c, u) >> ELSE Abandon(c, u, p))
                 \o Rest(t))
  /\ UNCHANGED <<indexVars, poolTimeout>>

(* clear_physical on a handle.                                              *)
ClearPhysical(t) ==
  /\ AtCall(t, "start", "clear")
  /\ entry' = [entry EXCEPT ![Cur(t).conn].physical = FALSE]
  /\ Finish(t)
  /\ UNCHANGED <<indexVars, poolTimeout>>

(* connection_entry_is_registered(connection_id, key)                       *)
StillRegistered(t) == byId[Cur(t).conn] = key[t] /\ byKey[key[t]] = Cur(t).conn

(* Mutant of Adopt: the registration is not checked under the lock.         *)
AdoptUnchecked(t) ==
  /\ AtCall(t, "enter", "adopt") /\ ~Locked(ent[t])
  /\ entry' = [entry EXCEPT ![ent[t]].parent = Cur(t).arg,
                            ![ent[t]].parentConsumer = Cur(t).conn]
  /\ Finish(t)
  /\ UNCHANGED <<indexVars, poolTimeout>>

(* set_parent_connection_ownership, under ownership_transition.             *)
Adopt(t) ==
  /\ AtCall(t, "enter", "adopt") /\ ~Locked(ent[t])
  /\ IF StillRegistered(t)
       THEN /\ entry' = [entry EXCEPT ![ent[t]].parent = Cur(t).arg,
                                      ![ent[t]].parentConsumer = Cur(t).conn]
            /\ Finish(t)
       ELSE /\ Continue(t, Abandon(Cur(t).conn, Cur(t).who, Cur(t).arg)
                             \o << Call("clear", Cur(t).conn, None, None) >>)
            /\ UNCHANGED entry
  /\ UNCHANGED <<indexVars, poolTimeout>>

(* set_parent_connection_id(connection_id, None), under the same lock.      *)
Disown(t) ==
  LET e == entry[ent[t]] IN
  /\ AtCall(t, "enter", "disown") /\ ~Locked(ent[t])
  /\ IF StillRegistered(t)
       THEN /\ entry' = [entry EXCEPT ![ent[t]].parent = None,
                                      ![ent[t]].parentConsumer = None]
            /\ Continue(t, (IF e.parent # None /\ e.parentConsumer # None
                              THEN << Release(e.parent, e.parentConsumer) >>
                              ELSE << >>) \o Rest(t))
       ELSE Finish(t) /\ UNCHANGED entry
  /\ UNCHANGED <<indexVars, poolTimeout>>

(* Mutant of MarkState: the guard of the parent is not disarmed.            *)
MarkStateReleases(t) ==
  /\ AtCall(t, "enter", "mark") \/ AtCall(t, "enter", "activate")
  /\ entry' = [entry EXCEPT ![ent[t]].state =
                 IF Cur(t).op = "mark" THEN Cur(t).arg ELSE "Active"]
  /\ IF Cur(t).op = "mark" THEN Finish(t)
     ELSE Continue(t, << Release(Cur(t).arg, Cur(t).conn) >>)
  /\ UNCHANGED <<indexVars, poolTimeout>>

(* mark_state: the second half of the child hand-over, or a plain call.     *)
MarkState(t) ==
  /\ AtCall(t, "enter", "mark") \/ AtCall(t, "enter", "activate")
  /\ entry' = [entry EXCEPT ![ent[t]].state =
                 IF Cur(t).op = "mark" THEN Cur(t).arg ELSE "Active"]
  /\ Finish(t)
  /\ UNCHANGED <<indexVars, poolTimeout>>

-----------------------------------------------------------------------------
(* release(connection_id, consumer): the consumers lock, the reference      *)
(* count, and then a decision on what was read.                             *)

ReleaseDetach(t) ==
  LET e == entry[ent[t]]  u == Cur(t).who IN
  /\ AtCall(t, "enter", "release")
  /\ entry' = [entry EXCEPT ![ent[t]].consumers = @ \ {u}]
  /\ Goto(t, IF u \in e.consumers THEN "decrement" ELSE "decide")
  /\ UNCHANGED <<indexVars, poolTimeout>>

ReleaseDecrement(t) ==
  /\ At(t, "decrement")
  /\ entry' = [entry EXCEPT ![ent[t]].refCount = IF @ = 0 THEN 0 ELSE @ - 1]
  /\ Goto(t, "decide")
  /\ UNCHANGED <<indexVars, poolTimeout>>

(* Mutant of ReleaseDecide: a dedicated connection goes idle like any other.*)
ReleaseDecideShared(t) ==
  LET e == entry[ent[t]] IN
  /\ At(t, "decide")
  /\ IF e.refCount # 0 THEN Finish(t)
     ELSE Goto(t, IF e.keepAlive THEN "keepCancel" ELSE "disarm")
  /\ UNCHANGED <<indexVars, entry, poolTimeout>>

ReleaseDecide(t) ==
  LET e == entry[ent[t]] IN
  /\ At(t, "decide")
  /\ \/ e.refCount # 0 /\ Finish(t)
     \/ e.refCount = 0 /\ e.dedicated
        /\ Continue(t, << Retire(Cur(t).conn) >> \o Rest(t))
     \/ e.refCount = 0 /\ ~e.dedicated
        /\ Goto(t, IF e.keepAlive THEN "keepCancel" ELSE "disarm")
  /\ UNCHANGED <<indexVars, entry, poolTimeout>>

(* A kept-alive connection becomes idle without a timer.                    *)
KeepCancel(t) ==
  /\ At(t, "keepCancel")
  /\ entry' = [entry EXCEPT ![ent[t]] = Cancel(@)]
  /\ Goto(t, "settle")
  /\ UNCHANGED <<indexVars, poolTimeout>>

(* Mutant of Disarm: the generation is read before it is bumped.            *)
DisarmLate(t) ==
  /\ At(t, "disarm")
  /\ entry' = [entry EXCEPT ![ent[t]] = Cancel(@)]
  /\ Goto(t, "settle")
  /\ UNCHANGED <<indexVars, poolTimeout>>

(* start_idle_timer_for_entry: bump the generation, read it back, go idle   *)
(* and spawn the timer.                                                     *)
Disarm(t) ==
  /\ At(t, "disarm")
  /\ entry' = [entry EXCEPT ![ent[t]] = Cancel(@)]
  /\ Goto(t, "capture")
  /\ UNCHANGED <<indexVars, poolTimeout>>

Capture(t) ==
  /\ At(t, "capture")
  /\ entry' = [entry EXCEPT ![ent[t]].captured = @ \cup {t}]
  /\ Goto(t, "settle")
  /\ UNCHANGED <<indexVars, poolTimeout>>

Settle(t) ==
  LET e == entry[ent[t]] IN
  /\ At(t, "settle")
  /\ entry' = [entry EXCEPT ![ent[t]] =
       [e EXCEPT !.state = "Idle",
                 !.captured = @ \ {t},
                 !.armed = IF t \in e.captured /\ e.timeoutOn THEN @ + 1 ELSE @]]
  /\ Finish(t)
  /\ UNCHANGED <<indexVars, poolTimeout>>

-----------------------------------------------------------------------------
(* retire_connection(connection_id), under ownership_transition: the entry  *)
(* gives up its parent ownership and leaves by_key, then by_id.  The        *)
(* release of the parent, which the code makes before it drops the lock, is *)
(* the next call here: no thread that waits for the lock can tell, because  *)
(* the entry is unregistered by then.                                       *)

(* Mutant of RetireEnter: ownership_transition is not taken.                *)
RetireEnterUnlocked(t) ==
  LET e == entry[ent[t]] IN
  /\ AtCall(t, "enter", "retire")
  /\ IF StillRegistered(t)
       THEN /\ entry' = [entry EXCEPT ![ent[t]] =
                           [Cancel(e) EXCEPT !.parentConsumer = None]]
            /\ Goto(t, "unlink")
       ELSE Finish(t) /\ UNCHANGED entry
  /\ UNCHANGED <<indexVars, poolTimeout>>

RetireEnter(t) ==
  LET e == entry[ent[t]] IN
  /\ AtCall(t, "enter", "retire") /\ ~Locked(ent[t])
  /\ IF StillRegistered(t)
       THEN /\ entry' = [entry EXCEPT ![ent[t]] =
                           [Cancel(e) EXCEPT !.parentConsumer = None]]
            /\ todo' = [todo EXCEPT ![t] =
                 << Cur(t) >>
                 \o (IF e.parent # None /\ e.parentConsumer # None
                       THEN << Release(e.parent, e.parentConsumer) >>
                       ELSE << >>)
                 \o Rest(t)]
            /\ pc' = [pc EXCEPT ![t] = "unlink"]
            /\ UNCHANGED <<key, ent>>
       ELSE Finish(t) /\ UNCHANGED entry
  /\ UNCHANGED <<indexVars, poolTimeout>>

RetireUnlink(t) ==
  /\ At(t, "unlink")
  /\ byKey' = [byKey EXCEPT ![key[t]] = IF ent[t] = Cur(t).conn THEN None ELSE @]
  /\ Goto(t, "forget")
  /\ UNCHANGED <<byId, entry, poolTimeout>>

RetireForget(t) ==
  /\ At(t, "forget")
  /\ byId' = [byId EXCEPT ![Cur(t).conn] = None]
  /\ Finish(t)
  /\ UNCHANGED <<byKey, entry, poolTimeout>>

-----------------------------------------------------------------------------
(* set_keep_alive and set_idle_timeout.  An entry keeps the timeout it was  *)
(* created with; only the pool's configuration changes.                     *)

IdleUnused(e) == e.state = "Idle" /\ e.refCount = 0 /\ ~e.keepAlive

KeepAliveOn(t) ==
  /\ AtCall(t, "enter", "keepOn")
  /\ entry' = [entry EXCEPT ![ent[t]] = [Cancel(@) EXCEPT !.keepAlive = TRUE]]
  /\ Finish(t)
  /\ UNCHANGED <<indexVars, poolTimeout>>

KeepAliveOff(t) ==
  LET e == [entry[ent[t]] EXCEPT !.keepAlive = FALSE] IN
  /\ AtCall(t, "enter", "keepOff")
  /\ entry' = [entry EXCEPT ![ent[t]] = e]
  /\ IF IdleUnused(e) THEN Goto(t, "disarm") ELSE Finish(t)
  /\ UNCHANGED <<indexVars, poolTimeout>>

(* One turn of the loop of set_idle_timeout over by_key.                    *)
Rearm(t) ==
  LET c == Cur(t).conn IN
  /\ AtCall(t, "start", "rearm")
  /\ entry' = [entry EXCEPT ![c] = Cancel(@)]
  /\ IF IdleUnused(entry[c])
       THEN /\ pc'  = [pc EXCEPT ![t] = "disarm"]
            /\ ent' = [ent EXCEPT ![t] = c]
            /\ UNCHANGED <<todo, key>>
       ELSE Finish(t)
  /\ UNCHANGED <<indexVars, poolTimeout>>

-----------------------------------------------------------------------------
(* The idle timer.                                                          *)

Pooled == {c \in Conns : \E k \in PoolKeys : byKey[k] = c}

Children(c) == {x \in Pooled : entry[x].parent = c}

(* descendant_connection_infos                                              *)
Descendants(c) ==
  LET reach[n \in 0 .. Cardinality(Conns)] ==
        IF n = 0 THEN {c}
        ELSE reach[n - 1] \cup UNION {Children(x) : x \in reach[n - 1]}
  IN  {x \in Pooled \ {c} : x \in reach[Cardinality(Conns)]}

Orders(S) == {s \in [1 .. Cardinality(S) -> S] :
                \A i, j \in DOMAIN s : s[i] = s[j] => i = j}

Kill(c) == Call("kill", c, None, None)

(* Mutant of Wake: only the descendants are disconnected.                   *)
WakeSparesRoot(t, c) ==
  /\ pc[t] = "free" /\ entry[c].armed > 0
  /\ entry' = [entry EXCEPT ![c].armed = @ - 1]
  /\ IF Registered(c) /\ IdleUnused(entry[c])
       THEN \E s \in Orders(Descendants(c)) :
              Continue(t, [i \in DOMAIN s |-> Kill(s[i])])
       ELSE UNCHANGED taskVars
  /\ UNCHANGED <<indexVars, poolTimeout>>

(* disconnect_if_idle_timeout: the timer of c goes off.  It checks c once,  *)
(* and then disconnects the descendants, children first, and c.             *)
Wake(t, c) ==
  /\ pc[t] = "free" /\ entry[c].armed > 0
  /\ entry' = [entry EXCEPT ![c].armed = @ - 1]
  /\ IF Registered(c) /\ IdleUnused(entry[c])
       THEN \E s \in Orders(Descendants(c)) :
              /\ \A i, j \in DOMAIN s : entry[s[i]].parent = s[j] => i < j
              /\ Continue(t, [i \in DOMAIN s |-> Kill(s[i])] \o << Kill(c) >>)
       ELSE UNCHANGED taskVars
  /\ UNCHANGED <<indexVars, poolTimeout>>

(* disconnect_idle_timed_out_connection.  A child that the event emitter    *)
(* knows by its node gives its ancestor consumer back first.                *)
Disconnect(t) ==
  LET c == Cur(t).conn  e == entry[ent[t]] IN
  /\ AtCall(t, "enter", "kill")
  /\ IF e.state = "Disconnected"
       THEN Finish(t) /\ UNCHANGED entry
       ELSE /\ entry' = [entry EXCEPT ![ent[t]] = Cancel(@)]
            /\ \E known \in BOOLEAN :
                 Continue(t, (IF known /\ e.parent # None
                                THEN << Release(e.parent, c) >> ELSE << >>)
                             \o << Call("clear", ent[t], None, None),
                                   Mark(c, "Disconnected"), Retire(c) >>
                             \o Rest(t))
  /\ UNCHANGED <<indexVars, poolTimeout>>

-----------------------------------------------------------------------------
(* The client programs.  A client releases a consumer that some acquire     *)
(* registered, from whichever thread and as often as it still sees it.      *)

Start(t, client, s) ==
  /\ pc[t] = "free" /\ client \in Clients
  /\ Continue(t, s)

StartNode(t, k, u) ==
  /\ Start(t, "node", << Call("acquire", None, u, k) >>)
  /\ UNCHANGED <<indexVars, entry, poolTimeout>>

StartDedicated(t, c, u, p) ==
  /\ p # None => Born(p)
  /\ OpenDedicated(t, c, u)
  /\ Start(t, "dedicated", << IF p = None THEN Call("dial", c, u, None)
                                          ELSE Call("borrow", p, c, u) >>)
  /\ UNCHANGED poolTimeout

StartCall(t, client, call) ==
  /\ Born(call.conn)
  /\ Start(t, client, << call >>)
  /\ UNCHANGED <<indexVars, entry, poolTimeout>>

StartOnConnection(t, c) ==
  \/ \E u \in Consumers : StartCall(t, "attach", Call("attach", c, u, None))
  \/ \E u \in Consumers \cap entry[c].consumers :
       StartCall(t, "release", Release(c, u))
  \/ StartCall(t, "retire", Retire(c))
  \/ \E op \in {"keepOn", "keepOff"} :
       StartCall(t, "keepAlive", Call(op, c, None, None))
  \/ StartCall(t, "linkDown", Mark(c, "LinkDown"))

StartSetIdleTimeout(t, b) ==
  /\ poolTimeout' = b
  /\ \E s \in Orders(Pooled) :
       Start(t, "timeout", [i \in DOMAIN s |-> Call("rearm", s[i], None, None)])
  /\ UNCHANGED <<indexVars, entry>>

StartProgram(t) ==
  \/ \E k \in Keys, u \in Consumers : StartNode(t, k, u)
  \/ \E c \in Conns, u \in Consumers, p \in Conns \cup {None} :
       StartDedicated(t, c, u, p)
  \/ \E c \in Conns : StartOnConnection(t, c)
  \/ \E b \in BOOLEAN : StartSetIdleTimeout(t, b)

Step(t) ==
  \/ LookupId(t) \/ LookupKey(t)
  \/ Acquire(t) \/ OutOfIds(t) \/ AcquireCancel(t) \/ AcquirePush(t)
  \/ Attach(t)
  \/ TakeTransport(t) \/ DialReaches(t) \/ DialFails(t) \/ ClearPhysical(t)
  \/ Adopt(t) \/ Disown(t) \/ MarkState(t)
  \/ ReleaseDetach(t) \/ ReleaseDecrement(t) \/ ReleaseDecide(t)
  \/ KeepCancel(t) \/ Disarm(t) \/ Capture(t) \/ Settle(t)
  \/ RetireEnter(t) \/ RetireUnlink(t) \/ RetireForget(t)
  \/ KeepAliveOn(t) \/ KeepAliveOff(t) \/ Rearm(t)
  \/ Disconnect(t)

Next == \/ \E t \in Workers : StartProgram(t)
        \/ \E t \in Reapers, c \in Conns : Wake(t, c)
        \/ \E t \in Tasks : Step(t)

Spec == Init /\ [][Next]_vars

(* Threads run, the dial is bounded by its timeouts, and every timer is a   *)
(* task of its own: the reapers are only a bound on how many run at once.   *)
Fairness ==
  /\ \A t \in Tasks : WF_vars(Step(t))
  /\ \A c \in Conns : SF_vars(\E t \in Reapers : Wake(t, c))

FairSpec == Spec /\ Fairness

-----------------------------------------------------------------------------
(* Properties.                                                              *)

Labels == {"free", "start", "byKey", "enter", "cancel", "push", "decrement",
           "decide", "keepCancel", "disarm", "capture", "settle", "unlink",
           "forget"}

(* Every variable holds values of its type, and a task that is inside a     *)
(* call has one.                                                            *)
TypeOK ==
  /\ byKey \in [PoolKeys -> Conns \cup {None}]
  /\ byId  \in [Conns -> PoolKeys \cup {None}]
  /\ entry \in [Conns -> Entry]
  /\ poolTimeout \in BOOLEAN
  /\ pc   \in [Tasks -> Labels]
  /\ todo \in [Tasks -> Seq(Calls)]
  /\ key  \in [Tasks -> PoolKeys \cup {None}]
  /\ ent  \in [Tasks -> Conns \cup {None}]
  /\ \A t \in Tasks : pc[t] # "free" => todo[t] # << >>

(* The reference count of an entry is the number of its consumers, plus the *)
(* releases that are between the consumers lock and the decrement: whatever *)
(* the order in which acquire, acquire_consumer_for_connection and release  *)
(* interleave, no reference is lost and none is counted twice.              *)
Releasing(c) == {t \in Tasks : pc[t] = "decrement" /\ ent[t] = c}

RefCountExact ==
  \A c \in Conns :
    entry[c].refCount = Cardinality(entry[c].consumers) + Cardinality(Releasing(c))

(* by_key and by_id describe the same registrations: an entry found by its  *)
(* key is found by its id, and an id leads to its own entry unless a        *)
(* retire_connection of it is on its way from the one map to the other.     *)
Retiring(c) ==
  \E t \in Tasks : pc[t] = "forget" /\ todo[t] # << >> /\ Cur(t).conn = c

IndexesAgree ==
  /\ \A k \in PoolKeys : byKey[k] # None => byId[byKey[k]] = k
  /\ \A c \in Conns : byId[c] # None => byKey[byId[c]] = c \/ Retiring(c)

(* A retired connection owns no ancestor (client.rs, "A retired child       *)
(* cannot own the ancestor consumer acquired for its tunnel"): whichever of *)
(* the retirement and the adoption takes ownership_transition first, the    *)
(* link is gone when the entry is.                                          *)
RetiredOwnNoParent ==
  \A c \in Conns : entry[c].parentConsumer # None => Registered(c)

Quiet == \A t \in Tasks : pc[t] = "free"

(* An ancestor consumer on a parent belongs to a registered child that owns *)
(* it: a dial that fails, a child retired while it dials and a parent       *)
(* retired meanwhile all give the borrowed parent back.                     *)
NoOrphanedAncestor ==
  Quiet => \A p, c \in Conns :
             Registered(p) /\ c \in entry[p].consumers
               => Registered(c) /\ entry[c].parentConsumer = c

(* The registry will retire or disconnect c: some task has still to do it.  *)
Doomed(c) ==
  \E t \in Tasks : \E i \in 1 .. Len(todo[t]) :
    todo[t][i].op = "retire" /\ todo[t][i].conn = c

(* A connection that runs through its parent keeps the parent referenced    *)
(* for as long as the registry keeps both, so no idle timer and no other    *)
(* consumer's release makes the parent look unused.                         *)
TunnelHoldsParent ==
  \A c \in Conns :
    entry[c].parentConsumer # None /\ Registered(entry[c].parent)
      => entry[c].parentConsumer \in entry[entry[c].parent].consumers \/ Doomed(c)

(* A dedicated connection never outlives its last consumer: whichever       *)
(* release comes last sees the count at zero and retires it.                *)
DedicatedRetires ==
  Quiet => \A c \in Conns :
             entry[c].dedicated /\ Registered(c) => entry[c].refCount > 0

(* Idle timers.  A release that has decided that nobody is left makes the   *)
(* connection idle at the end, whatever has happened to it since.           *)
Late(t, c) == pc[t] \in {"keepCancel", "settle"} /\ ent[t] = c

(* c is idle and unused with its timeout on, or such a release is under way *)
(* for an unused c.                                                         *)
MayIdle(c) ==
  LET e == entry[c] IN
  /\ Registered(c) /\ e.timeoutOn /\ e.refCount = 0 /\ ~e.keepAlive
  /\ e.state = "Idle" \/ \E t \in Tasks : Late(t, c)

(* Task t is about to use c, to decide on it or to arm a timer for it that  *)
(* nobody has cancelled yet.                                                *)
Covers(t, c) ==
  /\ ent[t] = c
  /\ \/ pc[t] \in {"push", "decide", "disarm", "capture"}
     \/ pc[t] = "settle" /\ t \in entry[c].captured

(* A task has still to disconnect or to retire c.                           *)
Ending(c) ==
  \E t \in Tasks : \E i \in 1 .. Len(todo[t]) :
    todo[t][i].op \in {"retire", "kill"} /\ todo[t][i].conn = c

Timed(c) ==
  MayIdle(c) => entry[c].armed > 0 \/ Ending(c) \/ \E t \in Tasks : Covers(t, c)

(* The races in which c may be left without a timer: while a release has    *)
(* still to make c idle, the timer of c goes off, its disconnect finds c    *)
(* disconnected already, or set_keep_alive(false), set_idle_timeout or a    *)
(* release that found keep_alive cancel the generation; and a disconnect    *)
(* that was meant for a retired connection cancels the timer of c, its      *)
(* successor under the same key.                                            *)
Overtaken(c) ==
  \/ /\ \E t \in Tasks : Late(t, c)
     /\ \/ \E t \in Reapers : Wake(t, c)
        \/ \E t \in Tasks : /\ ent[t] = c
                            /\ KeepAliveOff(t) \/ KeepCancel(t) \/ Disconnect(t)
        \/ \E t \in Tasks : Rearm(t) /\ Cur(t).conn = c
  \/ \E t \in Tasks : Disconnect(t) /\ ent[t] = c /\ Cur(t).conn # c

(* An idle, unused connection whose timeout is on keeps its timer: whatever *)
(* acquire, attach, release, set_keep_alive, set_idle_timeout,              *)
(* retire_connection and the timers cancel, and in whatever order the       *)
(* generations they captured come back, only the races of Overtaken leave   *)
(* it without one.                                                          *)
TimersKept == [][\A c \in Conns : Timed(c) => Timed(c)' \/ Overtaken(c)]_vars

(* An idle timer never clears the transport under a registered child that   *)
(* owns its parent (oxideterm-node-session-ownership/SKILL.md: "must retain *)
(* the parent connection for as long as the child transport needs it").     *)
TunnelOutlivesTimer ==
  [][\A t \in Reapers, c \in Conns :
       ClearPhysical(t) => ~(/\ Registered(c) /\ entry[c].physical
                             /\ entry[c].parentConsumer # None
                             /\ entry[c].parent = Cur(t).conn)]_vars

(* An unused idle connection does not stay: it is used again or it goes.    *)
IdleEventuallyEnds ==
  \A c \in Conns :
    (Registered(c) /\ IdleUnused(entry[c]) /\ entry[c].timeoutOn)
      ~> ~(Registered(c) /\ IdleUnused(entry[c]))

=============================================================================
