----------------------------- MODULE NodeEvents -----------------------------
(***************************************************************************)
(* Node state events of oxideterm: the emitter and its bounded mailbox     *)
(* (oxideterm-ssh, router/events.rs), the generations that the runtime     *)
(* store counts on its own (router/runtime_store.rs), and the consumer in  *)
(* the workspace runtime entity (oxideterm-gpui-app, runtime_entity.rs).   *)
(*                                                                         *)
(* An emitting thread numbers an event and dispatches it in two steps; a   *)
(* dispatch holds the listener map, pushes under the mailbox lock, and     *)
(* marks the wake after that lock.  The consumer runs alone: it waits for  *)
(* the notification, takes the pending flag, drains a batch within a       *)
(* budget, reduces it, and marks its own wake when it stopped for the      *)
(* budget.                                                                 *)
(*                                                                         *)
(* Level events describe a state that a later one replaces; the others are *)
(* delivered reliably.  Left out: ConnectionStatusChanged events, which    *)
(* carry no generation, and terminal endpoint events, level events that    *)
(* differ from SftpReady in their key only.                                *)
(***************************************************************************)
EXTENDS Naturals, Sequences, SequencesExt

CONSTANTS
  Nodes, Threads,
  Capacity,   (* of the mailbox                                             *)
  Budget,     (* LIFECYCLE_DELIVERY_BUDGET.max_items                        *)
  Programs,   (* the emitting calls of an instance, among the Script's      *)
  MaxCalls,   (* bound: emitting calls in a behaviour                       *)
  None

ASSUME NodeEventsAssumption ==
  /\ Capacity \in Nat \ {0} /\ Budget \in Nat \ {0} /\ MaxCalls \in Nat

(* The generation counter a call numbers its events with, and what it does: *)
(* "bump" moves the runtime store's counter without an event, "again" emits *)
(* the event just returned once more.                                       *)
Script ==
  [mark       |-> [origin |-> "sequencer", todo |-> << "state" >>],
   markLost   |-> [origin |-> "sequencer", todo |-> << "lost" >>],
   idle       |-> [origin |-> "sequencer", todo |-> << "sftp", "lost" >>],
   bind       |-> [origin |-> "sequencer", todo |-> << "bump", "state" >>],
   grace      |-> [origin |-> "sequencer", todo |-> << "bump", "lost", "again" >>],
   disconnect |-> [origin |-> "runtime", todo |-> << "sftp", "lost" >>],
   acquire    |-> [origin |-> "runtime", todo |-> << "sftp", "owner" >>],
   recover    |-> [origin |-> "runtime",
                   todo |-> << "sftp", "owner", "sftp", "owner" >>],
   reuse      |-> [origin |-> "runtime", todo |-> << "bump" >>],
   failure    |-> [origin |-> "runtime", todo |-> << "lost" >>]]

Kinds == {"state", "lost", "sftp", "owner"}

Event == [node : Nodes, kind : Kinds, gen : Nat, origin : {"sequencer", "runtime"},
          by : Threads]   \* by: history, the thread that numbered it

Reliable(e) == e.kind \in {"lost", "owner"}
Level(e) == ~Reliable(e)

VARIABLES
  sequence,   (* NodeEventSequencer.generations                             *)
  route,      (* the generation of a node in the runtime store              *)
  queue,      (* the mailbox                                                *)
  pending,    (* ActiveDeliveryWake.pending                                 *)
  permit,     (* ActiveDeliveryWake.notification holds a permit             *)
  pc, job,    (* emitting threads: where they are and what is left to do    *)
  ready,      (* the event a thread numbered last                           *)
  ui,         (* the consumer: waiting, woken, draining or reducing         *)
  batch,      (* the events it drained and has not reduced                  *)
  more,       (* its drain stopped for the budget                           *)
  seen,       (* node_event_generations                                     *)
  calls       (* history: the number of calls so far                        *)

wakeVars == <<pending, permit>>
uiVars == <<ui, batch, more, seen>>
vars == <<sequence, route, queue, pending, permit, pc, job, ready, ui, batch, more, seen, calls>>

NoJob == [origin |-> "sequencer", node |-> None, todo |-> << >>]

Init ==
  /\ sequence = [n \in Nodes |-> 0]
  /\ route = [n \in Nodes |-> 0]
  /\ queue = << >>
  /\ pending = FALSE /\ permit = FALSE
  /\ pc = [t \in Threads |-> "free"]
  /\ job = [t \in Threads |-> NoJob]
  /\ ready = [t \in Threads |-> None]
  /\ ui = "waiting" /\ batch = << >> /\ more = FALSE
  /\ seen = [n \in Nodes |-> 0]
  /\ calls = 0

-----------------------------------------------------------------------------
(* Emitting threads.                                                        *)

Start(t, p, n) ==
  /\ pc[t] = "free" /\ p \in Programs /\ calls < MaxCalls
  /\ job' = [job EXCEPT ![t] = [origin |-> Script[p].origin, node |-> n,
                                todo |-> Script[p].todo]]
  /\ pc' = [pc EXCEPT ![t] = "number"]
  /\ calls' = calls + 1
  /\ UNCHANGED <<sequence, route, queue, wakeVars, ready, uiVars>>

(* The thread is done with the head of its job.                             *)
Proceed(t) ==
  /\ job' = [job EXCEPT ![t].todo = Tail(@)]
  /\ pc' = [pc EXCEPT ![t] = IF Len(job[t].todo) = 1 THEN "free" ELSE "number"]

Bump(t) ==
  /\ pc[t] = "number" /\ Head(job[t].todo) = "bump"
  /\ route' = [route EXCEPT ![job[t].node] = @ + 1]
  /\ Proceed(t)
  /\ UNCHANGED <<sequence, queue, wakeVars, ready, uiVars, calls>>

(* NodeEventSequencer::next, or route.generation += 1 in the runtime store. *)
Number(t) ==
  LET n == job[t].node  kind == Head(job[t].todo) IN
  /\ pc[t] = "number" /\ kind \in Kinds
  /\ IF job[t].origin = "sequencer"
       THEN /\ sequence' = [sequence EXCEPT ![n] = @ + 1]
            /\ ready' = [ready EXCEPT ![t] =
                 [node |-> n, kind |-> kind, gen |-> sequence[n] + 1, origin |-> "sequencer",
                  by |-> t]]
            /\ UNCHANGED route
       ELSE /\ route' = [route EXCEPT ![n] = @ + 1]
            /\ ready' = [ready EXCEPT ![t] =
                 [node |-> n, kind |-> kind, gen |-> route[n] + 1, origin |-> "runtime",
                  by |-> t]]
            /\ UNCHANGED sequence
  /\ pc' = [pc EXCEPT ![t] = "dispatch"]
  /\ UNCHANGED <<queue, wakeVars, job, uiVars, calls>>

(* emit of the event that a call returned.                                  *)
Again(t) ==
  /\ pc[t] = "number" /\ Head(job[t].todo) = "again"
  /\ pc' = [pc EXCEPT ![t] = "dispatch"]
  /\ UNCHANGED <<sequence, route, queue, wakeVars, job, ready, uiVars, calls>>

SameKey(q, e) == Level(q) /\ Level(e) /\ q.node = e.node /\ q.kind = e.kind

(* Mutant of Coalesced: nothing is replaced.                                *)
CoalescedNever(q, e) == q

(* A level event replaces the queued one of its node and kind.              *)
Coalesced(q, e) ==
  LET i == SelectInSeq(q, LAMBDA x : SameKey(x, e)) IN
  IF i = 0 THEN q ELSE RemoveAt(q, i)

(* Mutant of Evicted: the capacity is off by one.                           *)
EvictedLate(q) ==
  LET i == SelectInSeq(q, Level) IN
  IF Len(q) > Capacity /\ i # 0 THEN RemoveAt(q, i) ELSE q

(* Mutant of Evicted: the oldest event goes, reliable or not.               *)
EvictedOldest(q) == IF Len(q) >= Capacity THEN Tail(q) ELSE q

(* A full mailbox gives up its oldest level event, if it has one.           *)
Evicted(q) ==
  LET i == SelectInSeq(q, Level) IN
  IF Len(q) >= Capacity /\ i # 0 THEN RemoveAt(q, i) ELSE q

(* Mutant of Enqueue: a replacement takes the place of what it replaces.    *)
EnqueueInPlace(q, e) ==
  LET i == SelectInSeq(q, LAMBDA x : SameKey(x, e)) IN
  IF i = 0 THEN Append(Evicted(q), e) ELSE [q EXCEPT ![i] = e]

Enqueue(q, e) == Append(Evicted(Coalesced(q, e)), e)

(* dispatch holds the listener map from here until it has marked the wake.  *)
Dispatching(t) ==
  pc[t] = "dispatch" /\ \A w \in Threads : pc[w] \notin {"mark", "notify"}

(* An exact duplicate of a queued event is dropped without a wake.  Events  *)
(* of two counters with one number may carry the same payload or not.       *)
Alike(q, e) == q.node = e.node /\ q.kind = e.kind /\ q.gen = e.gen

DropDuplicate(t) ==
  /\ Dispatching(t)
  /\ \E i \in DOMAIN queue : Alike(queue[i], ready[t])
  /\ Proceed(t)
  /\ UNCHANGED <<sequence, route, queue, wakeVars, ready, uiVars, calls>>

Push(t) ==
  /\ Dispatching(t) /\ ~Contains(queue, ready[t])
  /\ queue' = Enqueue(queue, ready[t])
  /\ pc' = [pc EXCEPT ![t] = "mark"]
  /\ UNCHANGED <<sequence, route, wakeVars, job, ready, uiVars, calls>>

(* ActiveDeliveryWake::mark sets the flag and then notifies.                *)
Mark(t) ==
  /\ pc[t] = "mark"
  /\ pending' = TRUE
  /\ pc' = [pc EXCEPT ![t] = "notify"]
  /\ UNCHANGED <<sequence, route, queue, permit, job, ready, uiVars, calls>>

Notify(t) ==
  /\ pc[t] = "notify"
  /\ permit' = TRUE
  /\ Proceed(t)
  /\ UNCHANGED <<sequence, route, queue, pending, ready, uiVars, calls>>

-----------------------------------------------------------------------------
(* The consumer: schedule_worker_delivery, drain_node_event_mailbox and     *)
(* reduce_node_event.                                                       *)

Awake ==
  /\ ui = "waiting" /\ permit
  /\ permit' = FALSE
  /\ ui' = "woken"
  /\ UNCHANGED <<sequence, route, queue, pending, pc, job, ready, batch, more, seen, calls>>

(* A permit may outlive the mark it came with: then there is nothing to do. *)
TakeWake ==
  /\ ui = "woken"
  /\ pending' = FALSE
  /\ ui' = IF pending THEN "draining" ELSE "waiting"
  /\ UNCHANGED <<sequence, route, queue, permit, pc, job, ready, batch, more, seen, calls>>

Receive ==
  /\ ui = "draining" /\ queue # << >> /\ Len(batch) < Budget
  /\ batch' = Append(batch, Head(queue))
  /\ queue' = Tail(queue)
  /\ UNCHANGED <<sequence, route, wakeVars, pc, job, ready, ui, more, seen, calls>>

(* The mailbox is empty, or the items or the time of the budget are used up *)
(* (allows_next looks at the clock before the first event, too).            *)
EndDrain ==
  /\ ui = "draining"
  /\ \/ queue = << >> /\ Len(batch) < Budget /\ more' = FALSE
     \/ more' = TRUE
  /\ ui' = "reducing"
  /\ UNCHANGED <<sequence, route, queue, wakeVars, pc, job, ready, batch, seen, calls>>

(* An event whose generation is not above the last one seen is dropped.     *)
Stale(e) == e.gen <= seen[e.node]

DropStale ==
  /\ ui = "reducing" /\ batch # << >> /\ Stale(Head(batch))
  /\ batch' = Tail(batch)
  /\ UNCHANGED <<sequence, route, queue, wakeVars, pc, job, ready, ui, more, seen, calls>>

(* A connection state is also written to the runtime store.                 *)
Reduce ==
  LET e == Head(batch) IN
  /\ ui = "reducing" /\ batch # << >> /\ ~Stale(e)
  /\ batch' = Tail(batch)
  /\ seen' = [seen EXCEPT ![e.node] = e.gen]
  /\ route' = [route EXCEPT ![e.node] =
                 IF e.kind \in {"state", "lost"} THEN @ + 1 ELSE @]
  /\ UNCHANGED <<sequence, queue, wakeVars, pc, job, ready, ui, more, calls>>

(* Mutant of EndBatch: a backlog is left for the next event to wake.        *)
EndBatchSilently ==
  /\ ui = "reducing" /\ batch = << >>
  /\ ui' = "waiting"
  /\ UNCHANGED <<sequence, route, queue, wakeVars, pc, job, ready, batch, more, seen, calls>>

EndBatch ==
  /\ ui = "reducing" /\ batch = << >>
  /\ ui' = "waiting"
  /\ pending' = (pending \/ more) /\ permit' = (permit \/ more)
  /\ UNCHANGED <<sequence, route, queue, pc, job, ready, batch, more, seen, calls>>

-----------------------------------------------------------------------------
Emit(t) == \/ Bump(t) \/ Number(t) \/ Again(t)
           \/ DropDuplicate(t) \/ Push(t) \/ Mark(t) \/ Notify(t)

Consume == \/ Awake \/ TakeWake \/ Receive \/ EndDrain
           \/ DropStale \/ Reduce \/ EndBatch

Next == \/ \E t \in Threads, p \in DOMAIN Script, n \in Nodes : Start(t, p, n)
        \/ \E t \in Threads : Emit(t)
        \/ Consume

Spec == Init /\ [][Next]_vars

(* Threads run, the foreground executor polls the consumer, and its drains  *)
(* do not run out of time for ever before the first event.                  *)
FairSpec == /\ Spec
            /\ WF_vars(Consume) /\ SF_vars(Receive)
            /\ \A t \in Threads : WF_vars(Emit(t))

-----------------------------------------------------------------------------
(* Properties.                                                              *)

(* Every variable holds values of its type, and a batch keeps the budget.   *)
TypeOK ==
  /\ sequence \in [Nodes -> Nat] /\ route \in [Nodes -> Nat]
  /\ queue \in Seq(Event) /\ batch \in Seq(Event) /\ Len(batch) <= Budget
  /\ pending \in BOOLEAN /\ permit \in BOOLEAN /\ more \in BOOLEAN
  /\ pc \in [Threads -> {"free", "number", "dispatch", "mark", "notify"}]
  /\ \A t \in Threads : pc[t] # "free" => job[t].todo # << >> /\ job[t].node \in Nodes
  /\ ready \in [Threads -> Event \cup {None}]
  /\ ui \in {"waiting", "woken", "draining", "reducing"}
  /\ seen \in [Nodes -> Nat]
  /\ calls \in 0 .. MaxCalls

(* The mailbox holds one level event per node and kind: however the         *)
(* emissions interleave, a replaced state is not delivered any more.        *)
LevelOnce ==
  \A i, j \in DOMAIN queue : SameKey(queue[i], queue[j]) => i = j

(* The mailbox exceeds its capacity by reliable events only, plus the level *)
(* event that came last ("They may temporarily exceed the level-event       *)
(* capacity rather than being silently discarded").                         *)
OverflowIsReliable ==
  Len(queue) > Capacity
    => \A i, j \in DOMAIN queue : Level(queue[i]) /\ Level(queue[j]) => i = j

ReliableAt(q) == {i \in DOMAIN q : Reliable(q[i])}

(* The reliable events of p are those of q, in the same order: f says where *)
(* each of them is in q.                                                    *)
SameReliable(p, q) ==
  \E f \in [ReliableAt(p) -> ReliableAt(q)] :
    /\ \A i \in ReliableAt(p) : q[f[i]] = p[i]
    /\ \A i, j \in ReliableAt(p) : i < j => f[i] < f[j]
    /\ \A k \in ReliableAt(q) : \E i \in ReliableAt(p) : f[i] = k

(* Coalescing and eviction never touch a reliable event: the reliable       *)
(* events of the mailbox are a queue of their own, that a push only appends *)
(* to and that only the consumer takes from, at its head.                   *)
ReliableFifo ==
  [][\/ SameReliable(queue', queue)
     \/ \E t \in Threads : Push(t) /\ SameReliable(queue', Append(queue, ready[t]))
     \/ Receive /\ SameReliable(queue', Tail(queue))]_vars

(* "Move replacements to the back so per-node generations remain ordered    *)
(* across different event kinds in the shared mailbox" (dispatch): the      *)
(* mailbox holds the events that one counter numbered for a node in the     *)
(* order of their generations, as far as one thread emitted them; two can   *)
(* dispatch in the other order than they were numbered in.                  *)
GenerationsOrdered ==
  \A i, j \in DOMAIN queue :
    /\ i < j
    /\ queue[i].node = queue[j].node /\ queue[i].origin = queue[j].origin
    /\ queue[i].by = queue[j].by
    => queue[i].gen < queue[j].gen

(* Whatever is in the mailbox is received: no interleaving of pushes,       *)
(* wakes, budgets and batches leaves events there with nobody to come.      *)
MailboxDrains == queue # << >> ~> queue = << >>
=============================================================================
