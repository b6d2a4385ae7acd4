--------------------------- MODULE ReconnectPipeline ---------------------------
(***************************************************************************)
(* The reconnection of nodes whose link was lost: the job store of         *)
(* oxideterm-ssh/src/reconnect.rs and the runtime entity and workspace     *)
(* handlers that drive it (workspace/runtime_entity.rs, tabs/nodes.rs).    *)
(*                                                                         *)
(* A link-down report queues the node; after a debounce one node at a time *)
(* owns the pipeline, and the others come back on a timer.  The owner's    *)
(* job lists the transfers to resume, probes the old connection during a   *)
(* grace period, dials a new transport, retries it, and restores           *)
(* forwards, transfers and the IDE.  Probes and dials run on worker tasks  *)
(* that answer through a channel; their answers are reduced to effects and *)
(* the effects are applied before the event loop takes anything else.      *)
(*                                                                         *)
(* The nodes are roots: none has a parent or children, so a connection     *)
(* chain has one node and there is no cascade to descendants.              *)
(***************************************************************************)
EXTENDS Naturals, Sequences, FiniteSets

CONSTANTS
  Nodes,           \* the nodes of the session tree, all of them roots
  NoNode,          \* no owner
  Snapshots,       \* what a job may have to restore: a set of sets of steps
  MaxAttempts,     \* reconnect.max_attempts of the settings, at least 1
  MaxRequeue,      \* RECONNECT_MAX_REQUEUE
  MaxFaults,       \* bound: links lost
  MaxConnects,     \* bound: connects asked for by the user
  MaxDisconnects   \* bound: disconnects asked for by the user

RestoreSteps == <<"forwards", "transfers", "ide">>

ASSUME NodesAssumption == NoNode \notin Nodes /\ IsFiniteSet(Nodes)
ASSUME LimitsAssumption ==
  /\ MaxAttempts \in Nat \ {0}
  /\ {MaxRequeue, MaxFaults, MaxConnects, MaxDisconnects} \subseteq Nat
ASSUME SnapshotsAssumption ==
  Snapshots # {} /\ \A s \in Snapshots : s \subseteq {RestoreSteps[i] : i \in 1..3}

VARIABLES
  conn,      \* NodeRouter's binding: number of the node's connection, or 0
  link,      \* the registry's state of that connection
  reports,   \* link-down events on their way to the workspace
  pending,   \* pending_reconnect_node_ids, flushed by the debounce timer
  requeue,   \* reconnect_requeue_states and the timers that go with them
  pipeline,  \* reconnect_pipeline_active_node
  job,       \* ReconnectOrchestratorStore.jobs
  probe,     \* reconnect_grace_probe_tasks and what the task is doing
  dial,      \* node_transport_attempts and what the task is doing
  chain,     \* active_connection_chain and its lock
  retries,   \* RetryNodeConnect actions waiting for their delay
  tasks,     \* restores under way: [node, step, job]
  results,   \* reconnect_worker_tx: the workers' answers
  effects,   \* runtime_effects
  applying,  \* the effects of this turn of the event loop are being applied
  tries,     \* history: dials of the node's job since one that connected
  refused,   \* history: nodes whose job was refused a dial by another chain
  spent      \* faults, connects and disconnects so far

timers == <<pending, requeue, retries>>
workers == <<probe, dial, tasks>>
vars == <<conn, link, reports, timers, pipeline, job, workers, chain, results,
          effects, applying, tries, refused, spent>>

--------------------------------------------------------------------------------
(* The states of the parts.                                                 *)

Terminal == {"Done", "Failed", "Cancelled"}
Stage == [forwards |-> "RestoreForwards", transfers |-> "ResumeTransfers",
          ide |-> "RestoreIde"]
Phases == {"Queued", "Snapshot", "GracePeriod", "SshConnect", "AwaitTerminal",
           "RestoreForwards", "ResumeTransfers", "RestoreIde"} \cup Terminal

NotQueued == [count |-> 0, conn |-> 0, armed |-> FALSE]
NoProbe == [job |-> 0, conn |-> 0, state |-> "none"]

\* is_active
Active(n) == job[n].status # "None" /\ ~job[n].ended

\* is_current, and reconnect_job_is_current on top of it
Current(n, k) == Active(n) /\ job[n].id = k

\* One effect, or one answer.
About(type, n, k) == [type |-> type, node |-> n, job |-> k, dial |-> 0]

Init ==
  /\ conn = [n \in Nodes |-> 1]
  /\ link = [n \in Nodes |-> "active"]
  /\ reports = {} /\ pending = {} /\ retries = {} /\ tasks = {}
  /\ requeue = [n \in Nodes |-> NotQueued]
  /\ pipeline = NoNode /\ chain = NoNode
  /\ job = [n \in Nodes |-> [id |-> 0, status |-> "None", attempt |-> 0,
                             ended |-> TRUE, needs |-> {}, swept |-> FALSE]]
  /\ probe = [n \in Nodes |-> NoProbe]
  /\ dial = [n \in Nodes |-> [id |-> 1, job |-> 0, state |-> "none"]]
  /\ results = <<>> /\ effects = <<>> /\ applying = FALSE
  /\ tries = [n \in Nodes |-> 0]
  /\ refused = {}
  /\ spent = [faults |-> 0, connects |-> 0, disconnects |-> 0]

\* The event loop is between two turns: nothing is left of the last one.
Idle == effects = <<>>

Spend(what, limit) ==
  spent[what] < limit /\ spent' = [spent EXCEPT ![what] = @ + 1]

--------------------------------------------------------------------------------
(* What the handlers share.                                                 *)

\* advance: it does not look whether the job has ended.
InPhase(j, phase) == [j EXCEPT !.status = phase]

\* finish and cancel: a terminal phase and an end time.
EndedAs(j, phase) == [j EXCEPT !.status = phase, !.ended = TRUE]

\* begin_ssh_attempt
NextAttempt(k) == IF k < MaxAttempts THEN k + 1 ELSE k

\* The job is about to dial.
Dialling(j) == [InPhase(j, "SshConnect") EXCEPT !.attempt = NextAttempt(@)]

\* Mutant of MayRetry: off by one.
MayRetryOnceMore(n) == job[n].attempt <= MaxAttempts

\* schedule_retry has one left.
MayRetry(n) == job[n].attempt < MaxAttempts

\* Mutant of Released: whoever ends clears the owner.
ReleasedByAnyone(n) == NoNode

\* Only the owner gives the pipeline up: release_reconnect_pipeline, and
\* cancel_reconnect_scheduler_nodes.
Released(n) == IF pipeline = n THEN NoNode ELSE pipeline

\* finish_reconnect_job: nothing for a node without a job; else the pipeline
\* is released if it is the node's, and the job will be swept after a while.
Finish(n, phase) ==
  IF job[n].status = "None"
  THEN UNCHANGED <<job, pipeline, requeue>>
  ELSE /\ job' = [job EXCEPT ![n] = [EndedAs(@, phase) EXCEPT !.swept = TRUE]]
       /\ pipeline' = Released(n)
       /\ requeue' = [requeue EXCEPT ![n] = NotQueued]

\* The restores of n's job from the i-th step on.  Transfers that are already
\* being resumed for the node are not asked for again.
Restores(n, i) ==
  {k \in i..3 : /\ RestoreSteps[k] \in job[n].needs
                /\ ~ /\ RestoreSteps[k] = "transfers"
                     /\ \E t \in tasks : t.node = n /\ t.step = "transfers"}

\* Enter the next phase that has something to restore and start its work, or
\* verify and finish.
Restore(n, i, others) ==
  IF Restores(n, i) = {}
  THEN Finish(n, "Done") /\ tasks' = others
  ELSE LET next == CHOOSE k \in Restores(n, i) : \A l \in Restores(n, i) : k <= l
           step == RestoreSteps[next]
       IN /\ job' = [job EXCEPT ![n] = InPhase(@, Stage[step])]
          /\ tasks' = others \cup {[node |-> n, step |-> step, job |-> job[n].id]}
          /\ UNCHANGED <<pipeline, requeue>>

\* retire_node_connection and prepare_node_connection_attempt
Unbind(n) ==
  /\ conn' = [conn EXCEPT ![n] = 0]
  /\ link' = [link EXCEPT ![n] = "none"]

\* start_node_transport after reset_node_connection, under a new chain.  The
\* attempt is tagged with the node's job if it has an active one.
StartDial(n) ==
  /\ chain' = n
  /\ dial' = [dial EXCEPT ![n] = [id |-> @.id + 1,
                                 job |-> IF Active(n) THEN job[n].id ELSE 0,
                                 state |-> "running"]]
  /\ conn' = [conn EXCEPT ![n] = dial[n].id + 1]
  /\ link' = [link EXCEPT ![n] = "connecting"]

\* connect_node_with_ancestors: refused while any chain is active, and nothing
\* to do for a node that is ready.
MayDial(n) == chain = NoNode /\ link[n] # "active"

\* Mutant of CancelDial: the node stays bound to a connection that never comes.
CancelDialOnly(n) ==
  /\ dial' = [dial EXCEPT ![n].state = "none"]
  /\ UNCHANGED <<conn, link>>

\* cancel_node_transport_attempt.  It also drops the node's queued runtime
\* effects, of which there are none as long as the node has an attempt.
CancelDial(n) ==
  IF dial[n].state = "none"
  THEN UNCHANGED <<dial, conn, link>>
  ELSE /\ dial' = [dial EXCEPT ![n].state = "none"]
       /\ IF conn[n] = dial[n].id THEN Unbind(n) ELSE UNCHANGED <<conn, link>>

\* push_runtime_effect.  What a timer pushes is applied in the same turn.
Push(e) == effects' = Append(effects, e)
PushNow(e) == Push(e) /\ applying' = TRUE
Answer(a) == results' = Append(results, a)

--------------------------------------------------------------------------------
(* Links and worker tasks: they run beside the event loop.                  *)

\* A heartbeat or the transport reports the link lost: mark_link_down_cascade.
LinkLost(n) ==
  /\ link[n] = "active"
  /\ Spend("faults", MaxFaults)
  /\ link' = [link EXCEPT ![n] = "down"]
  /\ reports' = reports \cup {<<n, conn[n]>>}
  /\ UNCHANGED <<conn, timers, pipeline, job, workers, chain, results, effects,
                 applying, tries, refused>>

\* The probe task has listed the transfers and goes on to probe.
ProbeLists(n) ==
  /\ probe[n].state = "listing"
  /\ probe' = [probe EXCEPT ![n].state = "probing"]
  /\ Answer(About("Snapshotted", n, probe[n].job))
  /\ UNCHANGED <<conn, link, reports, timers, pipeline, job, dial, tasks, chain,
                 effects, applying, tries, refused, spent>>

\* probe_single_connection finds the old connection alive: a connection that
\* was down is active again.
ProbeAlive(n) ==
  /\ probe[n].state = "probing"
  /\ conn[n] = probe[n].conn /\ link[n] \in {"active", "down"}
  /\ link' = [link EXCEPT ![n] = "active"]
  /\ probe' = [probe EXCEPT ![n].state = "answered"]
  /\ Answer(About("GraceRecovered", n, probe[n].job))
  /\ UNCHANGED <<conn, reports, timers, pipeline, job, dial, tasks, chain,
                 effects, applying, tries, refused, spent>>

\* The connection is gone, or the grace period is over.
ProbeExpires(n) ==
  /\ probe[n].state = "probing"
  /\ probe' = [probe EXCEPT ![n].state = "answered"]
  /\ Answer([About("GraceExpired", n, probe[n].job) EXCEPT !.dial = probe[n].conn])
  /\ UNCHANGED <<conn, link, reports, timers, pipeline, job, dial, tasks, chain,
                 effects, applying, tries, refused, spent>>

\* The transport task ends: it marks the connection and sends its answer.  An
\* error may be one that is not worth a retry.
DialEnds(n, outcome) ==
  /\ dial[n].state = "running"
  /\ dial' = [dial EXCEPT ![n].state = "answered"]
  /\ link' = [link EXCEPT ![n] = IF outcome = "Connected" THEN "active" ELSE "error"]
  /\ Answer([type |-> outcome, node |-> n, job |-> dial[n].job, dial |-> dial[n].id])
  /\ UNCHANGED <<conn, reports, timers, pipeline, job, probe, tasks, chain, effects,
                 applying, tries, refused, spent>>

--------------------------------------------------------------------------------
(* Turns of the event loop: events, timers and the user.                    *)

\* A link-down event that is still about the node's connection becomes an
\* effect.
ReportArrives(n) ==
  /\ ~applying
  /\ \E r \in reports :
       /\ r[1] = n
       /\ reports' = reports \ {r}
       /\ IF conn[n] = r[2] THEN Push(About("LinkDown", n, 0)) ELSE UNCHANGED effects
  /\ UNCHANGED <<conn, link, timers, pipeline, job, workers, chain, results,
                 applying, tries, refused, spent>>

\* flush_reconnect_roots.  Every node is a root; they come in any order.
Debounce ==
  /\ Idle /\ pending # {}
  /\ pending' = {}
  /\ \E order \in [1..Cardinality(pending) -> pending] :
       /\ \A i, j \in DOMAIN order : order[i] = order[j] => i = j
       /\ effects' = [i \in DOMAIN order |-> About("StartPipeline", order[i], 0)]
  /\ applying' = TRUE
  /\ UNCHANGED <<conn, link, reports, requeue, retries, pipeline, job, workers, chain,
                 results, tries, refused, spent>>

\* The requeue timer: start again, or give up when the node has another
\* connection by now, and cancel_reconnect_retry.
RequeueFires(n) ==
  /\ Idle /\ requeue[n].armed
  /\ IF conn[n] = requeue[n].conn
     THEN /\ requeue' = [requeue EXCEPT ![n].armed = FALSE]
          /\ PushNow(About("StartPipeline", n, 0))
          /\ UNCHANGED <<conn, link, dial>>
     ELSE /\ requeue' = [requeue EXCEPT ![n] = NotQueued]
          /\ CancelDial(n)
          /\ UNCHANGED <<effects, applying>>
  /\ UNCHANGED <<reports, pending, retries, pipeline, job, probe, tasks, chain, results,
                 tries, refused, spent>>

\* reduce_reconnect_schedule_action, RetryNodeConnect
RetryFires(r) ==
  /\ Idle /\ r \in retries
  /\ retries' = retries \ {r}
  /\ IF ~Current(r.node, r.job)
     THEN UNCHANGED <<job, effects, applying>>
     ELSE IF link[r.node] = "active"
     THEN PushNow(About("RecoveredBeforeRetry", r.node, 0)) /\ UNCHANGED job
     ELSE /\ job' = [job EXCEPT ![r.node] = Dialling(@)]
          /\ PushNow(About("RetryNodeConnect", r.node, 0))
  /\ UNCHANGED <<conn, link, reports, pending, requeue, pipeline, workers, chain,
                 results, tries, refused, spent>>

\* cleanup_terminal_job, when the finished job has been shown for a while
Sweep(n) ==
  /\ Idle /\ job[n].swept
  /\ job' = [job EXCEPT ![n] = IF job[n].status \in Terminal
                               THEN [@ EXCEPT !.status = "None", !.swept = FALSE,
                                              !.needs = {}, !.attempt = 0]
                               ELSE [@ EXCEPT !.swept = FALSE]]
  /\ UNCHANGED <<conn, link, reports, timers, pipeline, workers, chain, results,
                 effects, applying, tries, refused, spent>>

\* A terminal, a form or the user connects the node.
UserConnect(n) ==
  /\ Idle /\ MayDial(n)
  /\ Spend("connects", MaxConnects)
  /\ StartDial(n)
  /\ UNCHANGED <<reports, timers, pipeline, job, probe, tasks, results, effects,
                 applying, tries, refused>>

\* cancel_node_runtime_work and disconnect_node_runtime_subtree: the user
\* cancels the reconnection or disconnects the node.
Disconnect(n) ==
  /\ Idle
  /\ Spend("disconnects", MaxDisconnects)
  /\ pending' = pending \ {n}
  /\ requeue' = [requeue EXCEPT ![n] = NotQueued]
  /\ retries' = {r \in retries : r.node # n}
  /\ pipeline' = Released(n)
  /\ probe' = [probe EXCEPT ![n] = NoProbe]
  /\ dial' = [dial EXCEPT ![n].state = "none"]
  /\ tasks' = {t \in tasks : ~(t.node = n /\ t.step = "transfers")}
  /\ chain' = IF chain = n THEN NoNode ELSE chain
  /\ job' = IF job[n].status = "None" THEN job
            ELSE [job EXCEPT ![n] = [EndedAs(@, "Cancelled") EXCEPT !.swept = FALSE]]
  /\ Unbind(n)
  /\ UNCHANGED <<reports, results, effects, applying, tries, refused>>

\* A restore ends.  A forward restore names its job; a transfer and the IDE
\* name only the node, and move on whatever job the node has.
TaskEnds(t, ok) ==
  LET n == t.node
      rest == tasks \ {t}
      mine == IF t.step = "forwards" THEN Current(n, t.job) ELSE Active(n)
      step == CHOOSE i \in 1..3 : RestoreSteps[i] = t.step
  IN /\ Idle /\ t \in tasks
     /\ IF ~mine
        THEN tasks' = rest /\ UNCHANGED <<job, pipeline, requeue>>
        ELSE IF ~ok /\ t.step # "transfers"
        THEN Finish(n, "Failed") /\ tasks' = rest
        ELSE Restore(n, step + 1, rest)
     /\ UNCHANGED <<conn, link, reports, pending, retries, probe, dial, chain,
                    results, effects, applying, tries, refused, spent>>

--------------------------------------------------------------------------------
(* reduce_reconnect_worker_result: the answers become effects.  A turn      *)
(* reduces as many as there are before their effects are applied.           *)

\* accept_node_transport_result
Accepted(a) ==
  /\ dial[a.node].state = "answered" /\ dial[a.node].id = a.dial
  /\ a.job = 0 \/ Current(a.node, a.job)

\* An attempt whose job has ended is cancelled; one that was replaced changes
\* nothing of the node.
Reject(a) ==
  /\ IF dial[a.node].id = a.dial THEN CancelDial(a.node) ELSE UNCHANGED <<dial, conn, link>>
  /\ UNCHANGED <<job, probe, effects>>

ReduceConnected(a) ==
  /\ a.type = "Connected"
  /\ IF ~Accepted(a) THEN Reject(a) /\ UNCHANGED tries
     ELSE /\ dial' = [dial EXCEPT ![a.node].state = "none"]
          /\ job' = IF Active(a.node)
                    THEN [job EXCEPT ![a.node] = InPhase(@, "AwaitTerminal")] ELSE job
          /\ Push([a EXCEPT !.job = IF Active(a.node) THEN job[a.node].id ELSE 0])
          /\ tries' = [tries EXCEPT ![a.node] = 0]
          /\ UNCHANGED <<conn, link, probe>>

\* schedule_retry, or the job is over: no attempt left, or an error like a
\* refused authentication that no retry can mend.
ReduceConnectFailed(a, fatal) ==
  /\ a.type = "ConnectFailed"
  /\ IF ~Accepted(a) THEN Reject(a)
     ELSE LET n == a.node
              retry == ~fatal /\ MayRetry(n)
          IN /\ dial' = [dial EXCEPT ![n].state = "none"]
             /\ job' = IF Active(n) /\ retry THEN [job EXCEPT ![n] = InPhase(@, "Queued")]
                       ELSE job
             /\ Push([About(CASE ~Active(n) -> "ConnectFailed"
                              [] Active(n) /\ retry -> "FailedWillRetry"
                              [] OTHER -> "FailedForGood",
                            n, job[n].id) EXCEPT !.dial = a.dial])
             /\ UNCHANGED <<conn, link, probe>>

\* complete_reconnect_grace_probe
ProbeDone(a) ==
  probe' = IF probe[a.node].job = a.job
           THEN [probe EXCEPT ![a.node] = NoProbe] ELSE probe

\* Mutant of ReduceSnapshotted: a cancelled job takes the answer.
ReduceSnapshottedLate(a) ==
  /\ a.type = "Snapshotted"
  /\ job' = [job EXCEPT ![a.node] = InPhase(@, "GracePeriod")]
  /\ UNCHANGED <<conn, link, probe, dial, effects>>

ReduceSnapshotted(a) ==
  /\ a.type = "Snapshotted"
  /\ job' = IF Current(a.node, a.job)
            THEN [job EXCEPT ![a.node] = InPhase(@, "GracePeriod")] ELSE job
  /\ UNCHANGED <<conn, link, probe, dial, effects>>

ReduceGraceRecovered(a) ==
  /\ a.type = "GraceRecovered"
  /\ ProbeDone(a)
  /\ IF Current(a.node, a.job) THEN Push(a) ELSE UNCHANGED effects
  /\ UNCHANGED <<conn, link, job, dial>>

\* The old connection is down for good, and the first dial begins.
ReduceGraceExpired(a) ==
  /\ a.type = "GraceExpired"
  /\ ProbeDone(a)
  /\ IF Current(a.node, a.job)
     THEN /\ job' = [job EXCEPT ![a.node] = Dialling(@)]
          /\ link' = IF conn[a.node] = a.dial THEN [link EXCEPT ![a.node] = "down"] ELSE link
          /\ Push(a)
     ELSE UNCHANGED <<job, link, effects>>
  /\ UNCHANGED <<conn, dial>>

Reduce ==
  /\ ~applying /\ results # <<>>
  /\ results' = Tail(results)
  /\ LET a == Head(results)
     IN \/ ReduceConnected(a)
        \/ /\ \/ \E fatal \in BOOLEAN : ReduceConnectFailed(a, fatal)
              \/ ReduceSnapshotted(a)
              \/ ReduceGraceRecovered(a)
              \/ ReduceGraceExpired(a)
           /\ UNCHANGED tries
  /\ UNCHANGED <<reports, timers, pipeline, tasks, chain, applying, refused, spent>>

--------------------------------------------------------------------------------
(* apply_workspace_runtime_effect: the effects of the turn, in order.       *)

\* schedule_grace_period_reconnect and queue_reconnect_root: a node that has a
\* job already is left to it.
ApplyLinkDown(e) ==
  /\ e.type = "LinkDown"
  /\ pending' = IF Active(e.node) THEN pending ELSE pending \cup {e.node}
  /\ UNCHANGED <<conn, link, requeue, retries, pipeline, job, workers, chain, tries,
                 refused>>

\* claim_reconnect_pipeline when another node owns it: come back later, or
\* give up after MaxRequeue times.
ComeBack(n) ==
  IF requeue[n].count + 1 > MaxRequeue
  THEN IF job[n].status = "None"
       THEN /\ requeue' = [requeue EXCEPT ![n] = NotQueued]
            /\ UNCHANGED <<job, pipeline>>
       ELSE Finish(n, "Failed")
  ELSE /\ requeue' = [requeue EXCEPT ![n] = [count |-> @.count + 1, conn |-> conn[n],
                                            armed |-> TRUE]]
       /\ UNCHANGED <<job, pipeline>>

\* start_grace_period_reconnect: claim the pipeline, take the snapshot,
\* schedule the job and start the probe of the old connection.
ApplyStart(e) ==
  LET n == e.node IN
  /\ e.type = "StartPipeline"
  /\ IF conn[n] = 0 \/ Active(n)
     THEN UNCHANGED <<requeue, job, pipeline, probe, tries, refused>>
     ELSE IF pipeline \notin {NoNode, n}
     THEN ComeBack(n) /\ UNCHANGED <<probe, tries, refused>>
     ELSE /\ pipeline' = n
          /\ requeue' = [requeue EXCEPT ![n] = NotQueued]
          /\ \E needs \in Snapshots :
               job' = [job EXCEPT ![n] = [id |-> @.id + 1, status |-> "Snapshot",
                                          attempt |-> 0, ended |-> FALSE,
                                          needs |-> needs, swept |-> FALSE]]
          /\ probe' = [probe EXCEPT ![n] = [job |-> job[n].id + 1, conn |-> conn[n],
                                           state |-> "listing"]]
          /\ tries' = [tries EXCEPT ![n] = 0]
          /\ refused' = refused \ {n}
  /\ UNCHANGED <<conn, link, pending, retries, dial, tasks, chain>>

\* start_reconnect_cascade_after_grace_expired.  What becomes of the dial is
\* not looked at: a chain that is active refuses it, and nobody asks again.
ApplyCascade(e) ==
  LET n == e.node IN
  /\ e.type \in {"GraceExpired", "RetryNodeConnect"}
  /\ IF MayDial(n)
     THEN /\ StartDial(n)
          /\ tries' = IF Active(n) THEN [tries EXCEPT ![n] = @ + 1] ELSE tries
          /\ UNCHANGED refused
     ELSE /\ refused' = IF chain # NoNode /\ ~(chain = n /\ dial[n].state # "none")
                       THEN refused \cup {n} ELSE refused
          /\ UNCHANGED <<conn, link, dial, chain, tries>>
  /\ UNCHANGED <<timers, pipeline, job, probe, tasks>>

\* The node's forwards are asked for whenever it has a job with a snapshot of
\* them; the phases move on only for a job that was active when it connected.
ApplyConnected(e) ==
  LET n == e.node
      forwards == [node |-> n, step |-> "forwards", job |-> job[n].id]
      asked == IF job[n].status # "None" /\ "forwards" \in job[n].needs
               THEN tasks \cup {forwards} ELSE tasks
  IN /\ e.type = "Connected"
     /\ chain' = IF chain = n THEN NoNode ELSE chain
     /\ IF e.job # 0 /\ Active(n)
        THEN Restore(n, 1, asked)
        ELSE tasks' = asked /\ UNCHANGED <<job, pipeline, requeue>>
     /\ UNCHANGED <<conn, link, pending, retries, probe, dial, tries, refused>>

\* Mutant of ApplyConnectFailed: the pipeline is not given back.
ApplyConnectFailedKeeping(e) ==
  LET n == e.node IN
  /\ e.type \in {"ConnectFailed", "FailedWillRetry", "FailedForGood"}
  /\ chain' = IF chain = n THEN NoNode ELSE chain
  /\ retries' = IF e.type = "FailedWillRetry"
                THEN retries \cup {[node |-> n, job |-> e.job, dial |-> e.dial]} ELSE retries
  /\ job' = IF e.type = "FailedForGood"
            THEN [job EXCEPT ![n] = EndedAs(@, "Failed")] ELSE job
  /\ UNCHANGED <<conn, link, pending, requeue, pipeline, workers, tries, refused>>

ApplyConnectFailed(e) ==
  LET n == e.node IN
  /\ e.type \in {"ConnectFailed", "FailedWillRetry", "FailedForGood"}
  /\ chain' = IF chain = n THEN NoNode ELSE chain
  /\ retries' = IF e.type = "FailedWillRetry"
                THEN retries \cup {[node |-> n, job |-> e.job, dial |-> e.dial]} ELSE retries
  /\ IF e.type = "FailedForGood" THEN Finish(n, "Failed")
     ELSE UNCHANGED <<job, pipeline, requeue>>
  /\ UNCHANGED <<conn, link, pending, workers, tries, refused>>

\* The old connection came back: the job is done.
ApplyRecovered(e) ==
  /\ e.type \in {"GraceRecovered", "RecoveredBeforeRetry"}
  /\ Finish(e.node, "Done")
  /\ UNCHANGED <<conn, link, pending, retries, workers, chain, tries, refused>>

Apply ==
  /\ effects # <<>>
  /\ effects' = Tail(effects)
  /\ applying' = (Tail(effects) # <<>>)
  /\ LET e == Head(effects)
     IN \/ ApplyLinkDown(e)
        \/ ApplyStart(e)
        \/ ApplyCascade(e)
        \/ ApplyConnected(e)
        \/ ApplyConnectFailed(e)
        \/ ApplyRecovered(e)
  /\ UNCHANGED <<reports, results, spent>>

--------------------------------------------------------------------------------
Next ==
  \/ \E n \in Nodes :
       \/ LinkLost(n)
       \/ ProbeLists(n)
       \/ ProbeAlive(n)
       \/ ProbeExpires(n)
       \/ \E outcome \in {"Connected", "ConnectFailed"} : DialEnds(n, outcome)
       \/ ReportArrives(n)
       \/ RequeueFires(n)
       \/ Sweep(n)
       \/ UserConnect(n)
       \/ Disconnect(n)
  \/ Debounce
  \/ \E r \in retries : RetryFires(r)
  \/ \E t \in tasks, ok \in BOOLEAN : TaskEnds(t, ok)
  \/ Reduce
  \/ Apply

Spec == Init /\ [][Next]_vars

\* Timers fire, workers answer (the dial and the probe have timeouts of their
\* own) and the event loop turns.  Nothing obliges the user or the network.
Fairness ==
  /\ WF_vars(Reduce) /\ WF_vars(Apply) /\ WF_vars(Debounce)
  /\ \A n \in Nodes :
       /\ WF_vars(ProbeLists(n))
       /\ WF_vars(ProbeAlive(n) \/ ProbeExpires(n))
       /\ WF_vars(\E outcome \in {"Connected", "ConnectFailed"} : DialEnds(n, outcome))
       /\ WF_vars(ReportArrives(n))
       /\ WF_vars(RequeueFires(n))
       /\ WF_vars(\E r \in retries : r.node = n /\ RetryFires(r))
       /\ WF_vars(\E t \in tasks, ok \in BOOLEAN : t.node = n /\ TaskEnds(t, ok))

FairSpec == Spec /\ Fairness

--------------------------------------------------------------------------------
(* Properties.                                                              *)

Job == [id : Nat, status : Phases \cup {"None"}, attempt : 0..MaxAttempts,
        ended : BOOLEAN, needs : Snapshots \cup {{}}, swept : BOOLEAN]

Message == [type : {"Snapshotted", "GraceRecovered", "GraceExpired", "Connected",
                    "ConnectFailed", "FailedWillRetry", "FailedForGood", "LinkDown",
                    "StartPipeline", "RetryNodeConnect", "RecoveredBeforeRetry"},
            node : Nodes, job : Nat, dial : Nat]

\* The variables stay in their types: an attempt within max_attempts, a requeue
\* within RECONNECT_MAX_REQUEUE, answers and effects of the known kinds.
TypeOK ==
  /\ conn \in [Nodes -> Nat]
  /\ link \in [Nodes -> {"none", "down", "connecting", "active", "error"}]
  /\ reports \subseteq Nodes \X Nat
  /\ pending \subseteq Nodes
  /\ requeue \in [Nodes -> [count : 0..MaxRequeue, conn : Nat, armed : BOOLEAN]]
  /\ pipeline \in Nodes \cup {NoNode} /\ chain \in Nodes \cup {NoNode}
  /\ job \in [Nodes -> Job]
  /\ probe \in [Nodes -> [job : Nat, conn : Nat,
                          state : {"none", "listing", "probing", "answered"}]]
  /\ dial \in [Nodes -> [id : Nat, job : Nat, state : {"none", "running", "answered"}]]
  /\ retries \subseteq [node : Nodes, job : Nat, dial : Nat]
  /\ tasks \subseteq [node : Nodes, step : DOMAIN Stage, job : Nat]
  /\ results \in Seq(Message) /\ effects \in Seq(Message)
  /\ applying \in BOOLEAN
  /\ tries \in [Nodes -> Nat]
  /\ refused \subseteq Nodes

\* A job that has not ended belongs to the node that owns the pipeline, so two
\* nodes never reconnect at once, whatever is cancelled, requeued or finished
\* in between (claim_reconnect_pipeline, release_reconnect_pipeline).
ActiveJobOwnsPipeline == \A n \in Nodes : Active(n) => pipeline = n

\* advance does not look whether a job has ended; no answer of a cancelled or
\* finished job may take it back to a phase that is not terminal, where
\* cleanup_terminal_job would never remove it.
EndedIsTerminal ==
  \A n \in Nodes : job[n].status # "None" => (job[n].ended <=> job[n].status \in Terminal)

\* The pipeline dials at most max_attempts times for a job without a dial that
\* connects, whatever timers, probes and user connects overlap
\* (begin_ssh_attempt, schedule_retry).
DialsWithinBudget == \A n \in Nodes : tries[n] <= MaxAttempts

\* A node does not stay at Connecting: every dial ends in a connection, an
\* error or a cancelled attempt (cancel_node_transport_attempt).
ConnectingEnds == \A n \in Nodes : link[n] = "connecting" ~> link[n] # "connecting"

\* The node that owns the pipeline lets go of it, so the next one gets its
\* turn; the exception is a job whose dial was refused because of another
\* connection chain (start_reconnect_cascade_after_grace_expired).
PipelineMovesOn == \A n \in Nodes : pipeline = n ~> (pipeline # n \/ n \in refused)

================================================================================
