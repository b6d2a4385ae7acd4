# OxideTerm in TLA+

OxideTerm is a desktop SSH workspace in Rust: terminals, SFTP, port forwarding,
remote editing and AI tools over a tree of SSH connections, with settings that
are synchronised between devices. This directory holds TLA+ models of its
connection core, its transfers and its cloud sync, the TLC configurations that
check them on small instances, and TLAPS proofs of the invariants that carry
them for every instance. Paths below are relative to `src/`; `ssh/` stands for
`crates/oxideterm-ssh/src/`, `ws/` for
`crates/oxideterm-gpui-app/src/workspace/`, `sync/` for
`crates/oxideterm-cloud-sync/src/` and `sftp/` for `crates/oxideterm-sftp/src/`.

## 1. The system

### Components

| Component | State | Operations | Hard behaviour | What makes it correct |
|---|---|---|---|---|
| Connection registry, `ssh/connection_registry.rs`, driven by `ssh/transport/client.rs` | two concurrent maps (`by_key`, `by_id`), one entry per connection: consumers, `ref_count`, state, idle generation, parent ownership, physical transport | acquire, acquire_dedicated, acquire_consumer_for_connection, release, mark_state, set_parent_connection_ownership, retire_connection, set_keep_alive, set_idle_timeout, idle timers, keepalive probes | no global lock: every call is a series of critical sections; timers and dials come back late | references are exact; indexes agree; a child keeps its parent and gives it back once; idle connections end, used ones do not |
| Shared SFTP slot, same file and `ssh/router/node_router.rs` | `SharedSftpState` (Empty, Initializing, Ready), `sftp_generation`, a Notify per claim | acquire_sftp_with_meta, acquire_existing_sftp_generation, invalidate_sftp, clear_physical | no mutex across the open; initializers outlive invalidations; callers are dropped by timeouts | a generation names one channel; a claim has an initializer; waiters are woken |
| Node events, `ssh/router/events.rs`, `ssh/router/runtime_store.rs`, `ws/runtime_entity.rs`, `ws/delivery.rs` | two generation counters per node, a bounded mailbox, a wake flag and its permit, the consumer's last generation | emit_*, dispatch, drain_node_event_mailbox, reduce_node_event | number and dispatch are separate; coalescing; eviction; drain budgets | one-shot events arrive in order; states replace each other; nothing stays behind |
| Reconnection and transport attempts, `ssh/reconnect.rs`, `ws/runtime_entity.rs`, `ws/tabs/nodes.rs` | jobs by node (phase, attempt, end), the pipeline's owner, debounced and requeued nodes, attempt numbers, the active connection chain, worker answers, effects | start, probe, dial, retry, restore, finish, cancel, disconnect, sweep | worker answers that arrive after a cancel; one pipeline for all nodes; effects that are applied later in the turn | one job at a time; an ended job stays ended; attempts stay in their limit; every dial ends, and the pipeline is given back |
| SFTP transfers, `sftp/transfer_manager.rs` and the tasks in `ws/sftp/actions/transfers.rs`, `ws/sidebar/ai/actions/tools/executor.rs` | controls with owner counts, snapshots, `active_count`, a semaphore, `shutdown_state` | register, acquire_permit, pause, resume, cancel, interrupt, finish, shutdown_session_transfers | limit checked and counted in two steps; several owners of a control; tasks that outlive a session | owners and permits are exact; a shutdown reaches everybody and keeps what can be resumed; the queue moves |
| Cloud sync, `sync/sync_v3/`, `sync/operation/synchronize.rs`, `sync/backend/publications.rs` | on each device a causal document, the effective baseline, a staged publication, observed snapshots; in the cloud, numbered snapshots of each writer | prepare, choose, apply, publish in three directions | edits during the network work; uploads without an answer; concurrent edits of a field | no edit lost or overwritten unseen; retries are exact; devices with nothing left to sync agree |
| Apply and recovery, `sync/sync_v3/recovery.rs`, `PreparedSync::apply`, the stores of `crates/oxideterm-connections` | six stores, credential slots, the recovery journal, the cleanup queue | checkpoint, write, commit, roll back, clean up, recover at the start | a failure or the end of the program between any two steps, also of the recovery | all stores and the baseline, or none; no secret lost or left behind |
| Node runtime store and router, `ssh/router*` | tree of nodes, connection-to-node maps, terminal endpoints, readiness | bind_connection, disconnect_node_runtime, resolve_connection_wait, sync_connection_state | waiters subscribe to states that change before they look | maps are inverse to each other; waiters end |
| Port forwarding, `crates/oxideterm-forwarding` | five maps of forwards by kind and state | create, stop, restart, suspend | rule checks before awaits | one forward for a rule; none is lost by a stop |
| Atomic files, saved forwards and connections | files and revisions | durable replacement, merge | crashes between steps | old or new content, never neither |
| Terminal, tmux, mosh, trzsz and ZMODEM, FTP, remote desktop, X11 | protocol parsers and drivers | bytes in, bytes out | mostly data | outside a model checker's reach, except a few small state machines |
| AI, plugins, editor and IDE, audit, secrets, settings, user interface | records, requests, views | see `PROJECT.json` | approval and save conflicts are candidates for later | |

`PROJECT.json` lists all 33 parts with their sources and status. The
repository has close to a million lines, most of them user interface, terminal
emulation and protocol code; the modules take its concurrent and fault-tolerant
core.

### Interactions

The workspace asks the `NodeRouter` for a node's transport. The transport
clients (`connect_node_with_registry`, `connect_dedicated_consumer_with_registry`,
`connect_child_node_via_parent_with_registry`) acquire or borrow registry
entries, dial outside every lock, and hand the result over with
`set_parent_connection_ownership` and `mark_state`. Idle timers are spawned by
`release` and disconnect an entry with its descendants. Each entry carries one
shared SFTP slot. State changes go from any thread through the event emitter
into one mailbox, which the workspace's runtime entity drains on the foreground
thread. A link that is lost becomes a job of the reconnect pipeline there, whose
probes, dials and restores run on worker tasks that answer through a channel;
it interrupts and resumes the node's transfers. Cloud sync runs beside all this:
network work on a worker thread, captures and applies on the foreground thread,
where the user edits.

### Hazards

`PROJECT.json` lists, at their lines, the steps of this code that a test would
hardly reach, and the properties that watch over them. A hazard without a
property says what is missing.

## 2. Modules

| Module | Role |
|---|---|
| `ConnectionRegistry` | the registry and the clients that drive it |
| `ConnectionRegistry_proofs` | type invariant, agreement of the indexes |
| `ConnectionReferences_proofs` | reference counts, parent ownership, dedicated connections, references on parents, idle timers |
| `SharedSftp` | the shared SFTP slot and the router operations on it |
| `SftpOwner` | what the slot promises: a register written once in each generation |
| `SharedSftp_proofs` | types, one channel for a generation, the refinement of `SftpOwner`, ownership of claims |
| `NodeEvents` | emitting threads, mailbox, wake and consumer |
| `NodeEvents_proofs` | types, one level event per key, overflow, order of generations, reliable events first in first out |
| `ReconnectPipeline` | reconnect jobs, pipeline, probes, dials, retries and restores |
| `ReconnectPipeline_proofs` | types, one job at a time, ended jobs, the budget of dials |
| `TransferManager` | transfers: tasks, controls, snapshots, permits, session shutdown |
| `TransferManager_proofs` | types, owners, permits, the shutdown |
| `CausalSync` | cloud sync between devices |
| `CausalSync_proofs` | types, edits, baselines, observed snapshots, retries, closed histories, nothing stranded, agreement of devices in step |
| `ApplyJournal` | one device's apply to its stores, with faults and recovery |
| `ApplyJournal_proofs` | types, the refinement of `AtomicApply`, what was published, credential slots |
| `AtomicApply` | what an apply promises: everything or nothing |
| `MC*` | instances: client sets, plans and symmetry |

### ConnectionRegistry

A task is a thread inside a registry call; `todo[t]` lists the calls it still
makes, so that a client program (connect, release, retire, attach, toggle
keep-alive, change the timeout, lose the link) is a list of calls and a call is
a few actions. An action is one critical section of the code: the lookup through
`by_id` and then `by_key` (`LookupId`, `LookupKey`); get-or-insert under the
shard lock (`Acquire`), the cancelled timer (`AcquireCancel`) and the consumers
lock (`AcquirePush`); the four steps of `release` (`ReleaseDetach`,
`ReleaseDecrement`, `ReleaseDecide`, then `KeepCancel` or `Disarm`, `Capture` and
`Settle`); `retire_connection` under `ownership_transition` (`RetireEnter`,
`RetireUnlink`, `RetireForget`); the hand-over of a child (`Adopt`, `Disown`,
`MarkState`) with the unwinding of its guards (`Abandon`); the timer (`Wake`) and
its chain of disconnects (`Disconnect`). A dial is an outcome
(`DialReaches`, `DialFails`) at any later time; a child's dial first takes the
transport of its parent (`TakeTransport`) and goes on over it, even when it is
cleared from the parent's entry meanwhile.

`idle_generation` is compared for equality only. An entry keeps instead
`armed`, the sleeping timers of the present generation, and `captured`, the
tasks that have read it and have not spawned their timer. A timer of an older
generation returns without an effect and is not represented.
`Wake` fires in one step the check that `disconnect_if_idle_timeout` makes once.
The pool key of a dedicated connection, a fresh UUID, is its connection id; the
ancestor consumer `{child}:ancestor` is the child's connection id.

Out of it: the schedule of keepalive probes and the link-down cascade to
children, environment detection, audit and time stamps. They change none of the
modelled state except through `mark_state`, which the `linkDown` client makes on
one connection. Children are dedicated connections. The nodes that dial a shared
connection through a parent (`ws/runtime_entity.rs:876-971`) make the same calls of
the client, but two nodes with one configuration would register two ancestor
consumers for one entry, which the module does not have. Nothing outside tests
sets the states `Reconnecting` and `Disconnecting`, so they are dropped, and with
them the early return at `connection_registry.rs:1662`. `KeepAliveOn`,
`KeepAliveOff` and `PushAndRevive` each take steps together that the code makes one
after the other without a common lock: `set_keep_alive(true)` stores its flag and
then cancels the timer (`:1567-1569`), and two threads that change `keep_alive` of
one connection at once are a race the module does not have.

### SharedSftp and SftpOwner

Tasks run `acquire_sftp` (`browse`), the same under the 800 ms timeout of remote
path completion (`complete`, with `Cancel` wherever the task waits),
`invalidate_and_reacquire_sftp` (`recover`), `clear_physical` with a new dial
(`reconnect`), and `acquire_existing_sftp_generation` (`use`). A step is one
region under the slot's mutex. `granted` is a history of which channel was
returned for which generation; mapped to `SftpOwner`, it says that a capability
for a generation never reaches a substitute. All programs run together, reconnects
and timeouts included, and the properties name what they do not cover.
`clear_physical` raises the generation before it takes the mutex: what is answered
between the two steps is not `settled`, and `GrantedOnce` and `OwnerSpec` speak of
the settled answers. A claim loses its owner only when the timeout of a completion
drops that very task (`ClaimKeepsOwner`; `ClaimHasOwner` is its part about a
state). `clear_sftp` has callers in tests only and is left out, as is the list of
live transfer channels that an open may fall back on.

### NodeEvents

Emitting calls are scripts of steps: number with the sequencer or with the
runtime store, dispatch. A dispatch holds the listener map through its push and
its wake (`Dispatching`); the wake sets a flag and then notifies (`Mark`,
`Notify`); the consumer awaits the permit, takes the flag, receives within a
budget of items and time, reduces, and marks its own wake when it stopped for
the budget. `ConnectionStatusChanged` events, which carry no generation,
listeners with unbounded queues, and subscriptions that come and go are left out.

### ReconnectPipeline

The event loop takes one thing at a time: a report of a lost link
(`ReportArrives`), a timer (`Debounce`, `RequeueFires`, `RetryFires`, `Sweep`),
an answer of a worker (`Reduce`), the user (`UserConnect`, `Disconnect`). A
handler that pushes runtime effects leaves them in `effects`, and `Apply` takes
them one by one, in the order they were pushed; what a timer or an answer
pushed is applied before the loop turns again (`applying`). Beside the loop run
the links (`LinkLost`), the probes of the grace period (`ProbeLists`,
`ProbeAlive`, `ProbeExpires`), the dials (`DialEnds`) and the restores
(`TaskEnds`), whose answers wait in `results`. The shared parts of the handlers
are operators with the code's names: `Finish`, `Released`, `Dialling`
(`begin_ssh_attempt`), `CancelDial`, `StartDial`. Jobs, attempts and connections
are numbers that only grow, as in the code, where they are counters or fresh
ids; `tries` and `refused` are histories for the properties.

Nodes are roots that stay: a connection chain has one node, there is no cascade to
descendants, and no node is removed. So there are no temporary nodes to clean up,
a chain does not fail before its first dial
(`start_next_connection_chain_node` finds its node), and
`ensure_single_node_connected` has nothing to return early for, since a reconnect
resets its root first. `cancel_node_transport_attempt` also drops the node's queued
runtime effects (`ws/runtime_entity.rs:1048`); a node with an attempt has none in
the model. Left out: turning reconnection off in the settings, the shutdown of
the runtime, the remounting of terminals, and what a restore does to forwards,
transfers and the IDE beyond that it is asked for and ends.

### TransferManager

A task goes through the labels of `pc`: the SFTP view's registers its control
before it is spawned, waits for a permit (`Subscribe`, `Look`, `Wake`,
`Acquire`, `Count`: the Notify future is made before the count is read, and the
count is raised after the semaphore), checks its control, makes its snapshot
(`Announce` reads `shutdown_state`, `Insert` writes the snapshot), copies in
pieces with a check after each, and gives everything back in the order of its
guards (`Leave`, `Finish`, `Drop`, `Return`, `Quit`). The AI tool makes the
snapshot first, registers when it has a permit, gives its registration back
before the permit and finishes last. `GiveUp` is a task that ends before its helper
registers: without a connection or a protocol it makes no snapshot
(`transfers.rs:974-1070`), and when the SFTP session cannot be opened it finishes
the one it made. `Cancel`, `Pause`, `Resume`, `Interrupt`
and `SetLimit` come at any time, and `shutdown_session_transfers` is
`BeginShutdown`, `Collect`, `CancelCollected` and `Sweep`. A task may be started
again under the identifier of an earlier one, which is what a resumed transfer
does. The last state of the shutdown, after its grace period, is told from the
one before by nobody and has no action.

A `"directory"` is any transfer with a snapshot, a single file over SCP included, and
a `"file"` one without.

Left out: the bytes, the progress store, the speed limit and the parallelism
within a directory, probes of remote capabilities, the second helper that follows
a failed tar helper, and the tasks of plugins, FTP (`ftp::run_transfer`) and relays,
which use the same permits.

### CausalSync, ApplyJournal and AtomicApply

`CausalSync` has the devices, their documents and the cloud. A write is
identified by its device and number; a document is a set of writes, and what a
register holds are the writes that no known write replaced (`Candidates`), as in
`replica.rs`. `Capture`, `Materialize`, `ReplaceFields`, `Resolve` and
`Conflicts` are the operations of `SyncReplica`; `Prepare`, `Choose`, `Apply`,
`Stage`, `Upload` and `Confirm` those of the coordinator. `Edit` is the user, at
any moment; `Abandon` a cancelled preview, a failed transfer or the end of the
program, all of which leave what was saved. The desktop always prepares against the
complete cloud and settles the direction afterwards
(`crates/oxideterm-gpui-cloud-sync/src/delivery.rs:93-108`): an empty cloud or a
first sync decides it (`Directed`), and the user may turn the preview (`Turn`), which
therefore has the whole remote side whichever way it goes. Commands only merge. An automatic sync applies by itself
only what has no conflict and is not the first, and a pending preview holds the next
one back (`ws/cloud_sync/causal.rs`), so that a device may stay behind for as long
as its user does not decide. No convergence is claimed, therefore; `InStepAgree`
says that devices which have nothing left to sync agree. One resource with a
presence and one field stands for all: writes to different resources never meet.

There an apply is one step. `ApplyJournal` has that step in detail for one
device: an apply is the list of its writes (`ApplySteps`) and a recovery the list
of its own (`RecoverySteps`), in the order of the code. Each step can fail
without its effect or with it (a file was replaced and the directory could not be
synced; some of the slots were removed, or the journal was saved and the answer was
an error), and `Crash` ends the program between any two. `Try` is what all steps
share. `clock` numbers the contents, so that a store holds the number of its last
change. `AtomicApply` says what the apply promises, and `AtomicSpec` that
`ApplyJournal` implements it, under the mapping of a pending rollback to the
state it will restore (`Outcome`). That justifies the one step of `CausalSync`.

Left out: the scope and selection of resources, the upgrade from version 2, a
change of the password, the removal of superseded snapshots, a cloud that lost
the publications of a device (`request_publication`,
`sync/operation/synchronize.rs:229-235`), the other sync targets of a device, and
credentials of deleted profiles other than connections.

## 3. Runs

| Run | Instance | Shows |
|---|---|---|
| `registry_timers` | 1 connection, 2 consumers, 2 threads and 1 timer; connects, attaches, releases, lost links, both settings | exact reference counts, and an idle connection keeps its timer but for named races |
| `registry_tunnel` | a parent and a child, or a connection and its successor, 1 consumer, 2 threads | agreeing indexes; a retired connection owns no parent; no consumer of a gone child stays; a tunnel keeps its parent; a dedicated connection ends with its last consumer |
| `registry_settings` | 1 connection, 2 consumers, 1 thread and 1 timer, every client | under fairness an idle connection is used again or disconnected |
| `registry_killed_parent` | a parent and a child, 1 thread and 1 timer | *violated*: see finding 1 |
| `sftp_shared` | 3 tasks, 3 channels, 2 generations after the first, every program | one channel for a generation, refinement of `SftpOwner`, and a claim keeps its owner, with recoveries, reconnects, uses and initializers dropped by a timeout |
| `sftp_waiters` | 3 tasks, 2 channels, 1 recovery or reconnect | those who wait for a claim are woken |
| `node_drain` | 2 nodes, 2 threads, mailbox of 2, budget 1, 2 calls | one level event per node and kind, overflow by reliable events, reliable events first in first out, the generations of a thread in order, and no wake is lost |
| `reconnect` | 2 nodes, 2 lost links, 2 dials for a job, 1 requeue, 1 connect and 1 disconnect by the user | one job at a time, ended jobs stay ended, dials within the budget, no node stays at connecting, and the pipeline moves on |
| `transfers` | 2 tasks, 1 transfer, 2 permits, limit 1 or 2, 1 request | owners and permits are exact, the shutdown reaches everybody, keeps progress and has the last word, and the queue moves |
| `causal_sync` | 2 devices, 2 values, 2 decisions of users, all directions | no blind overwrite, a baseline that is the history's, exact retries, nothing stranded or skipped, and devices in step agree |
| `causal_edit` | 2 devices, 3 values, 2 decisions, merges only | *violated*: see finding 2 |
| `apply_journal` | 2 applies of two plans, 2 faults, 1 edit | types, refinement of `AtomicApply`, available credentials, no leaked secret, nothing published is undone, and recovery ends |

**Bounds.** Registry: two threads are what it takes for every pair of calls to
interleave at every step; a call touches one connection and its parent, so two
connections hold every relation of the code, a shared connection and its
successor under the same key included. Each connection id is used once
(`OutOfIds` drops an acquire that finds none). Three SFTP tasks are an
initializer, a waiter and one who invalidates; `MaxGeneration` bounds the
recoveries and reconnects. A mailbox of two fills up with the events of one call
of each thread, and a budget of one stops every drain that finds two events;
`MaxCalls` bounds the emitting calls. Two nodes are an owner of the pipeline and
one who waits for it or takes the chain; two attempts are a dial and its retry;
a job has either nothing or all three kinds of things to restore. Two tasks on one
transfer are a resumed transfer and the task it had before, or two waiters with
one place; a single file is a directory without its snapshot and is left to the
proofs. `MaxStarts` bounds the tasks started and `MaxRequests` what the user, the
reconnect and the settings ask for. Two decisions are two concurrent edits, an
edit and a choice, or a directional sync after an edit; a conflict takes two
writers. Two plans are one that replaces every credential and one that drops those
of a connection; two faults are a failure in an apply and another in its
recovery. The instances of the passing runs have between @MIN@ and
2.4 million distinct states.

**Deadlock** is checked in the `registry_*` runs and in `sftp_waiters`. The other
systems may really stop: `node_drain`, `causal_*`, `apply_journal`, `reconnect`
and `transfers` rest when what their bounds allow is used up and nothing is left
to do, and in `sftp_shared` an initializer that was dropped by a timeout leaves
every later acquire waiting (section 5).

**Fairness.** `FairSpec` of the registry asks weak fairness of each task's next
step, since threads run and a dial ends by its timeouts, and strong fairness of
each timer's wake: every timer is a task of its own in the code, and the reapers
only bound how many run at once. The SFTP tasks are polled by the runtime as
soon as they can go on (weak fairness of each). For events, each thread and the
consumer are weakly fair, and `Receive` is strongly fair: the drain's time budget
may run out before the first event, but not for ever. In `ReconnectPipeline` the
event loop turns, every timer fires, and every worker answers, since dials,
probes and restores have timeouts of their own; nothing obliges the network or
the user. In `TransferManager` the runtime runs every task, and a copy that goes
on being continued ends one day (strong fairness of `CopyEnds`, as a task may
check its control any number of times before); nobody has to resume a paused
transfer. `CausalSync` has safety properties only, and no fairness. In `ApplyJournal` the steps of applies and recoveries
are taken, an upload ends one way or the other, the program is started again, and
a sync is asked for again. Nothing is assumed of the clients of the registry:
none has to start, release or retire.

## 4. Proofs

All theorems hold for any finite numbers of connections, threads, nodes, tasks,
transfers and devices, and for any plans and numbers of faults; they rest on the named assumptions of the modules and on
nothing else. Type invariants of modules with proofs are proved and, but for that
of `ApplyJournal`, not checked by a run of their own.

- **`ConnectionRegistry_proofs!TypeCorrect`**: `TypeOK` is not inductive,
  because a call can only be followed if its operands are right for its
  operation. `TypeInv` adds that a task inside a call has one, with the key and
  the entry it has read so far.
- **`IndexesAlwaysAgree`**: `IndexInv` adds what the locks give. An entry under
  a key was made for it; at most one retirement is between the two removals of
  an entry, and the id it is about to remove is still its own; a dedicated key
  leads to its own connection. `ownership_transition` (`Locked`) is what the step
  of `RetireEnter` needs; without it (mutant `RetireEnterUnlocked`) TLC finds two
  retirements of one entry, the second of which removes a successor.
- **`RefCountAlwaysExact`**: by cardinalities, one lemma for each way a consumer
  comes or goes. A release between its two steps is counted in `Releasing`.
- **`RetiredNeverOwn`**: `OwnInv` says that an entry with a parent consumer is
  registered and no retirement of it is under way; the check of the registration
  under the lock (`StillRegistered`) is what keeps it.
- **`DedicatedAlwaysRetires`**: three invariants before the one that says it.
  `TodoInv`: of the calls a task still has to make, those of a dial come last
  (a hand-over that fails drops what follows it), and an owner's activation
  follows its hand-over. `SettleInv`: only a release or a setting
  arms a timer. Hence a retirement that is due stays due until the connection is
  no longer registered (`DoomStays`, an action property with a lemma for each
  handler). `DedicatedInv`: a dedicated entry is under a key of its own, and one that is
  registered with a count of zero is about to be retired, or a task stands
  between its decrement and its decision.
- **`TunnelInvariant`, `TunnelAlwaysHoldsParent`, `AncestorNeverOrphaned`**: the
  reference on a parent changes hands between a task and an entry, so the
  invariant speaks of both: of the entries and of the calls whose effect is still
  to come (`Waits`). `TunnelOK(c)` says that at most one task makes the
  connection of `c`; that from the borrow until `adopt` this task holds the
  reference and no release for `c` is due; that afterwards the entry of `c` owns
  it; and that once a release for `c` is due, `c` owns nothing or is about to be
  retired. Conversely every reference of `c` on a registered parent is owned by
  its entry, held by that task, or due to be released. Every step leaves `c`
  alone (`Spares`, `QuietTunnel`) or is one of those that move its reference:
  `BorrowTunnel`, `AdoptTunnel`, `GivesUpTunnel`, `LetGoTunnel`, `DetachTunnel`,
  `DisconnectTunnel`. TLC checked the invariant on the instances of
  `registry_tunnel` and `registry_killed_parent` before it was proved.
- **`TimersAlwaysKept`**: for every client and any number of timers. An idle,
  unused connection is `Timed` if a timer is armed, or its disconnect or retirement is due
  (`Ending`), or a task is about to use it, to decide on it, or to arm a timer with a
  generation nobody has cancelled (`Covers`); a release that has decided counts as
  idle already (`Late`). Whoever cancels a generation takes the place of the task whose timer
  is lost, so each step keeps `Timed`, or is one of the races that `Overtaken`
  names: they are exceptions of the statement, not assumptions, and section 5
  describes them. `BornInv` says that only connections that were made are idle or
  decided on, so that a new one begins without a timer to lose (`Begins`); then there is a
  lemma for each handler (`StepTimed`) and one for the timer (`WakeTimed`).
- **`SlotTyped`, `ChannelGrantedOnce`, `SlotImplementsOwner`**: `OwnerInv` says
  that a generation that has a settled answer and is still the current one has its
  channel in the slot, so that a late initializer (`DropStaleClaim`,
  `FinishReady`) cannot grant another. Nothing is assumed of the programs:
  reconnects are among them.
- **`ClaimsKeepOwner`**: an action property: no step but the timeout of the
  completion that owns the claim takes the owner from it.
- **`PipelineTyped`, `OneJobAtATime`, `EndedStaysTerminal`**: that a node with an
  active job owns the pipeline needs to know of every answer and effect that is
  still under way: it is reduced only for the job it names, and what the
  reduction decided still holds when the effect is applied, because the loop does
  nothing else in between. The invariant therefore speaks about `effects`.
- **`DialsStayInBudget`**: an attempt is counted before its dial, but the dial
  is an effect of its own, and other steps come in between. `ProbeInv` says that
  the grace period of a job ends once, so that at most one cascade waits for a
  node (`Waiting`); `TagInv`, that neither a probe nor its answer names a job
  that is still to come; `TurnInv`, that what a timer pushes is alone in its
  turn. `ChainInv` says that the connection chain which a dial takes stays with
  its node until the one answer of the dial is applied. So `BudgetInv` counts
  the dials of a job by its attempts, and when the last one is spent the chain
  is with the node until the job fails or connects, and nobody can dial.
- **`TransferManager_proofs!TypeCorrect`, `ControlsAreOwned`,
  `PermitsAreExact`**: `HeldInv` says how many registrations a task has at each
  place of its program, so that registrations can be counted against owners
  (`Balanced`) and permits against places.
- **`ShutdownIsHeard`**: `ToldInv`: from the moment the shutdown has collected
  the controls, one that is not cancelled is among those still to be cancelled;
  a new one is cancelled from the start, since `register_owned` reads
  `shutdown_state` under the lock.
- **`ProgressIsKept`**: `KeepInv`: while the manager runs, only the user
  cancels; a task between the two reads of `check_control` has a cancelled
  control. Flags are kept because a control cannot go, or be replaced, under a
  task that has it registered (`Registered`, from `Balanced`).
- **`SweptIsFinal`**: by inspection of what writes a snapshot.
- **`CausalSync_proofs!TypeCorrect`, `EditsAreSighted`, `BaselinesAreHistory`**:
  a capture is sighted because the baseline is what the history says, and a
  baseline is that because every write is put over all the candidates it knows
  and leaves one. So `Sane` joins the two, and it holds of what a device has
  saved, of its plan, and of every merge of the two with the cloud. That a field
  has a candidate whenever it was ever written needs `Ranked`, an order in which
  a write comes after those it replaces, and finitely many devices. A device
  forgets the writes of a plan it drops; `Home` says that nobody else can have
  them, since what others know of a device is in a snapshot it has published.
- **`ObservedAreMerged`, `RetriesAreExact`**: `CloudInv` says that every published
  snapshot is part of its device's document, that a staged one is the last of the
  cloud or its successor, and that a first download meets a device that has staged
  and published nothing.
- **`HistoriesAreClosed`, `LatestIsEnough`**: every document, plan and snapshot
  holds the writes that its writes replaced, and the last snapshot of a device
  holds all that its earlier ones held; reading the last one only loses nothing.
  `HistoryInv` says both, and that the history of a device nobody has written to
  but itself (`Alone`) is one line of writes: a field has one candidate at most
  (`OneLine`). Each operation of `SyncReplica` continues a history in this sense
  (`Continued`), since a write replaces all candidates it knows, and documents are
  united only along a line: what a device alone finds in the cloud it holds itself.
- **`NothingIsStranded`**: for two devices, or for any number that are synced by commands only;
  with three the statement is false (section 5). `UpInv`: what a device takes
  for published is in the cloud. The step that needs the rest is the first
  download, which marks a document as published that nobody uploaded: of two
  devices the other one was alone, its history is one line, so there is no conflict
  to choose in, and the document is what was read (`FirstDownload`).
- **`DevicesInStepAgree`**: under the same assumption. A device in step has observed all
  that is in the cloud (`ObservedAreMerged`) and has published all it holds
  (`NothingIsStranded`), so two of them have one history, and by
  `BaselinesAreHistory` the configuration that the history says.
- **`UndisputedEditsAreKept`**: finding 2 is about conflicts only. The edit of a user
  who has none is in the history once the merge or the upload is applied, whether
  it was made before the sync or during its preview. `PreviewInv` says that a
  capture without a conflict makes none and has the edit.
- **`NodeEvents_proofs!TypeCorrect`, `LevelOnceAlways`, `OverflowAlwaysReliable`,
  `GenerationsAlwaysOrdered`**: the mailbox changes in two ways only: events are
  taken out, which leaves the others in their order (`Thins`), and one is put
  at the end. For the order of generations the invariant adds that no event of the
  mailbox has a generation its counter has not reached (`Counted`), and that what
  a thread holds between numbering and pushing is newer than its events in the
  mailbox, or is one of them, which is then coalesced away (`Held`: a call that
  emits its event again).
- **`ReliableAlwaysFifo`**: a drop, a coalesced event or an overflow takes out level
  events only, so that there is a bijection between the reliable events before and
  after a step which keeps their order (`SameReliable`); bijections compose, and one
  event is added at the end or taken from the front.

- **`ApplyJournal_proofs!TypeCorrect`, `JournalImplementsAtomic`,
  `PublishedStays`**: `Inv` relates the stores to the journal and to the steps
  that are still to be taken. Of those only the order is known (`ApplyOrder`,
  `RollbackOrder`, `FinishOrder`), which holds of the lists of the code and is
  kept when a step is taken off the front; `WrittenInv` and `RestoredInv` say what
  is true of a store whose step is not left any more. A step that fails, with its
  effect or without it, keeps what a recovery would leave (`Same`), and a
  recovery begins with every step of its list left. So it does not matter which
  steps fail, or how often. Only the plan, the checkpoint, the commit, the record
  of a plan that changes nothing and the user's edits are steps of `AtomicApply`.
- **`CredentialsAlwaysAvailable`, `NoSecretEverLeaks`**: assumed: `"credential"`
  is not among `LateEdits`; with it the first statement is false (section 5).
  `SecretInv` has a part about the files, which holds wherever the program ends:
  while a rollback is pending the journal alone accounts for every slot
  (`PendingInv`), otherwise the connection store and the journal of a committed
  apply do (`SettledInv`); slots carry numbers that were used (`NamedInv`), so that
  a new one is nobody else's. `MadeInv`, `RemovedInv` and `CleanedInv` say what
  the steps taken so far have made or removed. It rests on three orders: a slot
  is named in the journal before it is made, references are put back before slots
  are removed, and the cleanup is persisted before the commit.

Only model-checked: liveness, which is out of the prover's reach. Every safety
property of a passing run is the subject of a theorem; `NothingStranded` is proved
for two devices, as many as its run has, and is false for three.

## 5. What was found

1. The idle timer checks once that a connection is unused and then awaits the
   disconnection of its descendants. A child that borrows and adopts the
   connection meanwhile has the transport cleared under it
   (`registry_killed_parent`).
2. While a field is in conflict, the edits of its user are not captured, yet the
   baseline moves on to them. When another device settles the conflict, the merge
   overwrites the edit, and no history has it (`causal_edit`).

Seen while modelling, without a run of its own:

- *Registry.* An idle connection can be left without a timer, in the races that
  `Overtaken` lists. A release has decided that nobody is left and captured a
  generation, but not yet made the connection idle (`connection_registry.rs:1588`,
  `:990`): then `set_idle_timeout` (`:885`), `set_keep_alive(false)` or a release that found
  `keep_alive` cancels that generation, or the old timer goes off and finds the link
  reported lost. `set_keep_alive(false)` by one thread while another releases
  (`:990`) is one of them. And a disconnect meant for a retired connection
  cancels the timer of its successor under the same key. `registry_settings`, where
  one thread makes the calls, does not meet them, and `IdleEventuallyEnds` is not
  claimed beyond. A consumer can be pushed on an entry that was retired since it was
  looked up (`:917`); it uses a connection that nobody finds any more. An entry
  keeps the timeout it was created with, so that turning the timeout off spares
  new connections only.
- *SFTP slot.* The timeout of remote path completion drops the initializer of the
  shared channel; the slot stays `Initializing`, and later acquires wait until an
  invalidation or a reconnect (the exception of `ClaimKeepsOwner`).
  `clear_physical` raises the generation before it takes the slot's mutex, so that
  the old channel can be handed out under the new generation (the answers that
  are not `settled`). `invalidate_and_reacquire_sftp` publishes the revocation
  after the slot was emptied, so that another task can publish a replacement before.
- *Events.* Generations of two counters are compared with one map
  (`runtime_entity.rs:2901`, against the comment at `events.rs:255`), so that a
  disconnect can be taken for old. Two threads can dispatch events of a node in
  the other order than they were numbered in (which is why `GenerationsOrdered`
  speaks of one thread).
- *Reconnection.* The result of the dial after a grace period or a retry is not
  looked at (`nodes.rs:1281`, `:1569`): refused because of another chain, the job
  keeps the pipeline and nobody asks again (`refused` in `PipelineMovesOn`). A
  chain stays active when the answer of its dial is rejected
  (`runtime_entity.rs:2844`). A lost link is not looked at while the node has an
  active job (`nodes.rs:1106`). The end of an IDE or transfer restore names the
  node and not the job (`nodes.rs:1065`), so that the answer of a cancelled job
  moves the next one on; so do the forwards (`nodes.rs:1729`).
- *Transfers.* Several waiters see one free place and overrun the configured
  limit, up to `MAX_SFTP_CONCURRENT_TRANSFERS`. `register_background_transfer`
  reads `shutdown_state` before it inserts: a registration that races the
  shutdown leaves a pending snapshot after the sweep, which its task ends as an
  error (`SweptStaysCancelled` names it). A resumed transfer keeps its identifier
  and inherits the control, and the interruption, of a task that is still there.
  A cancel of an AI transfer before its permit finds no control. A user's cancel
  that is checked after the shutdown began counts as the shutdown's. Progress sets
  a paused snapshot active, and the snapshot of an interrupted transfer is
  overwritten when its task finishes.
- *Cloud sync.* On the desktop a credential can be edited while the rollback of a
  failed apply is pending (`connection_store.rs:2372`): its old slot is removed,
  and the rollback brings the reference back. With `LateEdits` containing
  `"credential"`, `CredentialsAvailable` is false; the command line refuses writes
  then (`write_guard.rs:38`). A device that joins by a download and settles a
  conflict in the preview counts its document as published, the choice included
  (`synchronize.rs:611`, `storage.rs:80`), and does not publish it before its next
  edit. It takes two writers and a third device: with three devices
  `NothingStranded` is false, and `causal_sync` has two. A first download from a
  cloud that has nothing of a record leaves the local record in the stores and takes
  it for the baseline (`synchronize.rs:600`), while no history has it: it is not
  published before it is edited, and a record of that name from another device
  replaces it without a conflict. So `UndisputedEditsRemain` speaks of what was
  changed since the baseline.

## 6. What is left

Not modelled, and worth it, in this order:

1. `ForwardingManager`: the five maps of `crates/oxideterm-forwarding`, create,
   stop and restart against suspension by a lost link.
2. `NodeRouter`: the connection-to-node maps, `bind_connection` and
   `resolve_connection_wait`, composed with the states of the registry; the
   cascade to descendants in `ReconnectPipeline`.
3. `ConnectionProbe`: the schedule of keepalive probes and the link-down cascade,
   on the entries of `ConnectionRegistry`.
4. `AtomicFile` with crashes, under the writes that `ApplyJournal` takes as
   atomic.

Not modelled because a model checker would show little: protocol parsers and
drivers (SSH, SFTP, FTP, tmux, ZMODEM, remote desktop), terminal emulation and
rendering, the user interface, AI providers, conversions between records, and the
vendored libraries. They are sequential, or their state is data; `PROJECT.json`
gives the reason for each part.
