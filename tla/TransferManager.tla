--------------------------- MODULE TransferManager ---------------------------
(***************************************************************************)
(* The queue of SFTP transfers: SftpTransferManager (oxideterm-sftp,       *)
(* transfer_manager.rs) and the tasks that use it, of the SFTP view        *)
(* (oxideterm-gpui-app, sftp/actions/transfers.rs) and of the AI tools     *)
(* (sidebar/ai/actions/tools/executor.rs).                                 *)
(*                                                                         *)
(* A task registers a control under the identifier of its transfer, waits  *)
(* for a permit, and copies; nested helpers register the same control once *)
(* more.  A transfer that is resumed keeps its identifier, so that the     *)
(* task it had before may still be there.  Transfers of directories have a *)
(* snapshot that outlives the task.  The user pauses, resumes and cancels, *)
(* a reconnect interrupts, and the end of the session cancels them all.    *)
(*                                                                         *)
(* Left out: the bytes and the progress store, audits, the speed limit and *)
(* the parallelism within a directory, the caches of capability probes,    *)
(* and the tasks of plugins, FTP and relays.                               *)
(***************************************************************************)
EXTENDS Naturals, FiniteSets

CONSTANTS
  Tasks,
  Transfers,      (* transfer identifiers                                   *)
  Limits,         (* what the setting of concurrent transfers may be        *)
  MaxPermits,     (* MAX_SFTP_CONCURRENT_TRANSFERS                          *)
  Jobs,           (* the kinds of tasks of an instance                      *)
  MaxStarts,      (* bound: tasks that are started                          *)
  MaxRequests,    (* bound: requests of the user, the reconnect, the settings *)
  None

(* A single file of the SFTP view, a directory of it, and a directory that  *)
(* an AI tool transfers.                                                    *)
JobKinds == {"file", "directory", "agent"}

(* byUser is a history field: the user cancelled, not the shutdown.         *)
Control == [cancelled : BOOLEAN, byUser : BOOLEAN, paused : BOOLEAN,
            interrupted : BOOLEAN, owners : Nat \ {0}]

ASSUME TransferAssumption ==
  /\ IsFiniteSet(Tasks)
  /\ MaxPermits \in Nat \ {0} /\ Limits \subseteq 1 .. MaxPermits /\ Limits # {}
  /\ Jobs \subseteq JobKinds
  /\ MaxStarts \in Nat /\ MaxRequests \in Nat
  /\ None \notin Transfers /\ None \notin Control

VARIABLES
  controls,    (* the registered controls                                   *)
  snapshot,    (* background_transfers: the state of each                   *)
  shutdown,    (* shutdown_state, and how far shutdown_session_transfers is *)
  collected,   (* the controls the shutdown has still to cancel             *)
  active,      (* active_count                                              *)
  permits,     (* the permits of the semaphore that are taken               *)
  limit,       (* max_concurrent_transfers                                  *)
  pc, kind, transfer,   (* the tasks: where they are, and what they do      *)
  held,        (* the registrations a task has, itself and nested           *)
  woken,       (* the Notified future of a task has fired                   *)
  accepted,    (* what a task read of shutdown_state                        *)
  result,      (* how the copy of a task ended                              *)
  starts, requests   (* what is left of the bounds                          *)

limitVars == <<active, permits, limit>>
taskVars == <<kind, transfer, starts, requests>>
requestVars == <<pc, kind, transfer, starts, held, accepted, result>>
shutdownVars == <<shutdown, collected>>
vars == <<controls, snapshot, shutdown, collected, active, permits, limit,
          pc, kind, transfer, held, woken, accepted, result, starts, requests>>

Finished == {"Completed", "Cancelled", "Error"}

Running == shutdown = "running"

Init ==
  /\ controls = [i \in Transfers |-> None]
  /\ snapshot = [i \in Transfers |-> "None"]
  /\ shutdown = "running" /\ collected = {}
  /\ active = 0 /\ permits = 0 /\ limit \in Limits
  /\ pc = [t \in Tasks |-> "idle"]
  /\ kind = [t \in Tasks |-> "file"]
  /\ transfer = [t \in Tasks |-> None]
  /\ held = [t \in Tasks |-> 0]
  /\ woken = [t \in Tasks |-> FALSE]
  /\ accepted = [t \in Tasks |-> TRUE]
  /\ result = [t \in Tasks |-> "none"]
  /\ starts = MaxStarts /\ requests = MaxRequests

-----------------------------------------------------------------------------
(* The controls.                                                            *)

(* Mutant of NewControl: a task that comes late is not told.                *)
NewControlUnaware == [cancelled |-> FALSE, byUser |-> FALSE, paused |-> FALSE,
                      interrupted |-> FALSE, owners |-> 1]

NewControl == [cancelled |-> ~Running, byUser |-> FALSE, paused |-> FALSE,
               interrupted |-> FALSE, owners |-> 1]

(* register_owned: the first registration makes the control, under the lock *)
(* that the shutdown collects the controls with.                            *)
Joined(c) == IF c = None THEN NewControl ELSE [c EXCEPT !.owners = @ + 1]

Register(t, i) ==
  /\ controls' = [controls EXCEPT ![i] = Joined(@)]
  /\ held' = [held EXCEPT ![t] = @ + 1]

(* Mutant of Unregister: a nested helper takes the control with it.         *)
UnregisterAll(t) ==
  /\ controls' = [controls EXCEPT ![transfer[t]] = None]
  /\ held' = [held EXCEPT ![t] = @ - 1]

(* SftpTransferGuard::drop: the last owner takes the control with it.       *)
Parted(c) ==
  IF c = None \/ c.owners <= 1 THEN None ELSE [c EXCEPT !.owners = @ - 1]

Unregister(t) ==
  /\ controls' = [controls EXCEPT ![transfer[t]] = Parted(@)]
  /\ held' = [held EXCEPT ![t] = @ - 1]

Goto(t, label) == pc' = [pc EXCEPT ![t] = label]

-----------------------------------------------------------------------------
(* The tasks.                                                               *)

(* spawn_sftp_transfer_task registers before it spawns; the AI tool makes   *)
(* its snapshot first, and registers when it has a permit.                  *)
Begin(t, k, i) ==
  /\ pc[t] = "idle" /\ starts > 0 /\ k \in Jobs
  /\ starts' = starts - 1
  /\ kind' = [kind EXCEPT ![t] = k]
  /\ transfer' = [transfer EXCEPT ![t] = i]
  /\ IF k = "agent" THEN Goto(t, "announce") /\ UNCHANGED <<controls, held>>
                    ELSE Goto(t, "queue") /\ Register(t, i)
  /\ UNCHANGED <<snapshot, shutdownVars, limitVars, woken, accepted, result, requests>>

(* cleanup_background_transfers: those that ended a while ago go.  It is    *)
(* called before a registration, and before the snapshots are listed.       *)
Cleaned(gone) == [i \in Transfers |-> IF i \in gone THEN "None" ELSE snapshot[i]]

Expired == {gone \in SUBSET Transfers : \A i \in gone : snapshot[i] \in Finished}

(* register_background_transfer reads shutdown_state, and inserts later.    *)
Announce(t) ==
  /\ pc[t] = "announce"
  /\ \E gone \in Expired : snapshot' = Cleaned(gone)
  /\ accepted' = [accepted EXCEPT ![t] = Running]
  /\ Goto(t, "insert")
  /\ UNCHANGED <<controls, shutdownVars, limitVars, taskVars, held, woken, result>>

Insert(t) ==
  /\ pc[t] = "insert"
  /\ snapshot' = [snapshot EXCEPT ![transfer[t]] =
                    IF accepted[t] THEN "Pending" ELSE "Cancelled"]
  /\ accepted' = [accepted EXCEPT ![t] = TRUE]
  /\ Goto(t, IF kind[t] = "agent" THEN "queue" ELSE "activate")
  /\ UNCHANGED <<controls, shutdownVars, limitVars, taskVars, held, woken, result>>

(* acquire_permit: the Notified future is made before the limit is looked   *)
(* at, and hears every notify_waiters from then on.                         *)
Subscribe(t) ==
  /\ pc[t] = "queue"
  /\ Goto(t, "look")
  /\ UNCHANGED <<controls, snapshot, shutdownVars, limitVars, taskVars, held, woken,
                 accepted, result>>

(* Several tasks may see the same free place: the count is raised later.    *)
Look(t) ==
  /\ pc[t] = "look"
  /\ IF active < limit THEN Goto(t, "acquire") /\ woken' = [woken EXCEPT ![t] = FALSE]
                       ELSE Goto(t, "asleep") /\ UNCHANGED woken
  /\ UNCHANGED <<controls, snapshot, shutdownVars, limitVars, taskVars, held, accepted,
                 result>>

Wake(t) ==
  /\ pc[t] = "asleep" /\ woken[t]
  /\ woken' = [woken EXCEPT ![t] = FALSE]
  /\ Goto(t, "queue")
  /\ UNCHANGED <<controls, snapshot, shutdownVars, limitVars, taskVars, held, accepted,
                 result>>

Acquire(t) ==
  /\ pc[t] = "acquire" /\ permits < MaxPermits
  /\ permits' = permits + 1
  /\ Goto(t, "count")
  /\ UNCHANGED <<controls, snapshot, shutdownVars, active, limit, taskVars, held, woken,
                 accepted, result>>

Count(t) ==
  /\ pc[t] = "count"
  /\ active' = active + 1
  /\ Goto(t, IF kind[t] = "agent" THEN "enlist" ELSE "check")
  /\ UNCHANGED <<controls, snapshot, shutdownVars, permits, limit, taskVars, held, woken,
                 accepted, result>>

Enlist(t) ==
  /\ pc[t] = "enlist"
  /\ Register(t, transfer[t])
  /\ Goto(t, "vet")
  /\ UNCHANGED <<snapshot, shutdownVars, limitVars, taskVars, woken, accepted, result>>

(* The AI tool looks at the control itself, and at nothing but cancelled.   *)
Vet(t) ==
  /\ pc[t] = "vet"
  /\ IF controls[transfer[t]].cancelled
       THEN Goto(t, "quit") /\ result' = [result EXCEPT ![t] = "refused"]
       ELSE Goto(t, "activate") /\ UNCHANGED result
  /\ UNCHANGED <<controls, snapshot, shutdownVars, limitVars, taskVars, held, woken, accepted>>

(* mark_background_transfer_active, and update_background_transfer_progress *)
(* as far as the state goes: what has ended stays.                          *)
Activated(i) ==
  [snapshot EXCEPT ![i] = IF @ \in Finished \cup {"None"} THEN @ ELSE "Active"]

Activate(t) ==
  /\ pc[t] = "activate"
  /\ snapshot' = Activated(transfer[t])
  /\ Goto(t, "nest")
  /\ UNCHANGED <<controls, shutdownVars, limitVars, taskVars, held, woken, accepted, result>>

(* download_dir and its like register the control once more.                *)
Nest(t) ==
  /\ pc[t] = "nest"
  /\ Register(t, transfer[t])
  /\ Goto(t, "copy")
  /\ UNCHANGED <<snapshot, shutdownVars, limitVars, taskVars, woken, accepted, result>>

(* A part of the data is copied; the next check of the control comes.       *)
CopySome(t) ==
  /\ pc[t] = "copy"
  /\ snapshot' = IF kind[t] = "directory" THEN Activated(transfer[t]) ELSE snapshot
  /\ Goto(t, "check")
  /\ UNCHANGED <<controls, shutdownVars, limitVars, taskVars, held, woken, accepted, result>>

CopyEnds(t, outcome) ==
  /\ pc[t] = "copy"
  /\ result' = [result EXCEPT ![t] = outcome]
  /\ Goto(t, "leave")
  /\ UNCHANGED <<controls, snapshot, shutdownVars, limitVars, taskVars, held, woken, accepted>>

(* check_control is called by the task when it has its permit, and while it *)
(* copies.  A paused task stays in it.                                      *)
Ok(i) == controls[i] = None \/ ~(\/ controls[i].cancelled \/ controls[i].interrupted
                                 \/ controls[i].paused)

CheckOk(t) ==
  /\ pc[t] = "check" /\ Ok(transfer[t])
  /\ Goto(t, IF held[t] = 2 THEN "copy"
             ELSE IF kind[t] = "directory" THEN "announce" ELSE "nest")
  /\ UNCHANGED <<controls, snapshot, shutdownVars, limitVars, taskVars, held, woken,
                 accepted, result>>

(* The task has its own guard left, or that of a nested helper first.       *)
Unwind(t) == Goto(t, IF held[t] = 2 THEN "leave" ELSE "drop")

CheckInterrupted(t) ==
  LET c == controls[transfer[t]] IN
  /\ pc[t] = "check" /\ c # None /\ ~c.cancelled /\ c.interrupted
  /\ result' = [result EXCEPT ![t] = "interrupted"]
  /\ Unwind(t)
  /\ UNCHANGED <<controls, snapshot, shutdownVars, limitVars, taskVars, held, woken, accepted>>

CheckCancelled(t) ==
  LET c == controls[transfer[t]] IN
  /\ pc[t] = "check" /\ c # None /\ c.cancelled
  /\ Goto(t, "judge")
  /\ UNCHANGED <<controls, snapshot, shutdownVars, limitVars, taskVars, held, woken,
                 accepted, result>>

(* Only then does it read shutdown_state: a shutdown keeps the progress     *)
(* that a cancelled transfer gives up.                                      *)
Judge(t) ==
  /\ pc[t] = "judge"
  /\ result' = [result EXCEPT ![t] = IF Running THEN "cancelled" ELSE "shutdown"]
  /\ Unwind(t)
  /\ UNCHANGED <<controls, snapshot, shutdownVars, limitVars, taskVars, held, woken, accepted>>

(* The nested helper is done.                                               *)
WindUp(t) == Goto(t, CASE kind[t] = "file" -> "drop" [] kind[t] = "directory" -> "finish"
                       [] kind[t] = "agent" -> "quit")

Leave(t) ==
  /\ pc[t] = "leave"
  /\ Unregister(t)
  /\ WindUp(t)
  /\ UNCHANGED <<snapshot, shutdownVars, limitVars, taskVars, woken, accepted, result>>

(* The task of the SFTP view ends before a helper registers: the connection *)
(* or the protocol is not there, of which no snapshot is made, or the SFTP  *)
(* session cannot be opened.                                                *)
GiveUp(t) ==
  /\ kind[t] # "agent"
  /\ \/ pc[t] = "announce" /\ Goto(t, "drop")
     \/ pc[t] = "nest" /\ WindUp(t)
  /\ result' = [result EXCEPT ![t] = "failed"]
  /\ UNCHANGED <<controls, snapshot, shutdownVars, limitVars, taskVars, held, woken, accepted>>

(* Mutant of FinalState: the task has the last word.                        *)
FinalStateOfTask(t) ==
  CASE result[t] = "completed" -> "Completed"
    [] kind[t] = "agent" /\ result[t] \in {"refused", "cancelled"} -> "Cancelled"
    [] OTHER -> "Error"

(* finish_background_transfer: what the shutdown cancelled stays cancelled. *)
(* The SFTP view calls every failure an error.                              *)
FinalState(t) ==
  CASE snapshot[transfer[t]] = "None" -> "None"
    [] ~Running /\ snapshot[transfer[t]] = "Cancelled" -> "Cancelled"
    [] OTHER -> FinalStateOfTask(t)

(* The task is over.                                                        *)
Forget(t) ==
  /\ kind' = [kind EXCEPT ![t] = "file"] /\ transfer' = [transfer EXCEPT ![t] = None]
  /\ result' = [result EXCEPT ![t] = "none"]

Finish(t) ==
  /\ pc[t] = "finish"
  /\ snapshot' = [snapshot EXCEPT ![transfer[t]] = FinalState(t)]
  /\ IF kind[t] = "agent" THEN Goto(t, "idle") /\ Forget(t)
                          ELSE Goto(t, "drop") /\ UNCHANGED <<kind, transfer, result>>
  /\ UNCHANGED <<controls, shutdownVars, limitVars, starts, requests, held, woken, accepted>>

Notified == [t \in Tasks |-> woken[t] \/ pc[t] \in {"look", "asleep"}]

(* Mutant of Drop: nobody is told.                                          *)
DropSilently(t) ==
  /\ pc[t] = "drop"
  /\ active' = active - 1
  /\ Goto(t, "return")
  /\ UNCHANGED <<controls, snapshot, shutdownVars, permits, limit, taskVars, held, woken,
                 accepted, result>>

(* Mutant of Drop: only a transfer that went well is taken off the count.   *)
DropCompleted(t) ==
  /\ pc[t] = "drop"
  /\ active' = IF result[t] = "completed" THEN active - 1 ELSE active
  /\ woken' = Notified
  /\ Goto(t, "return")
  /\ UNCHANGED <<controls, snapshot, shutdownVars, permits, limit, taskVars, held, accepted,
                 result>>

(* SftpTransferPermit::drop, before its semaphore permit is given back.     *)
Drop(t) ==
  /\ pc[t] = "drop"
  /\ active' = IF active = 0 THEN 0 ELSE active - 1
  /\ woken' = Notified
  /\ Goto(t, "return")
  /\ UNCHANGED <<controls, snapshot, shutdownVars, permits, limit, taskVars, held, accepted,
                 result>>

Return(t) ==
  /\ pc[t] = "return"
  /\ permits' = permits - 1
  /\ Goto(t, IF kind[t] = "agent" THEN "finish" ELSE "quit")
  /\ UNCHANGED <<controls, snapshot, shutdownVars, active, limit, taskVars, held, woken,
                 accepted, result>>

(* The task gives its own registration back: the SFTP view's when it is     *)
(* done, the AI tool's before its permit.                                   *)
Quit(t) ==
  /\ pc[t] = "quit"
  /\ Unregister(t)
  /\ IF kind[t] = "agent" THEN Goto(t, "drop") /\ UNCHANGED <<kind, transfer, result>>
                          ELSE Goto(t, "idle") /\ Forget(t)
  /\ UNCHANGED <<snapshot, shutdownVars, limitVars, starts, requests, woken, accepted>>

-----------------------------------------------------------------------------
(* The user, the reconnect and the settings.                                *)

Asked == requests > 0 /\ requests' = requests - 1

Cancel(i) ==
  /\ Asked
  /\ controls[i] # None
  /\ controls' = [controls EXCEPT ![i].cancelled = TRUE, ![i].byUser = TRUE]
  /\ UNCHANGED <<snapshot, shutdownVars, limitVars, woken, requestVars>>

Pause(i) ==
  /\ Asked
  /\ controls[i] # None
  /\ controls' = [controls EXCEPT ![i].paused = TRUE]
  /\ snapshot' = [snapshot EXCEPT ![i] =
                    IF @ \in Finished \cup {"None"} THEN @ ELSE "Paused"]
  /\ UNCHANGED <<shutdownVars, limitVars, woken, requestVars>>

Resume(i) ==
  /\ controls[i] # None
  /\ controls' = [controls EXCEPT ![i].paused = FALSE]
  /\ snapshot' = [snapshot EXCEPT ![i] = IF @ = "Paused" THEN "Pending" ELSE @]
  /\ UNCHANGED <<shutdownVars, limitVars, woken, requests, requestVars>>

(* interrupt, for each transfer of a node whose link is lost: also one that *)
(* has a snapshot only.                                                     *)
Interrupt(i) ==
  /\ Asked
  /\ controls' = [controls EXCEPT ![i] =
                    IF @ = None THEN None ELSE [@ EXCEPT !.interrupted = TRUE]]
  /\ snapshot' = [snapshot EXCEPT ![i] =
                    IF @ \in Finished \cup {"None"} THEN @ ELSE "Error"]
  /\ UNCHANGED <<shutdownVars, limitVars, woken, requestVars>>

SetLimit(m) ==
  /\ Asked
  /\ limit' = m
  /\ woken' = Notified
  /\ UNCHANGED <<controls, snapshot, shutdownVars, active, permits, requestVars>>

-----------------------------------------------------------------------------
(* shutdown_session_transfers: the state first, then the controls that are  *)
(* registered, then the snapshots.  Its last state, after the grace period, *)
(* is told from the one before by nobody.                                   *)

(* Mutant of BeginShutdown: the state is set when the controls are          *)
(* cancelled already.                                                       *)
BeginShutdownLate ==
  LET told(i) == controls[i] = None \/ controls[i].cancelled IN
  /\ Running
  /\ shutdown' = IF \A i \in Transfers : told(i) THEN "marked" ELSE "running"
  /\ controls' = [i \in Transfers |->
                    IF told(i) THEN controls[i] ELSE [controls[i] EXCEPT !.cancelled = TRUE]]
  /\ UNCHANGED <<snapshot, collected, limitVars, woken, requests, requestVars>>

BeginShutdown ==
  /\ Running
  /\ shutdown' = "marked"
  /\ UNCHANGED <<controls, snapshot, collected, limitVars, woken, requests,
                 requestVars>>

Collect ==
  /\ shutdown = "marked"
  /\ shutdown' = "collected"
  /\ collected' = {i \in Transfers : controls[i] # None}
  /\ UNCHANGED <<controls, snapshot, limitVars, woken, requests, requestVars>>

(* A control that was made meanwhile was cancelled from the start, so that  *)
(* it does not matter whose control of that name this is.                   *)
CancelCollected(i) ==
  /\ i \in collected
  /\ collected' = collected \ {i}
  /\ controls' = [controls EXCEPT ![i] =
                    IF @ = None THEN None ELSE [@ EXCEPT !.cancelled = TRUE]]
  /\ UNCHANGED <<snapshot, shutdown, limitVars, woken, requests, requestVars>>

Sweep ==
  /\ shutdown = "collected" /\ collected = {}
  /\ shutdown' = "swept"
  /\ snapshot' = [i \in Transfers |-> IF snapshot[i] \in Finished \cup {"None"}
                                      THEN snapshot[i] ELSE "Cancelled"]
  /\ UNCHANGED <<controls, collected, limitVars, woken, requests, requestVars>>

-----------------------------------------------------------------------------
Step(t) ==
  \/ Announce(t) \/ Insert(t) \/ Subscribe(t) \/ Look(t) \/ Wake(t) \/ Acquire(t)
  \/ Count(t) \/ Enlist(t) \/ Vet(t) \/ Activate(t) \/ Nest(t) \/ CopySome(t)
  \/ CheckOk(t) \/ CheckInterrupted(t) \/ CheckCancelled(t) \/ Judge(t) \/ Leave(t)
  \/ GiveUp(t) \/ Finish(t) \/ Drop(t) \/ Return(t) \/ Quit(t)
  \/ \E outcome \in {"completed", "failed"} : CopyEnds(t, outcome)

Request(i) == Cancel(i) \/ Pause(i) \/ Resume(i) \/ Interrupt(i)

Shutdown ==
  BeginShutdown \/ Collect \/ Sweep \/ \E i \in Transfers : CancelCollected(i)

Next ==
  \/ \E t \in Tasks, k \in JobKinds, i \in Transfers : Begin(t, k, i)
  \/ \E t \in Tasks : Step(t)
  \/ \E i \in Transfers : Request(i)
  \/ \E m \in Limits : SetLimit(m)
  \/ Shutdown

Spec == Init /\ [][Next]_vars

(* The runtime runs every task, and a copy that is not stopped comes to an  *)
(* end.                                                                     *)
FairSpec ==
  Spec /\ \A t \in Tasks :
            /\ WF_vars(Step(t))
            /\ SF_vars(\E outcome \in {"completed", "failed"} : CopyEnds(t, outcome))

-----------------------------------------------------------------------------
(* Properties.                                                              *)

Labels ==
  {"idle", "announce", "insert", "queue", "look", "asleep", "acquire", "count", "enlist",
   "vet", "activate", "nest", "copy", "check", "judge", "leave", "finish", "drop",
   "return", "quit"}

(* Every variable holds values of its type.                                 *)
TypeOK ==
  /\ controls \in [Transfers -> Control \cup {None}]
  /\ snapshot \in [Transfers -> Finished \cup {"None", "Pending", "Active", "Paused"}]
  /\ shutdown \in {"running", "marked", "collected", "swept"}
  /\ collected \subseteq Transfers
  /\ active \in Nat /\ permits \in Nat /\ limit \in Limits
  /\ pc \in [Tasks -> Labels] /\ kind \in [Tasks -> JobKinds]
  /\ transfer \in [Tasks -> Transfers \cup {None}]
  /\ held \in [Tasks -> 0 .. 2]
  /\ woken \in [Tasks -> BOOLEAN] /\ accepted \in [Tasks -> BOOLEAN]
  /\ result \in [Tasks -> {"none", "completed", "failed", "refused", "interrupted",
                           "cancelled", "shutdown"}]
  /\ starts \in 0 .. MaxStarts /\ requests \in 0 .. MaxRequests

(* A control is registered exactly as long as a task owns it, and counts    *)
(* its owners ("Nested transfer helpers share the task-level control so a   *)
(* queued cancellation cannot be replaced when the data path starts",       *)
(* register_owned), also when two tasks have one transfer.                  *)
Registrations(i) == {r \in Tasks \X {1, 2} : transfer[r[1]] = i /\ r[2] <= held[r[1]]}

ControlsOwned ==
  \A i \in Transfers :
    Cardinality(Registrations(i)) = IF controls[i] = None THEN 0 ELSE controls[i].owners

(* Once the shutdown has told those that were registered, nobody is left    *)
(* that was not told ("A producer racing final session shutdown must not    *)
(* start new work", register_owned).                                        *)
ShutdownReachesAll ==
  shutdown = "swept"
    => \A i \in Transfers : controls[i] # None => controls[i].cancelled

(* A transfer that no user cancelled does not give up its progress and its  *)
(* partial files ("Application shutdown stops live I/O but keeps resumable  *)
(* progress; an explicit user cancellation still removes partial targets",  *)
(* check_control).                                                          *)
ShutdownKeepsProgress ==
  \A t \in Tasks :
    result[t] = "cancelled" /\ held[t] > 0 => controls[transfer[t]].byUser

(* The tasks that hold a permit of the semaphore, and those that count.     *)
HasPermit(t) ==
  \/ pc[t] \in {"count", "enlist", "vet", "activate", "nest", "copy", "check", "judge",
                "leave", "drop", "return"}
  \/ pc[t] \in {"announce", "insert", "finish"} /\ kind[t] # "agent"
  \/ pc[t] = "quit" /\ kind[t] = "agent"

Counts(t) == HasPermit(t) /\ pc[t] \notin {"count", "return"}

(* The count that the limit is compared with is the number of tasks at      *)
(* work, on every path out of them, and never above the permits that are    *)
(* out, nor those above MAX_SFTP_CONCURRENT_TRANSFERS: the limit itself is  *)
(* overrun when several tasks see one free place.                           *)
PermitsExact ==
  /\ active = Cardinality({t \in Tasks : Counts(t)})
  /\ permits = Cardinality({t \in Tasks : HasPermit(t)})
  /\ permits <= MaxPermits

(* What the shutdown has cancelled stays cancelled, whatever its task comes *)
(* to ("Session exit is an explicit cancellation, not a resumable transport *)
(* error", shutdown_session_transfers), unless a task that asked before the *)
(* shutdown registers it anew.                                              *)
SweptStaysCancelled ==
  [][\A i \in Transfers :
       shutdown = "swept" /\ snapshot[i] = "Cancelled"
       => \/ snapshot'[i] \in {"Cancelled", "None"}
          \/ \E t \in Tasks : Insert(t) /\ transfer[t] = i]_vars

(* A task in the queue gets its turn, however the limit is changed and the  *)
(* permits come back, unless a paused transfer keeps one.                   *)
Waiting(t) == pc[t] \in {"queue", "look", "asleep", "acquire"}

QueueMoves ==
  \A t \in Tasks :
    Waiting(t) ~> \/ ~Waiting(t)
                  \/ \E u \in Tasks : /\ HasPermit(u) /\ controls[transfer[u]] # None
                                      /\ controls[transfer[u]].paused
=============================================================================
