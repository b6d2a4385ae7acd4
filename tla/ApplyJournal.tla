----------------------------- MODULE ApplyJournal -----------------------------
(***************************************************************************)
(* The apply of a cloud sync plan to the stores of one device, with its    *)
(* recovery journal (oxideterm-cloud-sync, sync_v3/recovery.rs and         *)
(* PreparedSync::apply in operation/synchronize.rs), and the callers that  *)
(* recover what an apply left behind: the start of the program             *)
(* (workspace/root/init.rs) and of a sync (workspace/cloud_sync/causal.rs).*)
(*                                                                         *)
(* An apply writes six stores one after the other and creates protected    *)
(* credential slots on the way.  Any of its writes may fail, before it has *)
(* replaced the file or (the directory cannot be synced) after it, and the *)
(* program may end between any two.  So may the recovery.  Apply and       *)
(* recovery run on the thread of the user interface: the user edits before *)
(* and after them, and while a recovery that failed is pending.            *)
(*                                                                         *)
(* Left out: the other sync targets of the device (recover_pending takes   *)
(* their journals one by one), the credentials of deleted profiles other   *)
(* than connections, and an apply whose scope excludes credentials.        *)
(***************************************************************************)
EXTENDS Naturals, Sequences

CONSTANTS
  Plans,       (* what the plans of an instance do with the credentials     *)
  LateEdits,   (* the user's edits while a rollback is pending, among       *)
               (* "value" and "credential"                                  *)
  MaxApplies, MaxEdits,
  MaxFaults,   (* bound: failed writes and ends of the program              *)
  None

Stores == {"connections", "forwards", "commands", "settings", "plugins", "auxiliary"}

(* Managed SSH keys, privilege credentials, and the passwords of profiles.  *)
Kinds == {"managed", "privilege", "profile"}

(* A plan replaces a credential, drops it with its connection, or keeps it. *)
Changes == {f \in [Kinds -> {"keep", "replace", "drop"}] : f["managed"] # "drop"}

Slots == Kinds \X Nat

(* The journal: a checkpoint of the stores, and what the apply has to clean *)
(* up when it is taken back or done.                                        *)
Journals ==
  [committed : BOOLEAN, noted : BOOLEAN, store : [Stores -> Nat], view : [Stores -> Nat],
   refs : [Kinds -> Slots \cup {None}], queue : SUBSET Slots,
   created : SUBSET Slots, stale : SUBSET Slots, dropped : SUBSET Slots]

ASSUME ApplyJournalAssumption ==
  /\ Plans \subseteq Changes
  /\ LateEdits \subseteq {"value", "credential"}
  /\ MaxApplies \in Nat /\ MaxEdits \in Nat /\ MaxFaults \in Nat
  /\ None \notin Slots /\ None \notin Changes
  /\ None \notin Journals /\ None \notin [Stores -> Nat]

VARIABLES
  store,      (* the content of each store: the number of its last change   *)
  refs,       (* in the connection store: the slot of each credential       *)
  queue,      (* in the connection store: pending_keychain_cleanup          *)
  slots,      (* the slots that exist in the protected stores               *)
  record,     (* replica.oxide: the contents its effective baseline is of   *)
  journal,    (* recovery.oxide, or None: the checkpoint and its progress   *)
  phase,      (* what the program is doing                                  *)
  todo,       (* the steps left of the apply or recovery it is in           *)
  reason,     (* who the recovery is for                                    *)
  view,       (* the contents the last plan was made from                   *)
  plan,       (* the change the plan makes, or None                         *)
  made,       (* the credentials the connection store in memory has, and    *)
              (* its file may not                                           *)
  local,      (* AppliedSync.local: the record to publish, or None          *)
  tidy,       (* the apply's cleanup is done: ~cleanup_pending              *)
  uploaded,   (* the contents of the last snapshot that was published       *)
  clock, applies, edits, faults

files == <<store, refs, queue, slots, record, journal>>
memory == <<phase, todo, reason, plan, made, local, tidy>>
bounds == <<clock, applies, edits, faults>>
vars == <<files, memory, view, uploaded, bounds>>

Live(r) == {r[k] : k \in Kinds} \ {None}

NothingMade == [k \in {} |-> None]

Uncommitted == journal # None /\ ~journal.committed

-----------------------------------------------------------------------------
(* The steps of an apply, in their order.  "record" persists the name of a  *)
(* slot before "create" makes it.                                           *)
Creation(k, change) ==
  IF change[k] = "replace" THEN << <<"record", k>>, <<"create", k>> >> ELSE << >>

Writes(change) ==
  Creation("managed", change)
  \o << <<"write", "connections">>, <<"write", "forwards">>, <<"write", "commands">>,
        <<"write", "settings">>, <<"write", "plugins">> >>
  \o Creation("privilege", change) \o << <<"write", "connections">> >>
  \o Creation("profile", change)
  \o << <<"write", "settings">>, <<"write", "connections">>, <<"write", "auxiliary">>,
        <<"seal", "journal">>, <<"save", "record">>, <<"commit", "journal">> >>

(* Mutant of ApplySteps: the secrets of AI and plugins are not checkpointed.*)
ApplyStepsUnnoted(change) == Writes(change)

ApplySteps(change) == << <<"note", "auxiliary">> >> \o Writes(change)

(* RecoveryJournal::recover: a committed apply is finished, another is      *)
(* taken back.                                                              *)
RecoverySteps(committed) ==
  IF committed
  THEN << <<"stale", "privilege">>, <<"stale", "managed">>, <<"stale", "connections">>,
          <<"stale", "profile">>, <<"clear", "journal">> >>
  ELSE << <<"restore", "auxiliary">>, <<"restore", "connections">>,
          <<"restore", "settings">>, <<"restore", "forwards">>,
          <<"restore", "commands">>, <<"restore", "plugins">>,
          <<"remove", "profile">>, <<"remove", "managed">>, <<"remove", "privilege">>,
          <<"save", "replica">>, <<"clear", "journal">> >>

-----------------------------------------------------------------------------
Init ==
  /\ store = [s \in Stores |-> 0]
  /\ refs = [k \in Kinds |-> <<k, 0>>]
  /\ queue = {}
  /\ slots = Live(refs)
  /\ record = store /\ journal = None
  /\ phase = "idle" /\ todo = << >> /\ reason = "none"
  /\ view = store /\ plan = None /\ made = NothingMade
  /\ local = None /\ tidy = TRUE
  /\ uploaded = store
  /\ clock = 0 /\ applies = 0 /\ edits = 0 /\ faults = 0

Fault == faults < MaxFaults /\ faults' = faults + 1

(* A step fails: an apply recovers at once, by the journal on disk; a       *)
(* recovery is given up, and what it was for goes on without it.  A start   *)
(* of the program ends with the error.                                      *)
Fail ==
  IF phase = "applying"
  THEN /\ phase' = "recovering" /\ reason' = "failed"
       /\ todo' = RecoverySteps(journal'.committed)
       /\ plan' = None
       /\ UNCHANGED tidy
  ELSE /\ phase' = CASE reason = "start" -> "down"
                     [] reason = "applied" -> "applied"
                     [] OTHER -> "idle"
       /\ tidy' = (tidy /\ reason # "applied")
       /\ reason' = "none" /\ todo' = << >>
       /\ UNCHANGED plan

(* A step of the apply or recovery.  It fails with its effect on the files  *)
(* or without it, and has an effect on the memory when it does not fail.    *)
Try(step, effect, memorised) ==
  /\ todo # << >> /\ Head(todo) = step
  /\ \/ /\ effect
        /\ made' = memorised
        /\ todo' = Tail(todo)
        /\ UNCHANGED <<phase, reason, plan, tidy, faults>>
     \/ /\ Fault
        /\ effect \/ UNCHANGED files
        /\ Fail
        /\ UNCHANGED made
  /\ UNCHANGED <<local, view, uploaded, clock, applies, edits>>

-----------------------------------------------------------------------------
(* The steps of an apply.                                                   *)

(* checkpoint_auxiliary                                                     *)
Note ==
  LET effect == /\ journal' = [journal EXCEPT !.noted = TRUE]
                /\ UNCHANGED <<store, refs, queue, slots, record>> IN
  Try(<<"note", "auxiliary">>, effect, made)

(* Mutant of RecordSlot: the name is not persisted before the slot is made. *)
RecordSlotLater(k) ==
  LET effect == UNCHANGED files IN
  Try(<<"record", k>>, effect, made)

(* record_managed_creation, record_privilege_creation and                   *)
(* record_credential_creation                                               *)
RecordSlot(k) ==
  LET effect == /\ journal' = [journal EXCEPT !.created = @ \cup {<<k, clock>>}]
                /\ UNCHANGED <<store, refs, queue, slots, record>> IN
  Try(<<"record", k>>, effect, made)

Made(k, slot) == [m \in DOMAIN made \cup {k} |-> IF m = k THEN slot ELSE made[m]]

CreateSlot(k) ==
  LET effect == /\ slots' = slots \cup {<<k, clock>>}
                /\ UNCHANGED <<store, refs, queue, record, journal>> IN
  Try(<<"create", k>>, effect, Made(k, <<k, clock>>))

(* The connection store is saved with what it has in memory.                *)
SavedRefs == [k \in Kinds |-> IF k \in DOMAIN made THEN made[k] ELSE refs[k]]

(* Mutant of Write: what is replaced goes to the cleanup queue at once.     *)
WriteQueues(s) ==
  LET effect == /\ store' = [store EXCEPT ![s] = clock]
                /\ refs' = IF s = "connections" THEN SavedRefs ELSE refs
                /\ queue' = IF s = "connections" THEN queue \cup (Live(refs) \ Live(SavedRefs))
                            ELSE queue
                /\ UNCHANGED <<slots, record, journal>> IN
  Try(<<"write", s>>, effect, made)

(* Each owner replaces its file.                                            *)
Write(s) ==
  LET effect == /\ store' = [store EXCEPT ![s] = clock]
                /\ refs' = IF s = "connections" THEN SavedRefs ELSE refs
                /\ UNCHANGED <<queue, slots, record, journal>> IN
  Try(<<"write", s>>, effect, made)

(* The slots of the checkpoint that the plan replaces, or drops.            *)
Obsolete(way) == {journal.refs[k] : k \in {m \in Kinds : plan[m] = way}} \ {None}

(* commit: the cleanup is persisted first (what was deferred to it before   *)
(* is read from a committed journal only), ...                              *)
Seal ==
  LET effect == /\ journal' = [journal EXCEPT !.stale = Obsolete("replace"),
                                              !.dropped = Obsolete("drop")]
                /\ UNCHANGED <<store, refs, queue, slots, record>> IN
  Try(<<"seal", "journal">>, effect, made)

(* ... then the record, ...                                                 *)
SaveNext ==
  LET effect == /\ record' = [s \in Stores |-> clock]
                /\ UNCHANGED <<store, refs, queue, slots, journal>> IN
  Try(<<"save", "record">>, effect, made)

(* Mutant of MarkCommitted: the mark is not persisted, and the cleanup left *)
(* to the next start.                                                       *)
MarkCommittedInMemory ==
  /\ todo # << >> /\ Head(todo) = <<"commit", "journal">>
  /\ phase' = "applied" /\ todo' = << >>
  /\ local' = [s \in Stores |-> clock]
  /\ made' = NothingMade /\ plan' = None
  /\ UNCHANGED <<files, reason, tidy, faults, view, uploaded, clock, applies, edits>>

(* ... and the mark that the apply is not taken back any more.  The old     *)
(* slots are removed as after a restart.                                    *)
MarkCommitted ==
  LET effect == /\ journal' = [journal EXCEPT !.committed = TRUE]
                /\ UNCHANGED <<store, refs, queue, slots, record>> IN
  /\ todo # << >> /\ Head(todo) = <<"commit", "journal">>
  /\ \/ /\ effect
        /\ phase' = "recovering" /\ reason' = "applied"
        /\ todo' = RecoverySteps(TRUE)
        /\ made' = NothingMade /\ plan' = None
        /\ local' = [s \in Stores |-> clock]
        /\ UNCHANGED <<tidy, faults>>
     \/ /\ Fault
        /\ effect \/ UNCHANGED files
        /\ Fail
        /\ UNCHANGED <<made, local>>
  /\ UNCHANGED <<view, uploaded, clock, applies, edits>>

-----------------------------------------------------------------------------
(* The steps of a recovery.                                                 *)

(* Each owner puts the checkpoint back, on disk first; the secrets of AI    *)
(* and plugins only if they were checkpointed.                              *)
Restore(s) ==
  LET effect ==
        /\ store' = [store EXCEPT ![s] =
                       IF s # "auxiliary" \/ journal.noted THEN journal.store[s] ELSE @]
        /\ refs' = IF s = "connections" THEN journal.refs ELSE refs
        /\ queue' = IF s = "connections" THEN journal.queue ELSE queue
        /\ UNCHANGED <<slots, record, journal>> IN
  Try(<<"restore", s>>, effect, IF s = "connections" THEN NothingMade ELSE made)

OfKind(set, k) == {slot \in set : slot[1] = k}

(* The slots the apply created; those of managed keys and privileges stay   *)
(* while they are in use.                                                   *)
RemoveCreated(k) ==
  LET kept == IF k = "profile" THEN {} ELSE Live(refs)
      effect == /\ slots' = slots \ (OfKind(journal.created, k) \ kept)
                /\ UNCHANGED <<store, refs, queue, record, journal>> IN
  Try(<<"remove", k>>, effect, made)

RestoreRecord ==
  LET effect == /\ record' = journal.view
                /\ UNCHANGED <<store, refs, queue, slots, journal>> IN
  Try(<<"save", "replica">>, effect, made)

(* Mutant of RemoveStale: a slot that is gone cannot be removed again.      *)
RemoveStaleStrict(k) ==
  LET gone == OfKind(journal.stale, k) \ Live(refs) IN
  /\ k # "profile"
  /\ todo # << >> /\ Head(todo) = <<"stale", k>>
  /\ \/ /\ gone \subseteq slots
        /\ slots' = slots \ gone
        /\ todo' = Tail(todo)
        /\ UNCHANGED <<phase, reason, plan, tidy, faults>>
     \/ /\ gone \subseteq slots /\ Fault /\ Fail
        /\ slots' = slots \ gone
     \/ /\ ~(gone \subseteq slots) /\ Fail
        /\ UNCHANGED <<slots, faults>>
  /\ UNCHANGED <<store, refs, queue, record, journal, made, local, view, uploaded, clock,
                 applies, edits>>

(* remove_synced_privilege_slots, remove_synced_managed_key_slots: the      *)
(* replaced ones, unless they are in use.                                   *)
RemoveStale(k) ==
  LET effect == /\ slots' = slots \ (OfKind(journal.stale, k) \ Live(refs))
                /\ UNCHANGED <<store, refs, queue, record, journal>> IN
  /\ k # "profile"
  /\ Try(<<"stale", k>>, effect, made)

(* A privilege slot in use is not removed, whoever asked for it.            *)
InUse == OfKind(Live(refs), "privilege")

(* finalize_saved_connections_sync_cleanup: the slots of what was dropped,  *)
(* and all that waited in the queue; those that are not removed go back to  *)
(* it, and the recovery is not done.                                        *)
FinalizeCleanup ==
  LET cleanup == (journal.dropped \cup queue) \ InUse IN
  /\ todo # << >> /\ Head(todo) = <<"stale", "connections">>
  /\ \/ /\ slots' = slots \ cleanup /\ queue' = {}
        /\ todo' = Tail(todo)
        /\ UNCHANGED <<phase, reason, plan, tidy, faults>>
     \/ \E failed \in SUBSET cleanup :
          /\ slots' = slots \ (cleanup \ failed)
          /\ queue' \in {queue, failed}
          /\ Fault /\ Fail
  /\ UNCHANGED <<store, refs, record, journal, made, local, view, uploaded, clock, applies,
                 edits>>

(* commit_profile_credentials: a slot that is not removed is queued, and    *)
(* the recovery goes on; unless the queue, when there is one, is not saved. *)
CommitCredentials ==
  LET stale == OfKind(journal.stale, "profile") \ Live(refs) IN
  /\ todo # << >> /\ Head(todo) = <<"stale", "profile">>
  /\ \/ /\ slots' = slots \ stale
        /\ todo' = Tail(todo)
        /\ UNCHANGED <<queue, phase, reason, plan, tidy, faults>>
     \/ \E failed \in SUBSET stale :
          /\ queue \cup failed # {} /\ Fault
          /\ slots' = slots \ (stale \ failed)
          /\ \/ /\ queue' = queue \cup failed
                /\ todo' = Tail(todo)
                /\ UNCHANGED <<phase, reason, plan, tidy>>
             \/ /\ queue' \in {queue, queue \cup failed}
                /\ Fail
  /\ UNCHANGED <<store, refs, record, journal, made, local, view, uploaded, clock, applies,
                 edits>>

(* clear_recovery, the last step.                                           *)
Clear ==
  /\ todo # << >> /\ Head(todo) = <<"clear", "journal">>
  /\ \/ /\ journal' = None
        /\ phase' = IF reason = "applied" THEN "applied" ELSE "idle"
        /\ reason' = "none" /\ todo' = << >>
        /\ UNCHANGED <<plan, tidy, faults>>
     \/ /\ Fault
        /\ journal' \in {journal, None}
        /\ Fail
  /\ UNCHANGED <<store, refs, queue, slots, record, made, local, view, uploaded, clock,
                 applies, edits>>

-----------------------------------------------------------------------------
(* The program.                                                             *)

Recover(why) ==
  /\ phase' = "recovering" /\ reason' = why
  /\ todo' = RecoverySteps(journal.committed)

(* The connection store is loaded, and what waits in its queue is retried,  *)
(* before the recovery.  Nobody minds if the shorter queue is not saved.    *)
Start ==
  /\ phase = "down"
  /\ \E failed \in SUBSET (queue \ InUse) :
       /\ slots' = slots \ ((queue \ InUse) \ failed)
       /\ \/ queue' = failed /\ (IF failed = {} THEN UNCHANGED faults ELSE Fault)
          \/ queue # {} /\ UNCHANGED queue /\ Fault
  /\ IF journal = None THEN phase' = "idle" /\ UNCHANGED <<reason, todo>>
                       ELSE Recover("start")
  /\ UNCHANGED <<store, refs, record, journal, plan, made, local, tidy, view, uploaded,
                 clock, applies, edits>>

(* start_causal_sync_with_direction: first what is pending is recovered.    *)
RecoverPending ==
  /\ phase = "idle" /\ journal # None
  /\ Recover("sync")
  /\ UNCHANGED <<files, plan, made, local, tidy, view, uploaded, bounds>>

(* Mutant of Plan: a recovery that is pending is not looked for.            *)
PlanAnyway(change) ==
  /\ phase = "idle" /\ applies < MaxApplies
  /\ phase' = "planned"
  /\ plan' = change /\ view' = store /\ tidy' = TRUE
  /\ applies' = applies + 1
  /\ UNCHANGED <<files, todo, reason, made, local, uploaded, clock, edits, faults>>

(* prepare_sync_with_direction refuses while a recovery is pending.         *)
Plan(change) ==
  /\ phase = "idle" /\ journal = None /\ applies < MaxApplies
  /\ phase' = "planned"
  /\ plan' = change /\ view' = store /\ tidy' = TRUE
  /\ applies' = applies + 1
  /\ UNCHANGED <<files, todo, reason, made, local, uploaded, clock, edits, faults>>

(* The preview is cancelled, or the plan is refused before the journal.     *)
Cancel ==
  /\ phase = "planned"
  /\ phase' = "idle" /\ plan' = None
  /\ UNCHANGED <<files, todo, reason, made, local, tidy, view, uploaded, bounds>>

(* A plan that changes nothing here is recorded without a journal.          *)
ApplyUnchanged ==
  /\ phase = "planned" /\ plan' = None
  /\ \/ record' = store /\ local' = store /\ phase' = "applied" /\ UNCHANGED faults
     \/ Fault /\ record' \in {record, store} /\ phase' = "idle" /\ UNCHANGED local
  /\ UNCHANGED <<store, refs, queue, slots, journal, todo, reason, made, tidy, view,
                 uploaded, clock, applies, edits>>

Checkpoint ==
  [committed |-> FALSE, noted |-> FALSE, store |-> store, refs |-> refs, queue |-> queue,
   view |-> view, created |-> {}, stale |-> {}, dropped |-> {}]

(* RecoveryJournal::begin.  When it fails there is no recovery, though the  *)
(* journal may be there.                                                    *)
Begin ==
  /\ phase = "planned" /\ journal = None
  /\ clock' = clock + 1
  /\ \/ /\ journal' = Checkpoint
        /\ phase' = "applying" /\ todo' = ApplySteps(plan)
        /\ made' = [k \in {m \in Kinds : plan[m] = "drop"} |-> None]
        /\ UNCHANGED <<plan, faults>>
     \/ /\ Fault
        /\ journal' \in {None, Checkpoint}
        /\ phase' = "idle" /\ plan' = None
        /\ UNCHANGED <<todo, made>>
  /\ UNCHANGED <<store, refs, queue, slots, record, reason, local, tidy, view, uploaded,
                 applies, edits>>

(* publish: the record is saved with the staged snapshot, and the snapshot  *)
(* uploaded; either may fail.  Not while the cleanup is pending.            *)
Publish ==
  /\ phase = "applied"
  /\ \/ UNCHANGED <<record, uploaded>>
     \/ tidy /\ record' = local /\ uploaded' \in {uploaded, local}
  /\ phase' = "idle" /\ local' = None
  /\ UNCHANGED <<store, refs, queue, slots, journal, todo, reason, plan, made, tidy, view,
                 bounds>>

(* The program ends, anywhere.                                              *)
Crash ==
  /\ phase # "down" /\ Fault
  /\ phase' = "down"
  /\ todo' = << >> /\ reason' = "none" /\ plan' = None /\ made' = NothingMade
  /\ local' = None /\ tidy' = TRUE
  /\ UNCHANGED <<files, view, uploaded, clock, applies, edits>>

(* The user edits when the thread is not in an apply or a recovery.         *)
Editing(what) ==
  /\ phase \in {"idle", "planned", "applied"} /\ edits < MaxEdits
  /\ Uncommitted => what \in LateEdits
  /\ edits' = edits + 1 /\ clock' = clock + 1
  /\ UNCHANGED <<record, journal, phase, todo, reason, plan, local, tidy, view, uploaded, applies,
                 faults>>

EditValue(s) ==
  /\ Editing("value")
  /\ store' = [store EXCEPT ![s] = clock + 1]
  /\ IF s = "connections" THEN refs' = SavedRefs /\ made' = NothingMade
                          ELSE UNCHANGED <<refs, made>>
  /\ UNCHANGED <<queue, slots>>

(* A new slot is saved, and the old one removed or queued.                  *)
EditCredential(k) ==
  LET old == {SavedRefs[k]} \ {None} IN
  /\ Editing("credential")
  /\ store' = [store EXCEPT !["connections"] = clock + 1]
  /\ refs' = [SavedRefs EXCEPT ![k] = <<k, clock + 1>>] /\ made' = NothingMade
  /\ \/ slots' = (slots \cup {<<k, clock + 1>>}) \ old /\ UNCHANGED queue
     \/ slots' = slots \cup {<<k, clock + 1>>} /\ queue' = queue \cup old

-----------------------------------------------------------------------------
Apply == \/ Note \/ Seal \/ SaveNext \/ MarkCommitted
         \/ \E k \in Kinds : RecordSlot(k) \/ CreateSlot(k)
         \/ \E s \in Stores : Write(s)

Recovery == \/ RestoreRecord \/ FinalizeCleanup \/ CommitCredentials \/ Clear
            \/ \E s \in Stores : Restore(s)
            \/ \E k \in Kinds : RemoveCreated(k) \/ RemoveStale(k)

Next == \/ Apply \/ Recovery
        \/ Start \/ RecoverPending \/ Cancel \/ ApplyUnchanged \/ Begin \/ Publish \/ Crash
        \/ \E change \in Plans : Plan(change)
        \/ \E s \in Stores : EditValue(s)
        \/ \E k \in Kinds : EditCredential(k)

Spec == Init /\ [][Next]_vars

(* Steps are taken, uploads end one way or the other, the program is        *)
(* started again, and syncs are started (by their schedule, or by the user  *)
(* who is shown the error).                                                 *)
FairSpec == /\ Spec
            /\ WF_vars(Apply) /\ WF_vars(Recovery) /\ WF_vars(Publish)
            /\ WF_vars(Start) /\ WF_vars(RecoverPending)

-----------------------------------------------------------------------------
(* Properties.                                                              *)

(* Every variable holds values of its type, and the journal is there while  *)
(* an apply or a recovery works by it.                                      *)
TypeOK ==
  /\ store \in [Stores -> Nat] /\ record \in [Stores -> Nat]
  /\ view \in [Stores -> Nat] /\ uploaded \in [Stores -> Nat]
  /\ refs \in [Kinds -> Slots \cup {None}]
  /\ queue \subseteq Slots /\ slots \subseteq Slots
  /\ journal # None =>
       /\ journal.refs \in [Kinds -> Slots \cup {None}]
       /\ journal.created \subseteq Slots
       /\ journal.stale \cup journal.dropped \cup journal.queue \subseteq Slots
  /\ phase \in {"down", "idle", "planned", "applying", "recovering", "applied"}
  /\ phase \in {"applying", "recovering"} <=> todo # << >>
  /\ phase \in {"applying", "recovering"} => journal # None
  /\ phase = "planned" => journal = None
  /\ plan \in Changes \cup {None}
  /\ local # None <=> phase = "applied" \/ reason = "applied"
  /\ plan # None <=> phase \in {"planned", "applying"}

(* What a recovery would leave: a rollback takes back the apply, except for *)
(* the secrets of AI and plugins while they are not checkpointed.           *)
Outcome ==
  IF Uncommitted
  THEN [store |-> [s \in Stores |-> IF s = "auxiliary" /\ ~journal.noted
                                    THEN store[s] ELSE journal.store[s]],
        refs |-> journal.refs, queue |-> journal.queue]
  ELSE [store |-> store, refs |-> refs, queue |-> queue]

Baseline == IF Uncommitted THEN journal.view ELSE record

(* The apply is atomic ("Write an encrypted recovery journal before         *)
(* coordinated domain mutations", "commit domain data, effective baseline,  *)
(* and replica"): whatever writes fail and wherever the program ends, the   *)
(* stores and the baseline come to the state before or the state after.     *)
Atomic == INSTANCE AtomicApply
            WITH content <- Outcome.store, refs <- Outcome.refs, baseline <- Baseline
AtomicSpec == Atomic!Spec

(* The slots of the configuration the device will have exist at any moment  *)
(* ("delete obsolete slots only after commit"): neither an apply that is    *)
(* taken back nor one that is finished leaves a reference to a secret that  *)
(* is gone.                                                                 *)
CredentialsAvailable == Live(Outcome.refs) \subseteq slots

(* No secret is left behind ("Record new protected credential slots before  *)
(* creating them"): a slot that exists is in use or somebody is going to    *)
(* remove it, the queue or the recovery that is pending.                    *)
NoLeakedSecret ==
  slots \subseteq
    Live(Outcome.refs) \cup Outcome.queue
      \cup (IF journal = None THEN {}
            ELSE IF Uncommitted THEN journal.created
            ELSE journal.stale \cup journal.dropped)

(* A device never takes back a baseline it has published: other devices     *)
(* have merged that history as its own.                                     *)
NothingPublishedIsUndone == \A s \in Stores : uploaded[s] <= Baseline[s]

(* A recovery that is pending gets done, when faults end ("Startup and CLI  *)
(* entry points recover unfinished journals").                              *)
RecoveryEnds == journal # None ~> journal = None
=============================================================================
