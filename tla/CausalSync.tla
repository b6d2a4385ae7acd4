----------------------------- MODULE CausalSync -----------------------------
(***************************************************************************)
(* Cloud sync between devices: the causal replicas of oxideterm-cloud-sync *)
(* (sync_v3/replica.rs, sync_v3/storage.rs) and the coordinator that       *)
(* prepares, applies and publishes them (operation/synchronize.rs).        *)
(*                                                                         *)
(* Every device keeps a document of writes (a multi-value register for     *)
(* each field), the effective values it last left in its stores, and the   *)
(* snapshots it has published or seen.  A sync captures what the user      *)
(* changed, reads the latest snapshot of every writer, and applies the     *)
(* merge to values read again, since the user goes on editing meanwhile.   *)
(* An upload that fails is retried with the same bytes.  The desktop       *)
(* (workspace/cloud_sync/causal.rs) previews the whole cloud and settles   *)
(* the direction afterwards; the command line and the MCP tools merge.     *)
(*                                                                         *)
(* One resource stands for all of them: writes to different resources do   *)
(* not meet.  It has a presence and one more field, its name.  Left out:   *)
(* the scope and the selection of resources, the upgrade of an older       *)
(* format, the change of a password, the removal of superseded snapshots,  *)
(* and what happens inside an apply, which is ApplyJournal's subject.      *)
(***************************************************************************)
EXTENDS Naturals, Sequences, FiniteSets

CONSTANTS
  Devices,
  Names,          (* the values of the field                                *)
  Initial,        (* what the devices may be configured with when they join *)
  FrontEnds,      (* who drives the coordinator of a device: the desktop,   *)
                  (* with its previews and directions, or a command (CLI,   *)
                  (* MCP tool), or both, one at a time                      *)
  MaxDecisions,   (* bound: edits, choices and directions                   *)
  Absent          (* the resource does not exist; also: no plan, no choice  *)

SyncDirection == {"Merge", "Download", "Upload"}

Configs == Names \cup {Absent}

ASSUME CausalSyncAssumption ==
  /\ IsFiniteSet(Devices)
  /\ Absent \notin Names
  /\ Names \cap {"kept", "gone"} = {}
  /\ Absent \notin {"kept", "gone"}
  /\ Initial \subseteq [Devices -> Configs]
  /\ FrontEnds \in [Devices -> SUBSET {"desktop", "command"}]
  /\ MaxDecisions \in Nat

VARIABLES
  writes,      (* the writes each device ever made, by device; the identity *)
               (* of a write is its device and its place                    *)
  config,      (* what the device's own stores hold                         *)
  document,    (* LocalReplica.snapshot: the writes the device knows        *)
  effective,   (* LocalReplica.effective                                    *)
  sequence,    (* LocalReplica.next_sequence                                *)
  pending,     (* LocalReplica.pending: a staged snapshot, or none          *)
  published,   (* LocalReplica.published_document, or none                  *)
  observed,    (* LocalReplica.observed: a sequence number for each writer  *)
  cloud,       (* the snapshots of each writer, by sequence number          *)
  phase, plan, (* where the device's coordinator is, and its PreparedSync   *)
  decisions    (* what is left of the bound                                 *)

localVars == <<document, effective, sequence, pending, published, observed>>
vars == <<writes, config, document, effective, sequence, pending, published,
          observed, cloud, phase, plan, decisions>>

NoPlan == [direction |-> "none"]

-----------------------------------------------------------------------------
(* A replica is the table of writes and the document of one device.         *)

Replica(d) == [table |-> writes, doc |-> document[d]]

WriteOf(r, i) == r.table[i[1]][i[2]]

(* The candidates of a register: the writes that no write replaced.         *)
Candidates(r, field) ==
  {i \in r.doc : /\ WriteOf(r, i).field = field
                 /\ \A j \in r.doc : i \notin WriteOf(r, j).over}

CandidateValues(r, field) == {WriteOf(r, i).value : i \in Candidates(r, field)}

Disputed(r, field) == Cardinality(CandidateValues(r, field)) > 1

(* SyncReplica::write: a write replaces the candidates it knows.  Its base, *)
(* a history field, is the value its user saw; Absent when the user had the *)
(* whole record replaced or restored.                                       *)
Put(r, d, field, value, base) ==
  [table |-> [r.table EXCEPT ![d] =
                Append(@, [field |-> field, value |-> value,
                           over |-> Candidates(r, field), base |-> base])],
   doc |-> r.doc \cup {<<d, Len(r.table[d]) + 1>>}]

(* The conflicts that are reported: one about presence hides the others,    *)
(* and nobody is asked about the fields of a deleted record.                *)
Conflicts(r) ==
  {field \in {"presence", "name"} :
     /\ Disputed(r, field)
     /\ field = "name" => /\ ~Disputed(r, "presence")
                          /\ "gone" \notin CandidateValues(r, "presence")}

(* SyncReplica::capture_local: what changed since the baseline becomes a    *)
(* write, unless the field is in conflict; a change of a field reaffirms    *)
(* the presence of the record.                                              *)
Capture(r, d, baseline, current) ==
  LET named == IF "name" \in Conflicts(r) THEN r
               ELSE Put(r, d, "name", current, baseline)
      unchanged == baseline # Absent /\ "name" \in Conflicts(r) IN
  IF baseline = current \/ "presence" \in Conflicts(r) THEN r
  ELSE IF current = Absent THEN Put(r, d, "presence", "gone", "kept")
  ELSE IF unchanged THEN r
  ELSE Put(named, d, "presence", "kept", IF baseline = Absent THEN Absent ELSE "kept")

(* Mutant of Materialize: a record that exists here keeps its local value.  *)
MaterializeNew(r, local) ==
  LET presence == CandidateValues(r, "presence")
      names == CandidateValues(r, "name") IN
  CASE Cardinality(presence) # 1 -> local
    [] presence = {"gone"} -> Absent
    [] presence = {"kept"} /\ local = Absent /\ Cardinality(names) = 1
         -> CHOOSE n \in names : TRUE
    [] OTHER -> local

(* SyncReplica::materialize: a field in conflict keeps the local value, and *)
(* a record that is new here waits until it has no conflict.                *)
Materialize(r, local) ==
  LET presence == CandidateValues(r, "presence")
      names == CandidateValues(r, "name") IN
  CASE Cardinality(presence) # 1 -> local
    [] presence = {"gone"} -> Absent
    [] presence = {"kept"} /\ Cardinality(names) = 1 -> CHOOSE n \in names : TRUE
    [] OTHER -> local

(* SyncReplica::replace_fields: the given values replace all candidates.    *)
ReplaceFields(r, d, values) ==
  IF values # Absent
  THEN Put(Put(r, d, "presence", "kept", Absent), d, "name", values, Absent)
  ELSE IF CandidateValues(r, "presence") # {}
  THEN Put(r, d, "presence", "gone", Absent)
  ELSE r

(* SyncReplica::resolve                                                     *)
Resolve(r, d, choice) ==
  IF choice = Absent THEN r ELSE Put(r, d, choice.field, choice.value, Absent)

-----------------------------------------------------------------------------
Init ==
  /\ writes = [d \in Devices |-> << >>]
  /\ config \in Initial
  /\ document = [d \in Devices |-> {}]
  /\ effective = [d \in Devices |-> Absent]
  /\ sequence = [d \in Devices |-> 1]
  /\ pending = [d \in Devices |-> {}]
  /\ published = [d \in Devices |-> {}]
  /\ observed = [d \in Devices |-> [w \in Devices |-> 0]]
  /\ cloud = [d \in Devices |-> << >>]
  /\ phase = [d \in Devices |-> "idle"]
  /\ plan = [d \in Devices |-> NoPlan]
  /\ decisions = MaxDecisions

(* The user edits, deletes or restores the record, whatever the coordinator *)
(* is doing.                                                                *)
Edit(d, c) ==
  /\ decisions > 0 /\ c # config[d]
  /\ config' = [config EXCEPT ![d] = c]
  /\ decisions' = decisions - 1
  /\ UNCHANGED <<writes, localVars, cloud, phase, plan>>

(* The snapshots a plan reads: the latest of each writer.  A command skips  *)
(* those that were observed before; the desktop offers directional previews *)
(* and needs the complete remote view, whatever it is asked for.            *)
Latest(d, front) ==
  [w \in Devices |-> IF front = "command" /\ observed[d][w] = Len(cloud[w])
                     THEN 0 ELSE Len(cloud[w])]

RemoteDocument(seen) ==
  UNION {cloud[w][seen[w]] : w \in {v \in Devices : seen[v] > 0}}

HasRemote(seen) == \E w \in Devices : seen[w] > 0

FirstSync(d) == sequence[d] = 1 /\ \A w \in Devices : observed[d][w] = 0

(* receive_causal_plan: with an empty cloud the desktop uploads, and the    *)
(* first sync of a device takes the cloud's side, whatever was asked for.   *)
Directed(d, front, asked, seen) ==
  IF front = "command" THEN "Merge"
  ELSE IF ~HasRemote(seen) THEN "Upload"
  ELSE IF FirstSync(d) THEN "Download" ELSE asked

(* prepare_sync_with_direction: the capture stays in the plan.  A download  *)
(* somebody asked for costs a decision, since it writes anew each time.     *)
Prepare(d, front, asked) ==
  LET r == Capture(Replica(d), d, effective[d], config[d])
      seen == Latest(d, front)
      direction == Directed(d, front, asked, seen)
      costs == IF direction = "Download" /\ ~FirstSync(d) THEN 1 ELSE 0 IN
  /\ phase[d] = "idle" /\ front \in FrontEnds[d]
  /\ decisions >= costs
  /\ decisions' = decisions - costs
  /\ writes' = r.table
  /\ plan' = [plan EXCEPT ![d] =
                [front |-> front, direction |-> direction, doc |-> r.doc,
                 effective |-> config[d], seen |-> seen, choice |-> Absent]]
  /\ phase' = [phase EXCEPT ![d] = "planned"]
  /\ UNCHANGED <<config, localVars, cloud>>

(* choose_cloud_sync_direction: the preview is turned, and its choices are  *)
(* dropped; with an empty cloud there is only the upload.                   *)
Turn(d, direction) ==
  /\ phase[d] = "planned" /\ plan[d].front = "desktop"
  /\ direction # plan[d].direction /\ decisions > 0
  /\ direction # "Upload" => HasRemote(plan[d].seen)
  /\ plan' = [plan EXCEPT ![d].direction = direction, ![d].choice = Absent]
  /\ decisions' = decisions - 1
  /\ UNCHANGED <<writes, config, localVars, cloud, phase>>

(* Mutant of Merged: the edits are captured after the merge.                *)
MergedFirst(d, values) ==
  LET p == plan[d]
      r == [table |-> writes, doc |-> p.doc \cup RemoteDocument(p.seen)] IN
  IF p.direction = "Download"
  THEN [table |-> writes, doc |-> RemoteDocument(p.seen)]
  ELSE IF p.direction = "Upload" THEN r
  ELSE Capture(r, d, p.effective, values)

(* Mutant of Merged: an upload does not take up what it has read.           *)
MergedUnread(d, values) ==
  LET p == plan[d]
      remote == RemoteDocument(p.seen)
      own == Capture([table |-> writes, doc |-> p.doc], d, p.effective, values) IN
  IF p.direction = "Download" THEN [table |-> writes, doc |-> remote]
  ELSE IF p.direction = "Upload" THEN [table |-> writes, doc |-> p.doc]
  ELSE [table |-> own.table, doc |-> own.doc \cup remote]

(* planned_replica, before the choices of the user are written.             *)
Merged(d, values) ==
  LET p == plan[d]
      remote == RemoteDocument(p.seen)
      own == Capture([table |-> writes, doc |-> p.doc], d, p.effective, values) IN
  IF p.direction = "Download" THEN [table |-> writes, doc |-> remote]
  ELSE IF p.direction = "Upload" THEN [table |-> writes, doc |-> p.doc \cup remote]
  ELSE [table |-> own.table, doc |-> own.doc \cup remote]

(* choose_candidate: the user settles a conflict of the preview; a command  *)
(* can only prefer the local value (choose_local_conflicts).                *)
Choose(d) ==
  LET p == plan[d]
      r == Merged(d, p.effective)
      local(field) == IF p.effective = Absent THEN {}
                      ELSE IF field = "presence" THEN {"kept"} ELSE {p.effective} IN
  /\ phase[d] = "planned" /\ p.direction # "Upload"
  /\ p.choice = Absent /\ decisions > 0
  /\ \E field \in Conflicts(r) : \E value \in CandidateValues(r, field) :
       /\ p.front = "command" => value \in local(field)
       /\ plan' = [plan EXCEPT ![d].choice =
                     [field |-> field, value |-> value, over |-> Candidates(r, field)]]
  /\ decisions' = decisions - 1
  /\ UNCHANGED <<writes, config, localVars, cloud, phase>>

(* apply: what the plan comes to, with the live values of the stores.       *)
Chosen(d) ==
  LET r == Merged(d, config[d]) IN
  IF plan[d].direction = "Upload" THEN ReplaceFields(r, d, config[d])
  ELSE Resolve(r, d, plan[d].choice)

(* A download keeps the history the device has beyond it, and writes what   *)
(* it leaves in the stores over it.                                         *)
Combined(d, r, desired) ==
  IF plan[d].direction = "Download" /\ ~FirstSync(d)
  THEN ReplaceFields([table |-> r.table, doc |-> r.doc \cup plan[d].doc], d, desired)
  ELSE r

(* A choice is refused when the candidates changed since the preview, a     *)
(* download while conflicts are left, and the plan of a command when the    *)
(* stores changed under it: the MCP tool compares them, and the CLI holds   *)
(* the locks of the desktop meanwhile.                                      *)
Applicable(d) ==
  LET p == plan[d] IN
  /\ p.choice # Absent
       => Candidates(Merged(d, config[d]), p.choice.field) = p.choice.over
  /\ p.direction = "Download" => Conflicts(Chosen(d)) = {}
  /\ p.front = "command" => config[d] = p.effective

NeedsPublication(d) == pending[d] # {} \/ published[d] # {document[d]}

(* The publish loop goes on while there is something to publish.            *)
Publishing(d, publish) ==
  phase' = [phase EXCEPT ![d] = IF publish /\ NeedsPublication(d)' THEN "applied" ELSE "idle"]

Apply(d) ==
  LET desired == Materialize(Chosen(d), config[d])
      r == Combined(d, Chosen(d), desired)
      p == plan[d] IN
  /\ phase[d] = "planned" /\ Applicable(d)
  /\ writes' = r.table
  /\ config' = [config EXCEPT ![d] = desired]
  /\ document' = [document EXCEPT ![d] = r.doc]
  /\ effective' = [effective EXCEPT ![d] = desired]
  /\ observed' = [observed EXCEPT ![d] =
                    [w \in Devices |-> IF p.seen[w] > 0 THEN p.seen[w] ELSE @[w]]]
  /\ published' = IF p.direction = "Download" /\ FirstSync(d)
                    THEN [published EXCEPT ![d] = {r.doc}] ELSE published
  /\ plan' = [plan EXCEPT ![d] = NoPlan]
  /\ UNCHANGED <<sequence, pending, cloud, decisions>>
  /\ Publishing(d, p.direction # "Download")

(* The writes that only a dropped plan knew are gone.                       *)
Kept(d) ==
  LET known == {k \in 1 .. Len(writes[d]) : <<d, k>> \in document[d]} IN
  IF known = {} THEN << >>
  ELSE SubSeq(writes[d], 1, CHOOSE k \in known : \A m \in known : m <= k)

DropPlan(d) ==
  /\ phase' = [phase EXCEPT ![d] = "idle"]
  /\ plan' = [plan EXCEPT ![d] = NoPlan]
  /\ writes' = [writes EXCEPT ![d] = Kept(d)]
  /\ UNCHANGED <<config, localVars, cloud>>

ApplyFails(d) ==
  /\ phase[d] = "planned" /\ ~Applicable(d)
  /\ DropPlan(d)
  /\ UNCHANGED decisions

(* The preview is cancelled, the transfer fails, or the program ends: what  *)
(* was saved stays.                                                         *)
Abandon(d) ==
  /\ phase[d] # "idle" /\ decisions > 0
  /\ DropPlan(d)
  /\ decisions' = decisions - 1

-----------------------------------------------------------------------------
(* publish                                                                  *)

(* Mutant of Stage: a pending snapshot is made anew under its old number.   *)
StageAgain(d) ==
  /\ phase[d] = "applied" /\ pending[d] # {document[d]}
  /\ pending' = [pending EXCEPT ![d] = {document[d]}]
  /\ sequence' = IF pending[d] = {} THEN [sequence EXCEPT ![d] = @ + 1] ELSE sequence
  /\ UNCHANGED <<writes, config, document, effective, published, observed, cloud,
                 phase, plan, decisions>>

(* stage_publication: the sequence number and the bytes are saved first.    *)
Stage(d) ==
  /\ phase[d] = "applied" /\ pending[d] = {}
  /\ pending' = [pending EXCEPT ![d] = {document[d]}]
  /\ sequence' = [sequence EXCEPT ![d] = @ + 1]
  /\ UNCHANGED <<writes, config, document, effective, published, observed, cloud,
                 phase, plan, decisions>>

(* publish_replica: nothing is written when the object is there already.    *)
Upload(d) ==
  /\ phase[d] = "applied"
  /\ \E snapshot \in pending[d] :
       cloud' = IF Len(cloud[d]) < sequence[d] - 1
                THEN [cloud EXCEPT ![d] = Append(@, snapshot)] ELSE cloud
  /\ phase' = [phase EXCEPT ![d] = "uploaded"]
  /\ UNCHANGED <<writes, config, localVars, plan, decisions>>

(* Mutant of Confirm: what is acknowledged is the present document.         *)
ConfirmPresent(d) ==
  /\ phase[d] = "uploaded"
  /\ pending' = [pending EXCEPT ![d] = {}]
  /\ published' = [published EXCEPT ![d] = {document[d]}]
  /\ observed' = [observed EXCEPT ![d][d] = sequence[d] - 1]
  /\ UNCHANGED <<writes, config, document, effective, sequence, cloud, plan, decisions>>
  /\ Publishing(d, TRUE)

(* confirm_publication                                                      *)
Confirm(d) ==
  /\ phase[d] = "uploaded"
  /\ pending' = [pending EXCEPT ![d] = {}]
  /\ published' = [published EXCEPT ![d] = pending[d]]
  /\ observed' = [observed EXCEPT ![d][d] = sequence[d] - 1]
  /\ UNCHANGED <<writes, config, document, effective, sequence, cloud, plan, decisions>>
  /\ Publishing(d, TRUE)

-----------------------------------------------------------------------------
Next ==
  \E d \in Devices :
    \/ \E c \in Configs : Edit(d, c)
    \/ \E front \in FrontEnds[d], asked \in {"Merge", "Download"} : Prepare(d, front, asked)
    \/ \E direction \in SyncDirection : Turn(d, direction)
    \/ Choose(d) \/ Apply(d) \/ ApplyFails(d) \/ Abandon(d)
    \/ Stage(d) \/ Upload(d) \/ Confirm(d)

Spec == Init /\ [][Next]_vars

-----------------------------------------------------------------------------
(* Properties.                                                              *)

(* Every variable holds values of its type; what is staged or published is  *)
(* part of the document, and a device has a plan exactly while it previews. *)
TypeOK ==
  /\ DOMAIN writes = Devices
  /\ \A d \in Devices : \A k \in 1 .. Len(writes[d]) :
       LET w == writes[d][k] IN
       /\ w.field \in {"presence", "name"}
       /\ w.value \in IF w.field = "name" THEN Names ELSE {"kept", "gone"}
       /\ \A i \in w.over : i[1] \in Devices /\ i[2] \in 1 .. Len(writes[i[1]])
  /\ config \in [Devices -> Configs]
  /\ effective \in [Devices -> Configs]
  /\ \A d \in Devices : \A i \in document[d] :
       i[1] \in Devices /\ i[2] \in 1 .. Len(writes[i[1]])
  /\ sequence \in [Devices -> Nat \ {0}]
  /\ \A d \in Devices : \A s \in pending[d] \cup published[d] : s \subseteq document[d]
  /\ \A d, w \in Devices : observed[d][w] \in 0 .. Len(cloud[w])
  /\ phase \in [Devices -> {"idle", "planned", "applied", "uploaded"}]
  /\ \A d \in Devices : plan[d] = NoPlan <=> phase[d] # "planned"
  /\ decisions \in 0 .. MaxDecisions

(* A user's edit replaces the value that user saw and no other ("the        *)
(* current local value stays in use until explicit resolution",             *)
(* docs/development/cloud-sync-v3.md): an edit made without knowledge of    *)
(* another device's write never takes that write's place, whatever          *)
(* snapshots arrive between the capture, the preview and the apply.         *)
NoBlindOverwrite ==
  \A d \in Devices : \A k \in 1 .. Len(writes[d]) :
    LET w == writes[d][k] IN
    w.base # Absent => \A i \in w.over : writes[i[1]][i[2]].value = w.base

(* The baseline a device compares its stores with is what the causal        *)
(* history says, wherever the history says one thing (capture_local,        *)
(* "Compare against what actually reached the domain stores"): otherwise    *)
(* the next sync would take a merge for an edit of the user, and undo it    *)
(* on every device.                                                         *)
BaselineIsHistory ==
  \A d \in Devices :
    LET presence == CandidateValues(Replica(d), "presence")
        names == CandidateValues(Replica(d), "name") IN
    /\ presence = {"gone"} => effective[d] = Absent
    /\ presence = {"kept"} /\ Cardinality(names) = 1 => effective[d] \in names

(* A snapshot that is marked as observed, and will be skipped from now on,  *)
(* has been merged ("Observed versions avoid repeated downloads").          *)
ObservedIsMerged ==
  \A d, w \in Devices :
    observed[d][w] > 0 => cloud[w][observed[d][w]] \subseteq document[d]

(* A device that sees nothing to publish holds no write that is only its    *)
(* own: what a lost upload left behind is not forgotten when a later sync   *)
(* retries it.                                                              *)
NothingStranded ==
  \A d \in Devices :
    ~NeedsPublication(d)
      => \A i \in document[d] : \E w \in Devices : \E k \in 1 .. Len(cloud[w]) : i \in cloud[w][k]

(* A retry uploads the very snapshot that may have been uploaded before     *)
(* ("The same operation never generates new ciphertext on retry",           *)
(* publish_replica).                                                        *)
RetryIsExact ==
  \A d \in Devices :
    pending[d] # {} /\ Len(cloud[d]) = sequence[d] - 1
      => pending[d] = {cloud[d][sequence[d] - 1]}

(* A device is in step when its user changed nothing since its last sync,   *)
(* it has nothing to publish, and it has observed every writer's latest.    *)
InStep(d) ==
  /\ config[d] = effective[d] /\ ~NeedsPublication(d)
  /\ \A w \in Devices : observed[d][w] = Len(cloud[w])

(* The history says one thing.                                              *)
Settled(r) ==
  \/ CandidateValues(r, "presence") = {"gone"}
  \/ /\ CandidateValues(r, "presence") = {"kept"}
     /\ Cardinality(CandidateValues(r, "name")) = 1

(* Devices that are in step agree, by whatever sequence of syncs, choices   *)
(* and failures each came there: they have the same history, and wherever   *)
(* it says one thing the same configuration ("automatically merging         *)
(* nonconflicting edits and retaining concurrent candidates for explicit    *)
(* resolution", stable-changelog.md).  A device that skips or half applies  *)
(* something would sit in a state of its own, with nothing left to sync.    *)
InStepAgree ==
  \A d, e \in Devices :
    InStep(d) /\ InStep(e) =>
      /\ document[d] = document[e]
      /\ Settled(Replica(d)) => config[d] = config[e]

(* An edit a merge takes out of the stores is in the causal history         *)
(* ("Re-read live local values so edits made during download remain         *)
(* concurrent", docs/development/cloud-sync-v3.md): where it was not chosen *)
(* away, the value can be had again as a candidate or an ancestor of one.   *)
EditsRemain ==
  [][\A d \in Devices :
       /\ phase[d] = "planned" /\ phase'[d] = "applied"
       /\ plan[d].direction = "Merge" /\ plan[d].choice = Absent
       /\ config[d] # Absent /\ config'[d] # config[d]
       => \E i \in document'[d] : WriteOf([table |-> writes'], i).value = config[d]]_vars
=============================================================================
