----------------------------- MODULE SharedSftp -----------------------------
(***************************************************************************)
(* The shared SFTP channel of one SSH connection of oxideterm-ssh: the     *)
(* slot of a registry entry (crates/oxideterm-ssh/src/                     *)
(* connection_registry.rs) and the NodeRouter operations on it             *)
(* (router/node_router.rs).                                                *)
(*                                                                         *)
(* The slot is guarded by an asynchronous mutex that no task holds while   *)
(* it opens a channel or waits, so a step here is one region under that    *)
(* mutex or one access to the atomics beside it.  The first task that      *)
(* finds the slot empty opens a channel for all; the others clone its      *)
(* Notify, leave the mutex and then wait.  Clearing the transport bumps    *)
(* the generation before it takes the mutex.                               *)
(*                                                                         *)
(* Left out: the list of live transfer channels an open may fall back on   *)
(* when the server refuses another one, and the node state mirrored into   *)
(* the runtime store.                                                      *)
(***************************************************************************)
EXTENDS Naturals, FiniteSets

CONSTANTS
  Tasks,          (* asynchronous tasks that use the connection             *)
  Sessions,       (* SFTP channels, each opened at most once                *)
  Programs,       (* the client programs of an instance, among ClientPrograms *)
  MaxGeneration,  (* bound: invalidations and reconnects stop here          *)
  None

(* browse     NodeRouter::acquire_sftp                                      *)
(* complete   the same under the 800 ms timeout of remote path completion   *)
(* recover    NodeRouter::invalidate_and_reacquire_sftp                     *)
(* reconnect  clear_physical, a new dial, set_physical                      *)
(* use        acquire_existing_sftp_generation by a capability holder       *)
ClientPrograms == {"browse", "complete", "recover", "reconnect", "use"}

ASSUME SharedSftpAssumption ==
  /\ None \notin Sessions
  /\ None \notin Nat
  /\ IsFiniteSet(Tasks)
  /\ Programs \subseteq ClientPrograms
  /\ MaxGeneration \in Nat

(* Notifies by number: a task holds at most one, and the slot another.      *)
Notes == 1 .. Cardinality(Tasks) + 1

Slot == [kind : {"Empty", "Initializing", "Ready"},
         note : Notes \cup {None},
         gen : Nat \cup {None},
         session : Sessions \cup {None}]

Empty == [kind |-> "Empty", note |-> None, gen |-> None, session |-> None]

Initializing(n, g) == [kind |-> "Initializing", note |-> n, gen |-> g, session |-> None]

Ready(s) == [kind |-> "Ready", note |-> None, gen |-> None, session |-> s]

Grants == [gen : Nat, session : Sessions, settled : BOOLEAN]

VARIABLES
  physical,    (* the entry has a transport                                 *)
  generation,  (* sftp_generation                                           *)
  slot,        (* SharedSftpState                                           *)
  opened,      (* the channels opened so far                                *)
  program, pc, (* what each task runs and where it is                       *)
  note,        (* the Notify a task created or cloned                       *)
  got,         (* the channel it opened, or the generation it must announce *)
  granted,     (* history: what acquires and uses returned, and whether no  *)
               (* clear_physical was between its two steps just then        *)
  authority    (* the generation capability holders were last told of       *)

slotVars == <<physical, generation, slot>>
taskVars == <<program, pc, note, got>>
vars == <<physical, generation, slot, opened, program, pc, note, got,
          granted, authority>>

-----------------------------------------------------------------------------
Init ==
  /\ physical = TRUE
  /\ generation = 0
  /\ slot = Empty
  /\ opened = {}
  /\ program = [t \in Tasks |-> "browse"]
  /\ pc = [t \in Tasks |-> "free"]
  /\ note = [t \in Tasks |-> None]
  /\ got = [t \in Tasks |-> None]
  /\ granted = {}
  /\ authority = None

At(t, label) == pc[t] = label

Opening == {"connect", "opening", "opened", "failed"}

(* clear_physical has bumped the generation and not yet emptied the slot.   *)
Clearing == \E t \in Tasks : At(t, "clear")

Grant(s, g) == [gen |-> g, session |-> s, settled |-> ~Clearing]

(* A new Notify: one that neither the slot nor a task holds.                *)
Fresh(n) ==
  LET unused == Notes \ ({slot.note} \cup {note[t] : t \in Tasks}) IN
  n \in unused /\ \A m \in unused : n <= m

Goto(t, label) ==
  /\ pc' = [pc EXCEPT ![t] = label]
  /\ UNCHANGED <<program, note, got>>

(* The task drops what it held and goes on at label.                        *)
Leave(t, label) ==
  /\ pc' = [pc EXCEPT ![t] = label]
  /\ note' = [note EXCEPT ![t] = None]
  /\ got' = [got EXCEPT ![t] = None]
  /\ UNCHANGED program

(* The same, when the task also calls notify_waiters on the slot's Notify:  *)
(* every task that waits on it by now looks at the slot again.              *)
Waiting(n) == {w \in Tasks : n # None /\ pc[w] = "waiting" /\ note[w] = n}

LeaveAndNotify(t, label) ==
  /\ pc' = [w \in Tasks |-> IF w = t THEN label
                            ELSE IF w \in Waiting(slot.note) THEN "acquire"
                            ELSE pc[w]]
  /\ note' = [w \in Tasks |-> IF w = t \/ w \in Waiting(slot.note) THEN None
                              ELSE note[w]]
  /\ got' = [got EXCEPT ![t] = None]
  /\ UNCHANGED program

(* An acquire returns channel s of generation g.  NodeRouter announces a    *)
(* channel that is new, and the one that follows an invalidation.           *)
Return(t, s, g, wasNew) ==
  /\ granted' = granted \cup {Grant(s, g)}
  /\ pc' = [w \in Tasks |->
              IF w = t THEN IF wasNew \/ program[t] = "recover" THEN "announce" ELSE "free"
              ELSE IF wasNew /\ w \in Waiting(slot.note) THEN "acquire"
              ELSE pc[w]]
  /\ note' = [w \in Tasks |-> IF w = t \/ (wasNew /\ w \in Waiting(slot.note))
                              THEN None ELSE note[w]]
  /\ got' = [got EXCEPT ![t] = IF wasNew \/ program[t] = "recover" THEN g ELSE None]
  /\ UNCHANGED <<program, opened, authority>>

-----------------------------------------------------------------------------
(* acquire_sftp_with_meta                                                   *)

(* The first region: a ready channel is returned, with the generation read  *)
(* under the mutex.                                                         *)
FindReady(t) ==
  /\ At(t, "acquire") /\ slot.kind = "Ready"
  /\ Return(t, slot.session, generation, FALSE)
  /\ UNCHANGED slotVars

FindInitializing(t) ==
  /\ At(t, "acquire") /\ slot.kind = "Initializing"
  /\ note' = [note EXCEPT ![t] = slot.note]
  /\ pc' = [pc EXCEPT ![t] = "cloned"]
  /\ UNCHANGED <<slotVars, opened, program, got, granted, authority>>

FindEmpty(t) ==
  /\ At(t, "acquire") /\ slot.kind = "Empty"
  /\ \E n \in Notes :
       /\ Fresh(n)
       /\ slot' = Initializing(n, generation)
       /\ note' = [note EXCEPT ![t] = n]
  /\ pc' = [pc EXCEPT ![t] = "connect"]
  /\ UNCHANGED <<physical, generation, opened, program, got, granted, authority>>

(* notify.notified() is created after the mutex was left: a notify_waiters  *)
(* in between goes unheard.                                                 *)
Subscribe(t) ==
  /\ At(t, "cloned")
  /\ Goto(t, "waiting")
  /\ UNCHANGED <<slotVars, opened, granted, authority>>

(* acquire_transfer_sftp: the transport, then the open.                     *)
ReadTransport(t) ==
  /\ At(t, "connect")
  /\ Goto(t, IF physical THEN "opening" ELSE "failed")
  /\ UNCHANGED <<slotVars, opened, granted, authority>>

Open(t) ==
  /\ At(t, "opening")
  /\ \E s \in Sessions :
       /\ s \notin opened
       /\ opened' = opened \cup {s}
       /\ got' = [got EXCEPT ![t] = s]
  /\ pc' = [pc EXCEPT ![t] = "opened"]
  /\ UNCHANGED <<slotVars, program, note, granted, authority>>

OpenFails(t) ==
  /\ At(t, "opening")
  /\ Goto(t, "failed")
  /\ UNCHANGED <<slotVars, opened, granted, authority>>

(* The second region, with a channel of its own in hand: another task's     *)
(* channel is preferred, a claim of the current generation is fulfilled,    *)
(* whoever made it, and a claim of an older one is dropped.                 *)
(* Mutant of FinishReady: the channel in hand replaces the ready one.       *)
FinishReadyReplaces(t) ==
  /\ At(t, "opened") /\ slot.kind = "Ready"
  /\ slot' = Ready(got[t])
  /\ Return(t, got[t], generation, TRUE)
  /\ UNCHANGED <<physical, generation>>

FinishReady(t) ==
  /\ At(t, "opened") /\ slot.kind = "Ready"
  /\ Return(t, slot.session, generation, FALSE)
  /\ UNCHANGED slotVars

Publish(t) ==
  /\ At(t, "opened") /\ slot.kind = "Initializing" /\ slot.gen = generation
  /\ slot' = Ready(got[t])
  /\ Return(t, got[t], slot.gen, TRUE)
  /\ UNCHANGED <<physical, generation>>

DropStaleClaim(t) ==
  /\ At(t, "opened") /\ slot.kind = "Initializing" /\ slot.gen # generation
  /\ slot' = Empty
  /\ LeaveAndNotify(t, "acquire")
  /\ UNCHANGED <<physical, generation, opened, granted, authority>>

FinishEmpty(t) ==
  /\ At(t, "opened") /\ slot.kind = "Empty"
  /\ Leave(t, "acquire")
  /\ UNCHANGED <<slotVars, opened, granted, authority>>

(* Mutant of Fail: the claim is left behind.                                *)
FailKeepsClaim(t) ==
  /\ At(t, "failed")
  /\ Leave(t, "free")
  /\ UNCHANGED <<slotVars, opened, granted, authority>>

(* Mutant of Fail: the claim is dropped and nobody is told.                 *)
FailSilently(t) ==
  /\ At(t, "failed")
  /\ slot' = IF slot.kind = "Initializing" THEN Empty ELSE slot
  /\ Leave(t, "free")
  /\ UNCHANGED <<physical, generation, opened, granted, authority>>

(* The second region after an error: any claim there is dropped.            *)
Fail(t) ==
  /\ At(t, "failed")
  /\ slot' = IF slot.kind = "Initializing" THEN Empty ELSE slot
  /\ LeaveAndNotify(t, "free")
  /\ UNCHANGED <<physical, generation, opened, granted, authority>>

(* NodeRouter announces the owner generation of what it acquired.           *)
Announce(t) ==
  /\ At(t, "announce")
  /\ authority' = got[t]
  /\ Leave(t, "free")
  /\ UNCHANGED <<slotVars, opened, granted>>

(* The timeout around a completion drops the acquire where it waits.        *)
Cancel(t) ==
  /\ program[t] = "complete" /\ pc[t] \in {"waiting", "opening"}
  /\ Leave(t, "free")
  /\ UNCHANGED <<slotVars, opened, granted, authority>>

-----------------------------------------------------------------------------
(* invalidate_and_reacquire_sftp                                            *)

(* Mutant of Invalidate: the generation is not bumped.                      *)
InvalidateInPlace(t) ==
  /\ At(t, "invalidate")
  /\ slot' = Empty
  /\ LeaveAndNotify(t, IF slot.kind = "Empty" THEN "acquire" ELSE "revoke")
  /\ UNCHANGED <<physical, generation, opened, granted, authority>>

Invalidate(t) ==
  /\ At(t, "invalidate")
  /\ generation' = generation + 1
  /\ slot' = Empty
  /\ LeaveAndNotify(t, IF slot.kind = "Empty" THEN "acquire" ELSE "revoke")
  /\ UNCHANGED <<physical, opened, granted, authority>>

Revoke(t) ==
  /\ At(t, "revoke")
  /\ authority' = None
  /\ Goto(t, "acquire")
  /\ UNCHANGED <<slotVars, opened, granted>>

(* acquire_existing_sftp_generation, with the generation last announced.    *)
Use(t) ==
  /\ At(t, "use")
  /\ granted' = IF authority = generation /\ slot.kind = "Ready"
                  THEN granted \cup {Grant(slot.session, generation)}
                  ELSE granted
  /\ Goto(t, "free")
  /\ UNCHANGED <<slotVars, opened, authority>>

-----------------------------------------------------------------------------
(* clear_physical, and the dial and set_physical that follow it.            *)

DropTransport(t) ==
  /\ At(t, "drop")
  /\ physical' = FALSE
  /\ Goto(t, "bump")
  /\ UNCHANGED <<generation, slot, opened, granted, authority>>

(* Mutant of BumpGeneration: the generation is forgotten.                   *)
KeepGeneration(t) ==
  /\ At(t, "bump")
  /\ Goto(t, "clear")
  /\ UNCHANGED <<slotVars, opened, granted, authority>>

BumpGeneration(t) ==
  /\ At(t, "bump")
  /\ generation' = generation + 1
  /\ Goto(t, "clear")
  /\ UNCHANGED <<physical, slot, opened, granted, authority>>

ClearSlot(t) ==
  /\ At(t, "clear")
  /\ slot' = Empty
  /\ LeaveAndNotify(t, "dial")
  /\ UNCHANGED <<physical, generation, opened, granted, authority>>

Dial(t) ==
  /\ At(t, "dial")
  /\ physical' \in BOOLEAN
  /\ (physical => physical')
  /\ Goto(t, "free")
  /\ UNCHANGED <<generation, slot, opened, granted, authority>>

-----------------------------------------------------------------------------
Entrance(p) == CASE p = "recover"   -> "invalidate"
                 [] p = "reconnect" -> "drop"
                 [] p = "use"       -> "use"
                 [] OTHER           -> "acquire"

(* The tasks that have still to bump the generation.                        *)
Bumping == {t \in Tasks : pc[t] \in {"invalidate", "drop", "bump"}}

Start(t, p) ==
  /\ At(t, "free") /\ p \in Programs
  /\ p = "use" => authority # None
  /\ p \in {"recover", "reconnect"}
       => generation + Cardinality(Bumping) < MaxGeneration
  /\ program' = [program EXCEPT ![t] = p]
  /\ pc' = [pc EXCEPT ![t] = Entrance(p)]
  /\ UNCHANGED <<slotVars, opened, note, got, granted, authority>>

Step(t) ==
  \/ FindReady(t) \/ FindInitializing(t) \/ FindEmpty(t) \/ Subscribe(t)
  \/ ReadTransport(t) \/ Open(t) \/ OpenFails(t)
  \/ FinishReady(t) \/ Publish(t) \/ DropStaleClaim(t) \/ FinishEmpty(t) \/ Fail(t)
  \/ Announce(t) \/ Invalidate(t) \/ Revoke(t) \/ Use(t)
  \/ DropTransport(t) \/ BumpGeneration(t) \/ ClearSlot(t) \/ Dial(t)

Next == \E t \in Tasks : \/ \E p \in Programs : Start(t, p)
                         \/ Step(t)
                         \/ Cancel(t)

Spec == Init /\ [][Next]_vars

(* The runtime polls every task that can go on, and an open is bounded by   *)
(* the request timeout of the SFTP client.                                  *)
FairSpec == Spec /\ \A t \in Tasks : WF_vars(Step(t))

-----------------------------------------------------------------------------
(* Properties.                                                              *)

Labels == {"free", "acquire", "cloned", "waiting", "announce", "invalidate",
           "revoke", "use", "drop", "bump", "clear", "dial"} \cup Opening

(* Every variable holds values of its type, and the claim of a slot is      *)
(* complete.                                                                *)
TypeOK ==
  /\ physical \in BOOLEAN
  /\ generation \in Nat
  /\ slot \in Slot
  /\ slot.kind = "Initializing" => slot.note # None /\ slot.gen # None
  /\ slot.kind = "Ready" => slot.session # None
  /\ opened \subseteq Sessions
  /\ program \in [Tasks -> ClientPrograms]
  /\ pc \in [Tasks -> Labels]
  /\ note \in [Tasks -> Notes \cup {None}]
  /\ got \in [Tasks -> Sessions \cup Nat \cup {None}]
  /\ granted \in SUBSET Grants
  /\ authority \in Nat \cup {None}

(* A generation names one channel ("only the already-open shared channel    *)
(* for the exact owner generation. It never creates or substitutes a        *)
(* replacement session", acquire_existing_sftp_generation): two callers     *)
(* that were given the same generation share one channel, whatever other    *)
(* tasks acquire, drop, invalidate or reconnect in between.  Between the    *)
(* two steps of clear_physical the outgoing channel is still handed out,    *)
(* under the new generation: those answers are not settled.                 *)
Settled == {a \in granted : a.settled}

GrantedOnce == \A a, b \in Settled : a.gen = b.gen => a.session = b.session

(* A claimed slot has a task at work that will fulfil or drop the claim     *)
(* (terminal_cwd.rs, "Shared SFTP initialization is registry-owned and is   *)
(* not cancellation-safe").                                                 *)
Works(t, n) == pc[t] \in Opening /\ note[t] = n

ClaimHasOwner ==
  slot.kind = "Initializing" => \E t \in Tasks : Works(t, slot.note)

(* No exit of acquire_sftp_with_meta, no invalidation and no reconnect      *)
(* leaves a claim without the task that works on it.  Only the timeout of a *)
(* path completion does, when it drops that very task while it opens.       *)
ClaimKeepsOwner ==
  [][ClaimHasOwner => \/ ClaimHasOwner'
                      \/ \E t \in Tasks : Cancel(t) /\ Works(t, slot.note)]_vars

(* A task that waits on the Notify of the present claim gets to look at the *)
(* slot again, however that claim ends: every exit notifies.  Only a claim  *)
(* whose owner was dropped can keep it waiting.                             *)
WaitersResume ==
  \A t \in Tasks :
    (pc[t] = "waiting" /\ note[t] = slot.note)
      ~> (pc[t] # "waiting" \/ ~ClaimHasOwner)

(* The slot keeps the promise of SftpOwner: acquire_sftp_with_meta,         *)
(* invalidate_sftp, clear_physical and acquire_existing_sftp_generation     *)
(* together implement a register that is written once in each generation.   *)
Owner == INSTANCE SftpOwner
           WITH current <- generation,
                owners <- {[gen |-> a.gen, session |-> a.session] : a \in Settled}

OwnerSpec == Owner!Spec
=============================================================================
