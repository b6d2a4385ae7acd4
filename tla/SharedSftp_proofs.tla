-------------------------- MODULE SharedSftp_proofs --------------------------
(***************************************************************************)
(* Proofs about SharedSftp for every set of tasks, channels and programs,  *)
(* reconnects and cancelled completions among them.  SlotInv is the typed  *)
(* invariant of the slot protocol; OwnerInv ties every settled grant of    *)
(* the current generation to the ready channel, and to there being no      *)
(* clear_physical between its two steps.  That claims keep their owner is  *)
(* a fact about single steps, and needs the types only.                    *)
(***************************************************************************)
EXTENDS SharedSftp, FiniteSetTheorems, TLAPS

(* What a task holds fits where it is: a channel when it has opened one, a  *)
(* generation when it has one to announce.                                  *)
HeldInv ==
  \A t \in Tasks : /\ pc[t] = "opened" => got[t] \in Sessions
                   /\ pc[t] = "announce" => got[t] \in Nat

SlotInv == TypeOK /\ HeldInv

OwnerInv ==
  /\ \A a \in Settled :
       /\ a.gen <= generation
       /\ a.gen = generation
            => slot.kind = "Ready" /\ slot.session = a.session /\ ~Clearing
  /\ GrantedOnce

(* Notify numbers are natural numbers, so None is not one of them.          *)
LEMMA NotesAreNat == Notes \subseteq Nat /\ None \notin Notes
<1>1. Cardinality(Tasks) \in Nat
  BY SharedSftpAssumption, FS_CardinalityType
<1>. QED BY <1>1, SharedSftpAssumption DEF Notes

-----------------------------------------------------------------------------
(* The steps that only move one task, keep the slot typed.                  *)
LEMMA SlotInit == Init => SlotInv
  BY DEF Init, SlotInv, TypeOK, HeldInv, Slot, Empty, Labels, Opening,
         ClientPrograms, Grants

(* Leaving with or without a notification keeps the types of the tasks.     *)
TaskTypes ==
  /\ program \in [Tasks -> ClientPrograms]
  /\ pc \in [Tasks -> Labels]
  /\ note \in [Tasks -> Notes \cup {None}]
  /\ got \in [Tasks -> Sessions \cup Nat \cup {None}]

LEMMA LeaveTypes ==
  ASSUME TaskTypes, HeldInv, NEW t \in Tasks, NEW label \in Labels,
         label \notin {"opened", "announce"},
         Leave(t, label) \/ LeaveAndNotify(t, label)
  PROVE  TaskTypes' /\ HeldInv'
  BY DEF TaskTypes, HeldInv, Leave, LeaveAndNotify, Waiting, Labels, Opening

LEMMA GotoTypes ==
  ASSUME TaskTypes, HeldInv, NEW t \in Tasks, NEW label \in Labels,
         label \notin {"opened", "announce"}, Goto(t, label)
  PROVE  TaskTypes' /\ HeldInv'
  BY DEF TaskTypes, HeldInv, Goto, Labels, Opening

LEMMA ReturnTypes ==
  ASSUME TaskTypes, HeldInv, granted \in SUBSET Grants, NEW t \in Tasks,
         NEW s \in Sessions, NEW g \in Nat, NEW wasNew \in BOOLEAN,
         Return(t, s, g, wasNew)
  PROVE  TaskTypes' /\ HeldInv' /\ granted' \in SUBSET Grants
<1>1. granted' \in SUBSET Grants
  <2>1. Grant(s, g) \in Grants
    BY DEF Grant, Grants
  <2>. QED BY <2>1 DEF Return
<1>2. TaskTypes'
  BY DEF TaskTypes, Return, Waiting, Labels, Opening
<1>3. HeldInv'
  BY DEF TaskTypes, HeldInv, Return, Waiting, Labels, Opening
<1>. QED BY <1>1, <1>2, <1>3

LEMMA SlotStep == SlotInv /\ [Next]_vars => SlotInv'
<1>. SUFFICES ASSUME SlotInv, [Next]_vars PROVE SlotInv'
  OBVIOUS
<1>. USE NotesAreNat DEF SlotInv, TypeOK
<1>0. TaskTypes
  BY DEF TaskTypes
<1>1. CASE UNCHANGED vars
  BY <1>1 DEF vars, HeldInv
<1>2. ASSUME NEW t \in Tasks, NEW p \in Programs, Start(t, p) PROVE SlotInv'
  BY <1>2, SharedSftpAssumption
     DEF Start, Entrance, slotVars, HeldInv, Labels, Opening
<1>3. ASSUME NEW t \in Tasks, FindReady(t) \/ FinishReady(t) PROVE SlotInv'
  <2>1. slot.session \in Sessions
    BY <1>3 DEF FindReady, FinishReady, Slot
  <2>2. Return(t, slot.session, generation, FALSE) /\ UNCHANGED slotVars
    BY <1>3 DEF FindReady, FinishReady
  <2>3. TaskTypes' /\ HeldInv' /\ granted' \in SUBSET Grants
    BY <1>0, <2>1, <2>2, ReturnTypes
  <2>. QED BY <2>2, <2>3 DEF TaskTypes, slotVars, Return
<1>4. ASSUME NEW t \in Tasks, FindInitializing(t) PROVE SlotInv'
  BY <1>4 DEF FindInitializing, slotVars, HeldInv, Labels, Opening, Slot
<1>5. ASSUME NEW t \in Tasks, FindEmpty(t) PROVE SlotInv'
  <2>1. PICK n \in Notes : /\ slot' = Initializing(n, generation)
                           /\ note' = [note EXCEPT ![t] = n]
    BY <1>5 DEF FindEmpty
  <2>2. slot' \in Slot /\ slot'.note # None /\ slot'.gen # None
        /\ slot'.kind = "Initializing"
    BY <2>1, SharedSftpAssumption DEF Slot, Initializing
  <2>. QED BY <1>5, <2>1, <2>2 DEF FindEmpty, HeldInv, Labels, Opening
<1>6. ASSUME NEW t \in Tasks, Subscribe(t) \/ ReadTransport(t) \/ OpenFails(t)
                              \/ Revoke(t)
      PROVE SlotInv'
  <2>1. PICK label \in {"waiting", "opening", "failed", "acquire"} : Goto(t, label)
    BY <1>6 DEF Subscribe, ReadTransport, OpenFails, Revoke
  <2>2. TaskTypes' /\ HeldInv'
    BY <1>0, <2>1, GotoTypes DEF Labels, Opening
  <2>. QED BY <1>6, <2>2
           DEF Subscribe, ReadTransport, OpenFails, Revoke, slotVars, TaskTypes
<1>7. ASSUME NEW t \in Tasks, Open(t) PROVE SlotInv'
  BY <1>7 DEF Open, slotVars, HeldInv, Labels, Opening
<1>8. ASSUME NEW t \in Tasks, Publish(t) PROVE SlotInv'
  <2>1. got[t] \in Sessions /\ slot.gen \in Nat
    BY <1>8 DEF Publish, At, HeldInv
  <2>2. Return(t, got[t], slot.gen, TRUE)
    BY <1>8 DEF Publish
  <2>3. TaskTypes' /\ HeldInv' /\ granted' \in SUBSET Grants
    BY <1>0, <2>1, <2>2, ReturnTypes
  <2>4. slot' \in Slot /\ slot'.kind = "Ready" /\ slot'.session # None
    BY <1>8, <2>1, SharedSftpAssumption DEF Publish, Slot, Ready
  <2>. QED BY <1>8, <2>3, <2>4 DEF Publish, TaskTypes, Return
<1>9. ASSUME NEW t \in Tasks,
             \/ DropStaleClaim(t) \/ FinishEmpty(t) \/ Fail(t) \/ Announce(t)
             \/ Cancel(t) \/ Invalidate(t) \/ ClearSlot(t)
      PROVE SlotInv'
  <2>1. PICK label \in {"acquire", "free", "revoke", "dial"} :
          Leave(t, label) \/ LeaveAndNotify(t, label)
    BY <1>9 DEF DropStaleClaim, FinishEmpty, Fail, Announce, Cancel, Invalidate, ClearSlot
  <2>2. TaskTypes' /\ HeldInv'
    BY <1>0, <2>1, LeaveTypes DEF Labels, Opening
  <2>3. slot' = slot \/ slot' = Empty
    BY <1>9 DEF DropStaleClaim, FinishEmpty, Fail, Announce, Cancel, Invalidate,
                ClearSlot, slotVars
  <2>4. /\ slot' \in Slot
        /\ slot'.kind = "Initializing" => slot'.note # None /\ slot'.gen # None
        /\ slot'.kind = "Ready" => slot'.session # None
    BY <2>3 DEF Slot, Empty
  <2>5. authority' \in Nat \cup {None}
    BY <1>9 DEF DropStaleClaim, FinishEmpty, Fail, Announce, At, HeldInv, Cancel,
                Invalidate, ClearSlot
  <2>. QED BY <1>9, <2>2, <2>4, <2>5
           DEF DropStaleClaim, FinishEmpty, Fail, Announce, Cancel, Invalidate,
               ClearSlot, slotVars, TaskTypes
<1>10. ASSUME NEW t \in Tasks, Use(t) PROVE SlotInv'
  <2>1. TaskTypes' /\ HeldInv'
    BY <1>0, <1>10, GotoTypes DEF Use, Labels, Opening
  <2>2. granted' \in SUBSET Grants
    <3>1. CASE authority = generation /\ slot.kind = "Ready"
      <4>1. Grant(slot.session, generation) \in Grants
        BY <3>1 DEF Grant, Grants, Slot
      <4>. QED BY <1>10, <3>1, <4>1 DEF Use
    <3>2. CASE ~(authority = generation /\ slot.kind = "Ready")
      BY <1>10, <3>2 DEF Use
    <3>. QED BY <3>1, <3>2
  <2>. QED BY <1>10, <2>1, <2>2 DEF Use, slotVars, TaskTypes
<1>11. ASSUME NEW t \in Tasks, DropTransport(t) \/ BumpGeneration(t) \/ Dial(t)
       PROVE SlotInv'
  <2>1. PICK label \in {"bump", "clear", "free"} : Goto(t, label)
    BY <1>11 DEF DropTransport, BumpGeneration, Dial
  <2>2. TaskTypes' /\ HeldInv'
    BY <1>0, <2>1, GotoTypes DEF Labels, Opening
  <2>3. physical' \in BOOLEAN
    BY <1>11 DEF DropTransport, BumpGeneration, Dial
  <2>4. generation' \in Nat /\ UNCHANGED <<slot, opened, granted, authority>>
    BY <1>11 DEF DropTransport, BumpGeneration, Dial
  <2>. QED BY <2>2, <2>3, <2>4 DEF TaskTypes
<1>. QED BY <1>1, <1>2, <1>3, <1>4, <1>5, <1>6, <1>7, <1>8, <1>9, <1>10, <1>11
         DEF Next, Step

(* Whatever the tasks do, the slot and the tasks keep their types: a ready  *)
(* slot has a channel, and a task that publishes or announces has something *)
(* to publish or announce.                                                  *)
THEOREM SlotTyped == Spec => []TypeOK
<1>1. SlotInv => TypeOK
  BY DEF SlotInv
<1>. QED BY SlotInit, SlotStep, <1>1, PTL DEF Spec

-----------------------------------------------------------------------------
(* Grants.  The generation moves under the mutex together with the slot, or *)
(* ahead of it in clear_physical; what is granted in between is not         *)
(* settled.  So a settled grant of the current generation is the channel in *)
(* the slot.                                                                *)

LEMMA OwnerInit == Init => OwnerInv
  BY DEF Init, OwnerInv, GrantedOnce, Settled

(* The settled grants, as SftpOwner sees them.                              *)
Pairs == {[gen |-> a.gen, session |-> a.session] : a \in Settled}

(* What a step of the owner protocol does to the settled grants: nothing,   *)
(* one more of them, or one more generation.                                *)
OwnerStepOf == \/ Owner!Next
               \/ generation' = generation /\ Pairs' = Pairs

(* Only clear_physical has a task between its two steps.                    *)
LEMMA ClearingComes ==
  ASSUME SlotInv, \A t \in Tasks : pc'[t] = "clear" => pc[t] = "clear"
  PROVE  Clearing' => Clearing
  BY DEF Clearing, At

(* An unsettled grant leaves the settled ones as they are.                  *)
LEMMA UnsettledGrant ==
  ASSUME NEW s, NEW g, Clearing, granted' = granted \cup {Grant(s, g)}
  PROVE  Settled' = Settled
<1>1. ~Grant(s, g).settled
  BY DEF Grant
<1>2. \A a : a \in granted' <=> a \in granted \/ a = Grant(s, g)
  OBVIOUS
<1>3. \A a : a \in Settled' <=> a \in Settled
  BY <1>1, <1>2 DEF Settled
<1>. QED BY <1>3

(* A settled grant joins them.                                              *)
LEMMA SettledGrant ==
  ASSUME NEW s, NEW g, ~Clearing, granted' = granted \cup {Grant(s, g)}
  PROVE  /\ Settled' = Settled \cup {[gen |-> g, session |-> s, settled |-> TRUE]}
         /\ Pairs' = Pairs \cup {[gen |-> g, session |-> s]}
<1>. DEFINE new == [gen |-> g, session |-> s, settled |-> TRUE]
<1>1. Grant(s, g) = new
  BY DEF Grant
<1>2. new.settled /\ [gen |-> new.gen, session |-> new.session] = [gen |-> g, session |-> s]
  OBVIOUS
<1>. HIDE DEF new
<1>3. Settled' = Settled \cup {new}
  BY <1>1, <1>2 DEF Settled
<1>4. Pairs' = Pairs \cup {[gen |-> g, session |-> s]}
  BY <1>2, <1>3, Zenon DEF Pairs
<1>. QED BY <1>3, <1>4 DEF new

(* Nothing granted, the generation kept: the invariant wants that a ready   *)
(* slot stays as it is, or that somebody is clearing it.                    *)
LEMMA SlotKeepsOwner ==
  ASSUME SlotInv, OwnerInv, granted' = granted, generation' = generation,
         slot' = slot \/ slot.kind # "Ready" \/ Clearing,
         \A t \in Tasks : pc'[t] = "clear" => pc[t] = "clear"
  PROVE  OwnerInv' /\ OwnerStepOf
<1>1. Settled' = Settled /\ Pairs' = Pairs
  BY DEF Settled, Pairs
<1>2. Clearing' => Clearing
  BY ClearingComes
<1>3. \A a \in Settled : /\ a.gen <= generation
                         /\ a.gen = generation => slot.kind = "Ready"
                                                  /\ slot.session = a.session /\ ~Clearing
  BY DEF OwnerInv
<1>4. \A a \in Settled' : /\ a.gen <= generation'
                          /\ a.gen = generation' => slot'.kind = "Ready"
                                                  /\ slot'.session = a.session /\ ~Clearing'
  BY <1>1, <1>2, <1>3
<1>5. GrantedOnce'
  BY <1>1 DEF OwnerInv, GrantedOnce
<1>. QED BY <1>1, <1>4, <1>5 DEF OwnerInv, OwnerStepOf

(* A grant of the ready channel in the current generation.                  *)
LEMMA GrantKeepsOwner ==
  ASSUME SlotInv, OwnerInv, NEW s \in Sessions,
         slot'.kind = "Ready", slot'.session = s,
         slot.kind = "Ready" => slot.session = s,
         generation' = generation,
         granted' = granted \cup {Grant(s, generation)},
         \A t \in Tasks : pc'[t] = "clear" => pc[t] = "clear"
  PROVE  OwnerInv' /\ OwnerStepOf
<1>. DEFINE new == [gen |-> generation, session |-> s, settled |-> TRUE]
<1>0. /\ generation \in Nat
      /\ \A a \in Settled : a.gen \in Nat /\ a.session \in Sessions
  BY DEF SlotInv, TypeOK, Settled, Grants
<1>1. \A a \in Settled : /\ a.gen <= generation
                         /\ a.gen = generation => slot.kind = "Ready"
                                                  /\ slot.session = a.session /\ ~Clearing
  BY DEF OwnerInv
<1>2. Clearing' => Clearing
  BY ClearingComes
<1>3. CASE Clearing
  <2>1. Settled' = Settled
    BY <1>3, UnsettledGrant
  <2>2. Pairs' = Pairs
    BY <2>1 DEF Pairs
  <2>3. \A a \in Settled' : a.gen <= generation' /\ a.gen # generation'
    BY <1>1, <1>3, <2>1
  <2>4. GrantedOnce'
    BY <2>1 DEF OwnerInv, GrantedOnce
  <2>. QED BY <2>2, <2>3, <2>4 DEF OwnerInv, OwnerStepOf
<1>4. CASE ~Clearing
  <2>1. Settled' = Settled \cup {new} /\ Pairs' = Pairs \cup {[gen |-> generation, session |-> s]}
    BY <1>4, SettledGrant
  <2>2. new.gen = generation /\ new.session = s
    OBVIOUS
  <2>. HIDE DEF new
  <2>3. \A a \in Settled' : /\ a.gen <= generation'
                            /\ a.gen = generation' => slot'.kind = "Ready"
                                                  /\ slot'.session = a.session /\ ~Clearing'
    <3>. SUFFICES ASSUME NEW a \in Settled'
                  PROVE  /\ a.gen <= generation'
                         /\ a.gen = generation' => slot'.kind = "Ready"
                                                  /\ slot'.session = a.session /\ ~Clearing'
      OBVIOUS
    <3>1. CASE a = new
      BY <1>0, <1>2, <1>4, <2>2, <3>1
    <3>2. CASE a \in Settled
      BY <1>1, <1>2, <1>4, <3>2
    <3>. QED BY <2>1, <3>1, <3>2
  <2>4. \A a \in Settled : a.gen = generation => a.session = s
    BY <1>1
  <2>5. GrantedOnce'
    BY <2>1, <2>2, <2>4 DEF OwnerInv, GrantedOnce
  <2>6. \A o \in Pairs : o.gen = generation => o.session = s
    BY <2>4 DEF Pairs
  <2>7. Owner!Grant(s)
    BY <2>1, <2>6 DEF Owner!Grant, Pairs
  <2>. QED BY <2>3, <2>5, <2>7 DEF OwnerInv, OwnerStepOf, Owner!Next
<1>. QED BY <1>3, <1>4

(* One more generation: nothing was granted in it.                          *)
LEMMA BumpKeepsOwner ==
  ASSUME SlotInv, OwnerInv, granted' = granted, generation' = generation + 1
  PROVE  OwnerInv' /\ OwnerStepOf
<1>1. Settled' = Settled /\ Pairs' = Pairs
  BY DEF Settled, Pairs
<1>2. /\ generation \in Nat
      /\ \A a \in Settled : a.gen \in Nat /\ a.gen <= generation
  BY DEF SlotInv, TypeOK, OwnerInv, Settled, Grants
<1>3. \A a \in Settled' : a.gen <= generation' /\ a.gen # generation'
  BY <1>1, <1>2
<1>4. GrantedOnce'
  BY <1>1 DEF OwnerInv, GrantedOnce
<1>5. Owner!Invalidate
  BY <1>1 DEF Owner!Invalidate, Pairs
<1>. QED BY <1>3, <1>4, <1>5 DEF OwnerInv, OwnerStepOf, Owner!Next

LEMMA OwnerStep ==
  ASSUME SlotInv, OwnerInv, [Next]_vars
  PROVE  OwnerInv' /\ OwnerStepOf
<1>. USE DEF SlotInv, TypeOK
<1>1. CASE UNCHANGED vars
  BY <1>1, SlotKeepsOwner DEF vars
<1>2. ASSUME NEW t \in Tasks, NEW p \in Programs, Start(t, p)
      PROVE OwnerInv' /\ OwnerStepOf
  <2>1. Entrance(p) # "clear"
    BY SharedSftpAssumption DEF Entrance, ClientPrograms
  <2>2. \A w \in Tasks : pc'[w] = "clear" => pc[w] = "clear"
    BY <1>2, <2>1 DEF Start
  <2>. QED BY <1>2, <2>2, SlotKeepsOwner DEF Start, slotVars
<1>3. ASSUME NEW t \in Tasks, FindReady(t) \/ FinishReady(t)
      PROVE OwnerInv' /\ OwnerStepOf
  <2>1. slot.kind = "Ready" /\ slot.session \in Sessions
    BY <1>3 DEF FindReady, FinishReady, Slot
  <2>2. UNCHANGED slotVars /\ Return(t, slot.session, generation, FALSE)
    BY <1>3 DEF FindReady, FinishReady
  <2>3. \A w \in Tasks : pc'[w] = "clear" => pc[w] = "clear"
    BY <2>2 DEF Return
  <2>. QED BY <2>1, <2>2, <2>3, GrantKeepsOwner DEF Return, slotVars
<1>4. ASSUME NEW t \in Tasks, Publish(t) PROVE OwnerInv' /\ OwnerStepOf
  <2>1. got[t] \in Sessions
    BY <1>4 DEF Publish, At, HeldInv
  <2>2. /\ slot.kind = "Initializing" /\ slot' = Ready(got[t])
        /\ Return(t, got[t], generation, TRUE) /\ generation' = generation
    BY <1>4 DEF Publish
  <2>3. \A w \in Tasks : pc'[w] = "clear" => pc[w] = "clear"
    BY <2>2 DEF Return
  <2>. QED BY <2>1, <2>2, <2>3, GrantKeepsOwner DEF Return, Ready
<1>5. ASSUME NEW t \in Tasks, Use(t) PROVE OwnerInv' /\ OwnerStepOf
  <2>1. \A w \in Tasks : pc'[w] = "clear" => pc[w] = "clear"
    BY <1>5 DEF Use, Goto
  <2>2. CASE authority = generation /\ slot.kind = "Ready"
    <3>1. slot.session \in Sessions
      BY <2>2 DEF Slot
    <3>. QED BY <1>5, <2>1, <2>2, <3>1, GrantKeepsOwner DEF Use, slotVars
  <2>3. CASE ~(authority = generation /\ slot.kind = "Ready")
    BY <1>5, <2>1, <2>3, SlotKeepsOwner DEF Use, slotVars
  <2>. QED BY <2>2, <2>3
<1>6. ASSUME NEW t \in Tasks, Invalidate(t) \/ BumpGeneration(t)
      PROVE OwnerInv' /\ OwnerStepOf
  BY <1>6, BumpKeepsOwner DEF Invalidate, BumpGeneration
<1>7. ASSUME NEW t \in Tasks,
             \/ FindEmpty(t) \/ DropStaleClaim(t) \/ Fail(t) \/ ClearSlot(t)
      PROVE OwnerInv' /\ OwnerStepOf
  <2>1. UNCHANGED <<granted, generation>>
    BY <1>7 DEF FindEmpty, DropStaleClaim, Fail, ClearSlot
  <2>2. slot' = slot \/ slot.kind # "Ready" \/ Clearing
    BY <1>7 DEF FindEmpty, DropStaleClaim, Fail, ClearSlot, Clearing
  <2>3. \A w \in Tasks : pc'[w] = "clear" => pc[w] = "clear"
    BY <1>7 DEF FindEmpty, DropStaleClaim, Fail, ClearSlot, LeaveAndNotify
  <2>. QED BY <2>1, <2>2, <2>3, SlotKeepsOwner
<1>8. ASSUME NEW t \in Tasks,
             \/ FindInitializing(t) \/ Subscribe(t) \/ ReadTransport(t) \/ Open(t)
             \/ OpenFails(t) \/ FinishEmpty(t) \/ Announce(t) \/ Revoke(t) \/ Cancel(t)
             \/ DropTransport(t) \/ Dial(t)
      PROVE OwnerInv' /\ OwnerStepOf
  <2>1. UNCHANGED <<granted, generation, slot>>
    BY <1>8 DEF FindInitializing, Subscribe, ReadTransport, Open, OpenFails,
                FinishEmpty, Announce, Revoke, Cancel, DropTransport, Dial, slotVars
  <2>2. \A w \in Tasks : pc'[w] = "clear" => pc[w] = "clear"
    BY <1>8 DEF FindInitializing, Subscribe, ReadTransport, Open, OpenFails,
                FinishEmpty, Announce, Revoke, Cancel, DropTransport, Dial, Goto, Leave
  <2>. QED BY <2>1, <2>2, SlotKeepsOwner
<1>. QED BY <1>1, <1>2, <1>3, <1>4, <1>5, <1>6, <1>7, <1>8 DEF Next, Step

(* A generation names one channel: no interleaving of acquires,             *)
(* invalidations, reconnects, failed and cancelled opens and uses gives two *)
(* callers of a generation two channels, unless one of them was answered    *)
(* between the two steps of clear_physical                                  *)
(* (acquire_existing_sftp_generation, "never creates or substitutes a       *)
(* replacement session").                                                   *)
THEOREM ChannelGrantedOnce == Spec => []GrantedOnce
<1>1. SlotInv /\ OwnerInv /\ [Next]_vars => (SlotInv /\ OwnerInv)'
  BY SlotStep, OwnerStep
<1>2. OwnerInv => GrantedOnce
  BY DEF OwnerInv
<1>. QED BY SlotInit, OwnerInit, <1>1, <1>2, PTL DEF Spec

(* The slot protocol implements SftpOwner: every settled grant is a grant   *)
(* of the current generation, and only invalidate_sftp and clear_physical   *)
(* move the generation.                                                     *)
THEOREM SlotImplementsOwner == Spec => OwnerSpec
<1>1. Init => Owner!Init
  BY DEF Init, Owner!Init, Settled
<1>2. SlotInv /\ OwnerInv /\ [Next]_vars => (SlotInv /\ OwnerInv)'
  BY SlotStep, OwnerStep
<1>3. SlotInv /\ OwnerInv /\ [Next]_vars => [Owner!Next]_<<generation, Pairs>>
  BY OwnerStep DEF OwnerStepOf
<1>4. SlotInv /\ OwnerInv /\ [Next]_vars
        => [Owner!Next]_<<generation, {[gen |-> a.gen, session |-> a.session] : a \in Settled}>>
  BY <1>3 DEF Pairs
<1>. QED BY SlotInit, OwnerInit, <1>1, <1>2, <1>4, PTL DEF Spec, OwnerSpec, Owner!Spec

-----------------------------------------------------------------------------
(* Claims.                                                                  *)

Owned == \/ ClaimHasOwner'
         \/ \E t \in Tasks : Cancel(t) /\ Works(t, slot.note)

(* A step that keeps the slot, and keeps every task that works on the claim *)
(* at its opening, keeps the claim's owner.                                 *)
LEMMA OpeningKeepsClaim ==
  ASSUME ClaimHasOwner, slot' = slot,
         \A t \in Tasks : pc[t] \in Opening => pc'[t] \in Opening /\ note'[t] = note[t]
  PROVE  ClaimHasOwner'
  BY DEF ClaimHasOwner, Works

LEMMA ClaimStep ==
  ASSUME SlotInv, ClaimHasOwner, [Next]_vars
  PROVE  Owned
<1>. USE DEF SlotInv, TypeOK
<1>1. CASE UNCHANGED vars
  BY <1>1 DEF vars, Owned, ClaimHasOwner, Works
<1>2. ASSUME NEW t \in Tasks, NEW p \in Programs, Start(t, p) PROVE Owned
  <2>1. \A w \in Tasks : pc[w] \in Opening => pc'[w] = pc[w] /\ note'[w] = note[w]
    BY <1>2 DEF Start, At, Opening
  <2>. QED BY <1>2, <2>1, OpeningKeepsClaim DEF Start, slotVars, Owned
<1>3. ASSUME NEW t \in Tasks,
             \/ FindReady(t) \/ FinishReady(t) \/ Publish(t)
             \/ DropStaleClaim(t) \/ FinishEmpty(t) \/ Fail(t)
             \/ Invalidate(t) \/ ClearSlot(t)
      PROVE Owned
  <2>1. \/ slot' = Empty
        \/ slot' = slot /\ slot.kind # "Initializing"
        \/ slot' = Ready(got[t])
    BY <1>3 DEF FindReady, FinishReady, Publish, DropStaleClaim, FinishEmpty, Fail,
                Invalidate, ClearSlot, slotVars
  <2>2. slot'.kind # "Initializing"
    BY <2>1 DEF Empty, Ready
  <2>. QED BY <2>2 DEF Owned, ClaimHasOwner
<1>4. ASSUME NEW t \in Tasks, FindEmpty(t) PROVE Owned
  <2>1. PICK n \in Notes : /\ slot' = Initializing(n, generation)
                           /\ note' = [note EXCEPT ![t] = n]
    BY <1>4 DEF FindEmpty
  <2>2. pc'[t] \in Opening /\ note'[t] = slot'.note
    BY <1>4, <2>1 DEF FindEmpty, Opening, Initializing
  <2>. QED BY <2>2 DEF Owned, ClaimHasOwner, Works
<1>5. ASSUME NEW t \in Tasks,
             \/ FindInitializing(t) \/ Subscribe(t) \/ Announce(t) \/ Revoke(t)
             \/ Use(t) \/ DropTransport(t) \/ BumpGeneration(t) \/ Dial(t)
      PROVE Owned
  <2>1. slot' = slot
    BY <1>5 DEF FindInitializing, Subscribe, Announce, Revoke, Use, DropTransport,
                BumpGeneration, Dial, slotVars
  <2>2. pc[t] \notin Opening
    BY <1>5 DEF FindInitializing, Subscribe, Announce, Revoke, Use, DropTransport,
                BumpGeneration, Dial, At, Opening
  <2>3. \A w \in Tasks : w # t => pc'[w] = pc[w] /\ note'[w] = note[w]
    BY <1>5 DEF FindInitializing, Subscribe, Announce, Revoke, Use, DropTransport,
                BumpGeneration, Dial, Goto, Leave
  <2>. QED BY <2>1, <2>2, <2>3, OpeningKeepsClaim DEF Owned
<1>6. ASSUME NEW t \in Tasks, ReadTransport(t) \/ Open(t) \/ OpenFails(t)
      PROVE Owned
  <2>1. slot' = slot /\ note' = note
    BY <1>6 DEF ReadTransport, Open, OpenFails, slotVars, Goto
  <2>2. \A w \in Tasks : pc[w] \in Opening => pc'[w] \in Opening
    BY <1>6 DEF ReadTransport, Open, OpenFails, Goto, Opening
  <2>. QED BY <2>1, <2>2, OpeningKeepsClaim DEF Owned
<1>7. ASSUME NEW t \in Tasks, Cancel(t) PROVE Owned
  <2>1. CASE Works(t, slot.note)
    BY <1>7, <2>1 DEF Owned
  <2>2. CASE ~Works(t, slot.note)
    <3>1. slot' = slot
      BY <1>7 DEF Cancel, slotVars
    <3>2. \A w \in Tasks : w # t => pc'[w] = pc[w] /\ note'[w] = note[w]
      BY <1>7 DEF Cancel, Leave
    <3>3. ClaimHasOwner'
      BY <2>2, <3>1, <3>2 DEF ClaimHasOwner, Works
    <3>. QED BY <3>3 DEF Owned
  <2>. QED BY <2>1, <2>2
<1>. QED BY <1>1, <1>2, <1>3, <1>4, <1>5, <1>6, <1>7 DEF Next, Step

(* No exit of acquire_sftp_with_meta, no invalidation and no reconnect      *)
(* leaves a claim of the slot without the task that works on it             *)
(* (terminal_cwd.rs, "Shared SFTP initialization is registry-owned and is   *)
(* not cancellation-safe"): only the timeout of a path completion does,     *)
(* when it drops that very task.                                            *)
THEOREM ClaimsKeepOwner == Spec => ClaimKeepsOwner
<1>1. SlotInv /\ [Next]_vars => (ClaimHasOwner => Owned)
  BY ClaimStep
<1>2. SlotInv /\ [Next]_vars
        => [ClaimHasOwner => \/ ClaimHasOwner'
                             \/ \E t \in Tasks : Cancel(t) /\ Works(t, slot.note)]_vars
  BY <1>1 DEF Owned
<1>. QED BY SlotInit, SlotStep, <1>2, PTL DEF Spec, ClaimKeepsOwner

=============================================================================
