------------------------ MODULE TransferManager_proofs ------------------------
(***************************************************************************)
(* Proofs about TransferManager for every set of tasks, transfers and      *)
(* limits.  HeldInv says how many registrations a task has at each place   *)
(* of its program; with it the owners of a control and the permits can be  *)
(* counted, and a control cannot go, or be replaced, under a task that has *)
(* it registered.                                                          *)
(***************************************************************************)
EXTENDS TransferManager, FiniteSetTheorems, TLAPS

(* The registrations of a task of kind k at the place p.                    *)
Owned(k, p) ==
  CASE p = "idle" -> {0}
    [] p \in {"copy", "leave"} -> {2}
    [] p \in {"check", "judge"} -> IF k = "agent" THEN {2} ELSE {1, 2}
    [] p \in {"vet", "activate", "nest", "quit"} -> {1}
    [] OTHER -> IF k = "agent" THEN {0} ELSE {1}

HeldInv ==
  \A t \in Tasks :
    /\ held[t] \in Owned(kind[t], pc[t])
    /\ pc[t] # "idle" => transfer[t] \in Transfers
    /\ pc[t] \in {"enlist", "vet"} => kind[t] = "agent"

(* The types, but for the permits, which are counted first.                 *)
TaskTypes ==
  /\ pc \in [Tasks -> Labels] /\ kind \in [Tasks -> JobKinds]
  /\ transfer \in [Tasks -> Transfers \cup {None}]
  /\ held \in [Tasks -> 0 .. 2]

FlagTypes ==
  /\ woken \in [Tasks -> BOOLEAN] /\ accepted \in [Tasks -> BOOLEAN]
  /\ result \in [Tasks -> {"none", "completed", "failed", "refused", "interrupted",
                           "cancelled", "shutdown"}]

SessionTypes ==
  /\ controls \in [Transfers -> Control \cup {None}]
  /\ snapshot \in [Transfers -> Finished \cup {"None", "Pending", "Active", "Paused"}]
  /\ shutdown \in {"running", "marked", "collected", "swept"}
  /\ collected \subseteq Transfers
  /\ limit \in Limits
  /\ starts \in 0 .. MaxStarts /\ requests \in 0 .. MaxRequests

(* Where a task is, and what it has registered there.                       *)
LEMMA PlacesInit == Init => TaskTypes /\ HeldInv
  BY DEF Init, TaskTypes, HeldInv, Owned, Labels, JobKinds

LEMMA PlacesStep == TaskTypes /\ HeldInv /\ [Next]_vars => TaskTypes' /\ HeldInv'
<1>. SUFFICES ASSUME TaskTypes, HeldInv, [Next]_vars PROVE TaskTypes' /\ HeldInv'
  OBVIOUS
<1>. USE DEF TaskTypes, HeldInv, Goto
<1>1. CASE \E t \in Tasks, k \in JobKinds, i \in Transfers : Begin(t, k, i)
  <2>1. PICK t \in Tasks, k \in JobKinds, i \in Transfers : Begin(t, k, i)
    BY <1>1
  <2>2. TaskTypes'
    BY <2>1 DEF Begin, Register, Labels, Owned
  <2>3. HeldInv'
    BY <2>1, <2>2 DEF Begin, Register, Labels, Owned, JobKinds
  <2>. QED BY <2>2, <2>3
<1>2. CASE \E t \in Tasks : Step(t)
  <2>0. PICK t \in Tasks : Step(t)
    BY <1>2
  <2>. USE DEF taskVars, Owned, Labels, JobKinds
  <2>1. CASE Announce(t) \/ Insert(t)
    BY <2>1 DEF Announce, Insert
  <2>2. CASE Subscribe(t) \/ Look(t) \/ Wake(t) \/ Acquire(t)
    BY <2>2 DEF Subscribe, Look, Wake, Acquire
  <2>3. CASE Count(t) \/ Vet(t) \/ Activate(t)
    BY <2>3 DEF Count, Vet, Activate
  <2>4. CASE Enlist(t)
    BY <2>4 DEF Enlist, Register
  <2>5. CASE Nest(t)
    BY <2>5 DEF Nest, Register
  <2>6. CASE CopySome(t) \/ \E outcome \in {"completed", "failed"} : CopyEnds(t, outcome)
    BY <2>6 DEF CopySome, CopyEnds
  <2>7. CASE CheckOk(t)
    BY <2>7 DEF CheckOk
  <2>8. CASE GiveUp(t) \/ CheckInterrupted(t) \/ CheckCancelled(t) \/ Judge(t)
    BY <2>8 DEF GiveUp, WindUp, CheckInterrupted, CheckCancelled, Judge, Unwind
  <2>9. CASE Leave(t)
    BY <2>9 DEF Leave, WindUp, Unregister
  <2>10. CASE Finish(t)
    BY <2>10 DEF Finish, Forget
  <2>11. CASE Drop(t) \/ Return(t)
    BY <2>11 DEF Drop, Return
  <2>12. CASE Quit(t)
    BY <2>12 DEF Quit, Unregister, Forget
  <2>. QED BY <2>0, <2>1, <2>2, <2>3, <2>4, <2>5, <2>6, <2>7, <2>8, <2>9, <2>10, <2>11, <2>12
       DEF Step
<1>3. CASE UNCHANGED <<pc, kind, transfer, held>>
  BY <1>3
<1>4. (\E i \in Transfers : Request(i)) \/ (\E m \in Limits : SetLimit(m)) \/ Shutdown
        \/ UNCHANGED vars => UNCHANGED <<pc, kind, transfer, held>>
  BY DEF Request, Cancel, Pause, Resume, Interrupt, SetLimit, Shutdown, BeginShutdown,
         Collect, CancelCollected, Sweep, requestVars, vars
<1>. QED BY <1>1, <1>2, <1>3, <1>4 DEF Next

-----------------------------------------------------------------------------
(* What the tasks, and the session, remember.                               *)
LEMMA FlagsInit == Init => FlagTypes
  BY DEF Init, FlagTypes

LEMMA FlagsStep == TaskTypes /\ FlagTypes /\ [Next]_vars => FlagTypes'
<1>. SUFFICES ASSUME TaskTypes, FlagTypes, [Next]_vars PROVE FlagTypes'
  OBVIOUS
<1>. USE DEF FlagTypes, Goto
<1>1. CASE \E t \in Tasks, k \in JobKinds, i \in Transfers : Begin(t, k, i)
  BY <1>1 DEF Begin
<1>2. CASE \E t \in Tasks : Step(t)
  <2>0. PICK t \in Tasks : Step(t)
    BY <1>2
  <2>1. CASE Announce(t) \/ Insert(t) \/ Count(t) \/ Activate(t)
    BY <2>1 DEF Announce, Insert, Count, Activate, Running
  <2>2. CASE Subscribe(t) \/ Look(t) \/ Wake(t) \/ Acquire(t)
    BY <2>2 DEF Subscribe, Look, Wake, Acquire
  <2>3. CASE Vet(t) \/ \E outcome \in {"completed", "failed"} : CopyEnds(t, outcome)
    BY <2>3 DEF Vet, CopyEnds
  <2>4. CASE Enlist(t) \/ Nest(t) \/ CopySome(t) \/ CheckOk(t) \/ CheckCancelled(t) \/ Leave(t)
    BY <2>4 DEF Enlist, Nest, CopySome, CheckOk, CheckCancelled, Leave
  <2>5. CASE GiveUp(t) \/ CheckInterrupted(t) \/ Judge(t)
    BY <2>5 DEF GiveUp, WindUp, CheckInterrupted, Judge
  <2>6. CASE Finish(t) \/ Quit(t)
    BY <2>6 DEF Finish, Quit, Forget
  <2>7. CASE Drop(t) \/ Return(t)
    BY <2>7 DEF Drop, Return, Notified
  <2>. QED BY <2>0, <2>1, <2>2, <2>3, <2>4, <2>5, <2>6, <2>7 DEF Step
<1>3. CASE \E m \in Limits : SetLimit(m)
  BY <1>3 DEF SetLimit, requestVars, Notified
<1>4. CASE UNCHANGED <<woken, accepted, result>>
  BY <1>4
<1>5. (\E i \in Transfers : Request(i)) \/ Shutdown \/ UNCHANGED vars
        => UNCHANGED <<woken, accepted, result>>
  BY DEF Request, Cancel, Pause, Resume, Interrupt, Shutdown, BeginShutdown,
         Collect, CancelCollected, Sweep, requestVars, vars
<1>. QED BY <1>1, <1>2, <1>3, <1>4, <1>5 DEF Next

(* A registration, and a flag that is set, keep the controls typed.         *)
LEMMA ControlTypes ==
  ASSUME NEW c \in Control
  PROVE  /\ [c EXCEPT !.cancelled = TRUE, !.byUser = TRUE] \in Control
         /\ [c EXCEPT !.cancelled = TRUE] \in Control
         /\ [c EXCEPT !.interrupted = TRUE] \in Control
         /\ [c EXCEPT !.paused = TRUE] \in Control
         /\ [c EXCEPT !.paused = FALSE] \in Control
<1>1. [c EXCEPT !.cancelled = TRUE, !.byUser = TRUE] \in Control
  BY DEF Control
<1>2. [c EXCEPT !.cancelled = TRUE] \in Control
  BY DEF Control
<1>3. [c EXCEPT !.interrupted = TRUE] \in Control
  BY DEF Control
<1>4. [c EXCEPT !.paused = TRUE] \in Control /\ [c EXCEPT !.paused = FALSE] \in Control
  BY DEF Control
<1>. QED BY <1>1, <1>2, <1>3, <1>4

LEMMA NewControlTypes == NewControl \in Control
  BY DEF NewControl, Control, Running

LEMMA OwnerTypes ==
  ASSUME NEW c \in Control \cup {None}
  PROVE  Joined(c) \in Control /\ Parted(c) \in Control \cup {None}
<1>1. CASE c = None
  BY <1>1, NewControlTypes DEF Joined, Parted
<1>2. CASE c # None
  <2>1. c \in Control /\ c.owners \in Nat \ {0}
    BY <1>2 DEF Control
  <2>2. [c EXCEPT !.owners = @ + 1] \in Control
    BY <2>1 DEF Control
  <2>3. ~(c.owners <= 1) => [c EXCEPT !.owners = @ - 1] \in Control
    BY <2>1 DEF Control
  <2>4. Joined(c) = [c EXCEPT !.owners = @ + 1]
    BY <1>2 DEF Joined
  <2>5. Parted(c) = IF c.owners <= 1 THEN None ELSE [c EXCEPT !.owners = @ - 1]
    BY <1>2 DEF Parted
  <2>. QED BY <2>2, <2>3, <2>4, <2>5
<1>. QED BY <1>1, <1>2

LEMMA RegisterTypes ==
  ASSUME controls \in [Transfers -> Control \cup {None}],
         NEW t \in Tasks, NEW i \in Transfers, Register(t, i)
  PROVE  controls' \in [Transfers -> Control \cup {None}]
  BY OwnerTypes DEF Register

LEMMA UnregisterTypes ==
  ASSUME controls \in [Transfers -> Control \cup {None}],
         NEW t \in Tasks, transfer[t] \in Transfers, Unregister(t)
  PROVE  controls' \in [Transfers -> Control \cup {None}]
  BY OwnerTypes DEF Unregister

LEMMA SessionInit == Init => SessionTypes
  BY TransferAssumption DEF Init, SessionTypes, Finished

(* Nobody but the shutdown says how far it is.                              *)
LEMMA ShutdownSteps == [Next]_vars => Shutdown \/ UNCHANGED <<shutdown, collected>>
<1>. SUFFICES ASSUME [Next]_vars, ~Shutdown PROVE UNCHANGED shutdownVars
  BY DEF shutdownVars
<1>1. ASSUME NEW t \in Tasks, Step(t) PROVE UNCHANGED shutdownVars
  BY <1>1
     DEF Step, Announce, Insert, Subscribe, Look, Wake, Acquire, Count, Enlist, Vet,
         Activate, Nest, CopySome, CopyEnds, CheckOk, GiveUp, WindUp, CheckInterrupted,
         CheckCancelled,
         Judge, Leave, Finish, Drop, Return, Quit
<1>2. ASSUME NEW t \in Tasks, NEW k \in JobKinds, NEW i \in Transfers, Begin(t, k, i)
      PROVE  UNCHANGED shutdownVars
  BY <1>2 DEF Begin
<1>3. ASSUME NEW i \in Transfers, Request(i) PROVE UNCHANGED shutdownVars
  BY <1>3 DEF Request, Cancel, Pause, Resume, Interrupt
<1>4. (\E m \in Limits : SetLimit(m)) \/ UNCHANGED vars => UNCHANGED shutdownVars
  BY DEF SetLimit, vars, shutdownVars
<1>. QED BY <1>1, <1>2, <1>3, <1>4 DEF Next

LEMMA SessionStep ==
  TaskTypes /\ HeldInv /\ SessionTypes /\ [Next]_vars => SessionTypes'
<1>. SUFFICES ASSUME TaskTypes, HeldInv, SessionTypes, [Next]_vars PROVE SessionTypes'
  OBVIOUS
<1>. DEFINE States == Finished \cup {"None", "Pending", "Active", "Paused"}
<1>0. /\ controls \in [Transfers -> Control \cup {None}]
      /\ snapshot \in [Transfers -> States]
  BY DEF SessionTypes
<1>1. controls' \in [Transfers -> Control \cup {None}]
  <2>1. ASSUME NEW t \in Tasks, NEW k \in JobKinds, NEW i \in Transfers, Begin(t, k, i)
        PROVE  controls' \in [Transfers -> Control \cup {None}]
    BY <1>0, <2>1, RegisterTypes DEF Begin
  <2>2. ASSUME NEW t \in Tasks, Step(t)
        PROVE  controls' \in [Transfers -> Control \cup {None}]
    <3>1. CASE Enlist(t) \/ Nest(t)
      BY <1>0, <3>1, RegisterTypes DEF Enlist, Nest, HeldInv
    <3>2. CASE Leave(t) \/ Quit(t)
      BY <1>0, <3>2, UnregisterTypes DEF Leave, Quit, HeldInv
    <3>3. CASE UNCHANGED controls
      BY <1>0, <3>3
    <3>. QED
      BY <2>2, <3>1, <3>2, <3>3
         DEF Step, Announce, Insert, Subscribe, Look, Wake, Acquire, Count, Vet, Activate,
             CopySome, CopyEnds, CheckOk, GiveUp, WindUp, CheckInterrupted,
             CheckCancelled, Judge, Finish,
             Drop, Return
  <2>3. ASSUME NEW i \in Transfers, Request(i)
        PROVE  controls' \in [Transfers -> Control \cup {None}]
    <3>1. controls[i] # None =>
            /\ [controls[i] EXCEPT !.cancelled = TRUE, !.byUser = TRUE] \in Control
            /\ [controls[i] EXCEPT !.interrupted = TRUE] \in Control
            /\ [controls[i] EXCEPT !.paused = TRUE] \in Control
            /\ [controls[i] EXCEPT !.paused = FALSE] \in Control
      BY <1>0, ControlTypes
    <3>2. CASE Cancel(i)
      BY <1>0, <3>1, <3>2 DEF Cancel
    <3>3. CASE Pause(i) \/ Resume(i)
      BY <1>0, <3>1, <3>3 DEF Pause, Resume
    <3>4. CASE Interrupt(i)
      BY <1>0, <3>1, <3>4 DEF Interrupt
    <3>. QED BY <2>3, <3>2, <3>3, <3>4 DEF Request
  <2>4. ASSUME Shutdown
        PROVE  controls' \in [Transfers -> Control \cup {None}]
    <3>1. ASSUME NEW i \in Transfers, CancelCollected(i)
          PROVE  controls' \in [Transfers -> Control \cup {None}]
      <4>1. controls[i] # None => [controls[i] EXCEPT !.cancelled = TRUE] \in Control
        BY <1>0, ControlTypes
      <4>. QED BY <1>0, <3>1, <4>1 DEF CancelCollected
    <3>. QED BY <1>0, <2>4, <3>1 DEF Shutdown, BeginShutdown, Collect, Sweep
  <2>5. (\E m \in Limits : SetLimit(m)) \/ UNCHANGED vars => UNCHANGED controls
    BY DEF SetLimit, vars
  <2>. QED BY <1>0, <2>1, <2>2, <2>3, <2>4, <2>5 DEF Next
<1>2. snapshot' \in [Transfers -> States]
  <2>1. ASSUME NEW t \in Tasks, Step(t)
        PROVE  snapshot' \in [Transfers -> States]
    <3>1. CASE Announce(t)
      BY <1>0, <3>1 DEF Announce, Cleaned
    <3>2. CASE Insert(t)
      BY <1>0, <3>2 DEF Insert, Finished
    <3>3. CASE Activate(t) \/ CopySome(t)
      BY <1>0, <3>3 DEF Activate, CopySome, Activated
    <3>4. CASE Finish(t)
      BY <1>0, <3>4 DEF Finish, FinalState, FinalStateOfTask, Finished
    <3>5. CASE UNCHANGED snapshot
      BY <1>0, <3>5
    <3>. QED
      BY <2>1, <3>1, <3>2, <3>3, <3>4, <3>5
         DEF Step, Subscribe, Look, Wake, Acquire, Count, Enlist, Vet, Nest, CopyEnds,
             CheckOk, GiveUp, WindUp, CheckInterrupted, CheckCancelled, Judge, Leave,
             Drop, Return, Quit
  <2>2. ASSUME NEW i \in Transfers, Request(i)
        PROVE  snapshot' \in [Transfers -> States]
    BY <1>0, <2>2 DEF Request, Cancel, Pause, Resume, Interrupt, Finished
  <2>3. ASSUME Shutdown
        PROVE  snapshot' \in [Transfers -> States]
    BY <1>0, <2>3 DEF Shutdown, BeginShutdown, Collect, CancelCollected, Sweep, Finished
  <2>4. ASSUME NEW t \in Tasks, NEW k \in JobKinds, NEW i \in Transfers, Begin(t, k, i)
        PROVE  UNCHANGED snapshot
    BY <2>4 DEF Begin
  <2>5. (\E m \in Limits : SetLimit(m)) \/ UNCHANGED vars => UNCHANGED snapshot
    BY DEF SetLimit, vars
  <2>. QED BY <1>0, <2>1, <2>2, <2>3, <2>4, <2>5 DEF Next
<1>3. /\ shutdown' \in {"running", "marked", "collected", "swept"}
      /\ collected' \subseteq Transfers
  <2>1. CASE Shutdown
    BY <2>1 DEF Shutdown, BeginShutdown, Collect, CancelCollected, Sweep, SessionTypes
  <2>. QED BY <2>1, ShutdownSteps DEF SessionTypes
<1>4. limit' \in Limits /\ starts' \in 0 .. MaxStarts /\ requests' \in 0 .. MaxRequests
  <2>0. MaxStarts \in Nat /\ MaxRequests \in Nat
    BY TransferAssumption
  <2>1. CASE \E t \in Tasks, k \in JobKinds, i \in Transfers : Begin(t, k, i)
    BY <2>0, <2>1 DEF Begin, limitVars, SessionTypes
  <2>2. ASSUME NEW t \in Tasks, Step(t)
        PROVE  UNCHANGED <<limit, starts, requests>>
    BY <2>2
       DEF Step, Announce, Insert, Subscribe, Look, Wake, Acquire, Count, Enlist, Vet,
           Activate, Nest, CopySome, CopyEnds, CheckOk, GiveUp, WindUp, CheckInterrupted,
           CheckCancelled,
           Judge, Leave, Finish, Drop, Return, Quit, limitVars, taskVars
  <2>3. CASE \E i \in Transfers : Request(i)
    BY <2>0, <2>3
       DEF Request, Cancel, Pause, Resume, Interrupt, Asked, limitVars, requestVars, SessionTypes
  <2>4. CASE \E m \in Limits : SetLimit(m)
    BY <2>0, <2>4 DEF SetLimit, Asked, requestVars, SessionTypes
  <2>5. Shutdown \/ UNCHANGED vars => UNCHANGED <<limit, starts, requests>>
    BY DEF Shutdown, BeginShutdown, Collect, CancelCollected, Sweep, limitVars, requestVars, vars
  <2>. QED BY <2>1, <2>2, <2>3, <2>4, <2>5 DEF Next, SessionTypes
<1>. QED BY <1>1, <1>2, <1>3, <1>4 DEF SessionTypes

-----------------------------------------------------------------------------
(* The permits.                                                             *)

Holders  == {t \in Tasks : HasPermit(t)}
Counters == {t \in Tasks : Counts(t)}

LEMMA Finite == IsFiniteSet(Holders) /\ IsFiniteSet(Counters)
  BY TransferAssumption, FS_Subset DEF Holders, Counters

LEMMA PermitsInit == Init => PermitsExact
<1>1. Init => Holders = {} /\ Counters = {}
  BY DEF Init, Holders, Counters, HasPermit, Counts
<1>. QED BY <1>1, FS_EmptySet, TransferAssumption DEF Init, PermitsExact, Holders, Counters

(* Who holds a permit, and who counts, changes in four steps only.          *)
LEMMA HoldersStep ==
  ASSUME TaskTypes, HeldInv, [Next]_vars
  PROVE  \/ /\ Holders' = Holders /\ Counters' = Counters
            /\ UNCHANGED <<active, permits>>
         \/ \E t \in Tasks :
              \/ /\ Holders' = Holders \cup {t} /\ t \notin Holders /\ Counters' = Counters
                 /\ permits < MaxPermits /\ permits' = permits + 1 /\ active' = active
              \/ /\ Counters' = Counters \cup {t} /\ t \notin Counters /\ Holders' = Holders
                 /\ active' = active + 1 /\ permits' = permits
              \/ /\ Counters' = Counters \ {t} /\ t \in Counters /\ Holders' = Holders
                 /\ active' = (IF active = 0 THEN 0 ELSE active - 1) /\ permits' = permits
              \/ /\ Holders' = Holders \ {t} /\ t \in Holders /\ Counters' = Counters
                 /\ permits' = permits - 1 /\ active' = active
<1>. DEFINE Same == Holders' = Holders /\ Counters' = Counters /\ UNCHANGED <<active, permits>>
<1>. USE DEF Holders, Counters, HasPermit, Counts, TaskTypes, HeldInv, Goto
<1>1. ASSUME NEW t \in Tasks, NEW k \in JobKinds, NEW i \in Transfers, Begin(t, k, i)
      PROVE  Same
  BY <1>1 DEF Begin, limitVars, JobKinds
<1>2. ASSUME NEW t \in Tasks, Acquire(t)
      PROVE  /\ Holders' = Holders \cup {t} /\ t \notin Holders /\ Counters' = Counters
             /\ permits < MaxPermits /\ permits' = permits + 1 /\ active' = active
  BY <1>2 DEF Acquire, taskVars
<1>3. ASSUME NEW t \in Tasks, Count(t)
      PROVE  /\ Counters' = Counters \cup {t} /\ t \notin Counters /\ Holders' = Holders
             /\ active' = active + 1 /\ permits' = permits
  BY <1>3 DEF Count, taskVars
<1>4. ASSUME NEW t \in Tasks, Drop(t)
      PROVE  /\ Counters' = Counters \ {t} /\ t \in Counters /\ Holders' = Holders
             /\ active' = (IF active = 0 THEN 0 ELSE active - 1) /\ permits' = permits
  BY <1>4 DEF Drop, taskVars
<1>5. ASSUME NEW t \in Tasks, Return(t)
      PROVE  /\ Holders' = Holders \ {t} /\ t \in Holders /\ Counters' = Counters
             /\ permits' = permits - 1 /\ active' = active
  BY <1>5 DEF Return, taskVars
<1>6. ASSUME NEW t \in Tasks, Step(t), ~Acquire(t), ~Count(t), ~Drop(t), ~Return(t)
      PROVE  Same
  <2>. USE DEF limitVars, taskVars, Owned
  <2>1. CASE Announce(t) \/ Insert(t)
    BY <2>1 DEF Announce, Insert
  <2>2. CASE Subscribe(t) \/ Look(t) \/ Wake(t)
    BY <2>2 DEF Subscribe, Look, Wake
  <2>3. CASE Enlist(t) \/ Vet(t) \/ Activate(t) \/ Nest(t) \/ CopySome(t)
    BY <2>3 DEF Enlist, Vet, Activate, Nest, CopySome
  <2>4. CASE \E outcome \in {"completed", "failed"} : CopyEnds(t, outcome)
    BY <2>4 DEF CopyEnds
  <2>5. CASE CheckOk(t) \/ CheckInterrupted(t) \/ CheckCancelled(t) \/ Judge(t)
    BY <2>5 DEF CheckOk, CheckInterrupted, CheckCancelled, Judge, Unwind
  <2>6. CASE Leave(t)
    BY <2>6 DEF Leave, WindUp, JobKinds
  <2>9. CASE GiveUp(t)
    BY <2>9 DEF GiveUp, WindUp, JobKinds
  <2>7. CASE Finish(t)
    BY <2>7 DEF Finish, Forget
  <2>8. CASE Quit(t)
    BY <2>8 DEF Quit, Forget
  <2>. QED BY <1>6, <2>1, <2>2, <2>3, <2>4, <2>5, <2>6, <2>7, <2>8, <2>9 DEF Step
<1>7. CASE UNCHANGED <<pc, kind, active, permits>>
  BY <1>7
<1>8. (\E i \in Transfers : Request(i)) \/ (\E m \in Limits : SetLimit(m)) \/ Shutdown
        \/ UNCHANGED vars => UNCHANGED <<pc, kind, active, permits>>
  BY DEF Request, Cancel, Pause, Resume, Interrupt, SetLimit, Shutdown, BeginShutdown,
         Collect, CancelCollected, Sweep, requestVars, limitVars, vars
<1>. QED
  <2>. HIDE DEF Holders, Counters, TaskTypes, HeldInv
  <2>1. CASE \E t \in Tasks : Step(t)
    <3>1. PICK t \in Tasks : Step(t)
      BY <2>1
    <3>. QED BY <1>2, <1>3, <1>4, <1>5, <1>6, <3>1
  <2>. QED BY <1>1, <1>7, <1>8, <2>1 DEF Next

LEMMA PermitsStep == TaskTypes /\ HeldInv /\ PermitsExact /\ [Next]_vars => PermitsExact'
<1>. SUFFICES ASSUME TaskTypes, HeldInv, PermitsExact, [Next]_vars PROVE PermitsExact'
  OBVIOUS
<1>1. active = Cardinality(Counters) /\ permits = Cardinality(Holders) /\ permits <= MaxPermits
  BY DEF PermitsExact, Counters, Holders
<1>2. Cardinality(Counters) \in Nat /\ Cardinality(Holders) \in Nat /\ MaxPermits \in Nat
  BY Finite, FS_CardinalityType, TransferAssumption
<1>. DEFINE Exactly == /\ active' = Cardinality(Counters') /\ permits' = Cardinality(Holders')
                       /\ permits' <= MaxPermits
<1>3. Exactly
  <2>1. CASE Holders' = Holders /\ Counters' = Counters /\ UNCHANGED <<active, permits>>
    BY <1>1, <2>1
  <2>2. ASSUME NEW t \in Tasks,
               Holders' = Holders \cup {t}, t \notin Holders, Counters' = Counters,
               permits < MaxPermits, permits' = permits + 1, active' = active
        PROVE  Exactly
    <3>1. Cardinality(Holders \cup {t}) = Cardinality(Holders) + 1
      BY <2>2, Finite, FS_AddElement
    <3>. QED BY <1>1, <1>2, <2>2, <3>1
  <2>3. ASSUME NEW t \in Tasks,
               Counters' = Counters \cup {t}, t \notin Counters, Holders' = Holders,
               active' = active + 1, permits' = permits
        PROVE  Exactly
    <3>1. Cardinality(Counters \cup {t}) = Cardinality(Counters) + 1
      BY <2>3, Finite, FS_AddElement
    <3>. QED BY <1>1, <1>2, <2>3, <3>1
  <2>4. ASSUME NEW t \in Tasks,
               Counters' = Counters \ {t}, t \in Counters, Holders' = Holders,
               active' = (IF active = 0 THEN 0 ELSE active - 1), permits' = permits
        PROVE  Exactly
    <3>1. Cardinality(Counters \ {t}) = Cardinality(Counters) - 1
      BY <2>4, Finite, FS_RemoveElement
    <3>2. Cardinality(Counters \ {t}) \in Nat
      BY Finite, FS_RemoveElement, FS_CardinalityType
    <3>. QED BY <1>1, <1>2, <2>4, <3>1, <3>2
  <2>5. ASSUME NEW t \in Tasks,
               Holders' = Holders \ {t}, t \in Holders, Counters' = Counters,
               permits' = permits - 1, active' = active
        PROVE  Exactly
    <3>1. Cardinality(Holders \ {t}) = Cardinality(Holders) - 1
      BY <2>5, Finite, FS_RemoveElement
    <3>. QED BY <1>1, <1>2, <2>5, <3>1
  <2>. QED BY <2>1, <2>2, <2>3, <2>4, <2>5, HoldersStep
<1>. QED BY <1>3 DEF PermitsExact, Counters, Holders

-----------------------------------------------------------------------------
(* The owners.                                                              *)

OwnersOf(c) == IF c = None THEN 0 ELSE c.owners

LEMMA RegistrationsFinite == \A i : IsFiniteSet(Registrations(i))
<1>1. IsFiniteSet({1, 2})
  <2>1. IsFiniteSet({1})
    BY FS_Singleton
  <2>2. IsFiniteSet({1} \cup {2})
    BY <2>1, FS_AddElement
  <2>. QED BY <2>1, <2>2
<1>2. IsFiniteSet(Tasks \X {1, 2})
  BY <1>1, TransferAssumption, FS_Product
<1>3. ASSUME NEW i PROVE IsFiniteSet(Registrations(i))
  <2>1. Registrations(i) \in SUBSET (Tasks \X {1, 2})
    BY DEF Registrations
  <2>. QED BY <1>2, <2>1, FS_Subset
<1>. QED BY <1>3

(* A registration more.                                                     *)
LEMMA RegistrationAdded ==
  ASSUME TaskTypes, NEW t \in Tasks, NEW i \in Transfers,
         held' = [held EXCEPT ![t] = @ + 1], held[t] \in {0, 1},
         \/ transfer' = transfer /\ transfer[t] = i
         \/ transfer' = [transfer EXCEPT ![t] = i] /\ held[t] = 0
  PROVE  /\ Registrations(i)' = Registrations(i) \cup {<<t, held[t] + 1>>}
         /\ <<t, held[t] + 1>> \notin Registrations(i)
         /\ \A j \in Transfers \ {i} : Registrations(j)' = Registrations(j)
<1>. DEFINE R(j, u, n)  == transfer[u] = j /\ n <= held[u]
            R1(j, u, n) == transfer'[u] = j /\ n <= held'[u]
<1>1. ASSUME NEW u \in Tasks, NEW n \in {1, 2}
      PROVE  R1(i, u, n) <=> R(i, u, n) \/ (u = t /\ n = held[t] + 1)
  BY DEF TaskTypes
<1>2. ASSUME NEW j \in Transfers \ {i}, NEW u \in Tasks, NEW n \in {1, 2}
      PROVE  R1(j, u, n) <=> R(j, u, n)
  BY DEF TaskTypes
<1>3. ~R(i, t, held[t] + 1)
  BY DEF TaskTypes
<1>4. held[t] + 1 \in {1, 2}
  OBVIOUS
<1>5. \A j : /\ Registrations(j) = {r \in Tasks \X {1, 2} : R(j, r[1], r[2])}
            /\ Registrations(j)' = {r \in Tasks \X {1, 2} : R1(j, r[1], r[2])}
  BY DEF Registrations
<1>. HIDE DEF R, R1
<1>6. Registrations(i)' = Registrations(i) \cup {<<t, held[t] + 1>>}
  BY <1>1, <1>4, <1>5
<1>7. <<t, held[t] + 1>> \notin Registrations(i)
  BY <1>3, <1>5
<1>8. ASSUME NEW j \in Transfers \ {i} PROVE Registrations(j)' = Registrations(j)
  BY <1>2, <1>5
<1>. QED BY <1>6, <1>7, <1>8

(* A registration less.                                                     *)
LEMMA RegistrationTaken ==
  ASSUME TaskTypes, NEW t \in Tasks, NEW i \in Transfers, i = transfer[t],
         held' = [held EXCEPT ![t] = @ - 1], held[t] \in {1, 2}, None \notin Transfers,
         \/ transfer' = transfer
         \/ transfer' = [transfer EXCEPT ![t] = None] /\ held[t] = 1
  PROVE  /\ Registrations(i)' = Registrations(i) \ {<<t, held[t]>>}
         /\ <<t, held[t]>> \in Registrations(i)
         /\ \A j \in Transfers \ {i} : Registrations(j)' = Registrations(j)
<1>. DEFINE R(j, u, n)  == transfer[u] = j /\ n <= held[u]
            R1(j, u, n) == transfer'[u] = j /\ n <= held'[u]
<1>1. ASSUME NEW u \in Tasks, NEW n \in {1, 2}
      PROVE  R1(i, u, n) <=> R(i, u, n) /\ ~(u = t /\ n = held[t])
  BY DEF TaskTypes
<1>2. ASSUME NEW j \in Transfers \ {i}, NEW u \in Tasks, NEW n \in {1, 2}
      PROVE  R1(j, u, n) <=> R(j, u, n)
  BY DEF TaskTypes
<1>3. R(i, t, held[t])
  BY DEF TaskTypes
<1>5. \A j : /\ Registrations(j) = {r \in Tasks \X {1, 2} : R(j, r[1], r[2])}
            /\ Registrations(j)' = {r \in Tasks \X {1, 2} : R1(j, r[1], r[2])}
  BY DEF Registrations
<1>. HIDE DEF R, R1
<1>6. Registrations(i)' = Registrations(i) \ {<<t, held[t]>>}
  BY <1>1, <1>5
<1>7. <<t, held[t]>> \in Registrations(i)
  BY <1>3, <1>5
<1>8. ASSUME NEW j \in Transfers \ {i} PROVE Registrations(j)' = Registrations(j)
  BY <1>2, <1>5
<1>. QED BY <1>6, <1>7, <1>8

LEMMA OwnersJoined ==
  ASSUME NEW c \in Control \cup {None}
  PROVE  /\ OwnersOf(c) \in Nat /\ OwnersOf(Joined(c)) = OwnersOf(c) + 1
         /\ OwnersOf(c) > 0 => OwnersOf(Parted(c)) = OwnersOf(c) - 1
<1>0. None \notin Control
  BY TransferAssumption
<1>1. CASE c = None
  <2>1. NewControl.owners = 1
    BY DEF NewControl
  <2>. QED BY <1>0, <1>1, <2>1, NewControlTypes DEF OwnersOf, Joined
<1>2. CASE c # None
  <2>1. c \in Control /\ c.owners \in Nat \ {0}
    BY <1>2 DEF Control
  <2>2. Joined(c) = [c EXCEPT !.owners = @ + 1] /\ Joined(c).owners = c.owners + 1
    BY <1>2, <2>1 DEF Joined, Control
  <2>3. Joined(c) # None
    BY <1>0, OwnerTypes
  <2>4. CASE c.owners <= 1
    BY <1>2, <2>1, <2>2, <2>3, <2>4 DEF OwnersOf, Parted
  <2>5. CASE ~(c.owners <= 1)
    <3>1. Parted(c) = [c EXCEPT !.owners = @ - 1] /\ Parted(c).owners = c.owners - 1
      BY <1>2, <2>1, <2>5 DEF Parted, Control
    <3>2. [c EXCEPT !.owners = @ - 1] \in Control
      BY <2>1, <2>5 DEF Control
    <3>3. Parted(c) # None
      BY <1>0, <3>1, <3>2
    <3>. QED BY <1>2, <2>1, <2>2, <2>3, <3>1, <3>3 DEF OwnersOf
  <2>. QED BY <2>4, <2>5
<1>. QED BY <1>1, <1>2

(* A flag does not change who owns a control.                               *)
LEMMA OwnersFlagged ==
  ASSUME NEW c \in Control
  PROVE  /\ OwnersOf([c EXCEPT !.cancelled = TRUE, !.byUser = TRUE]) = OwnersOf(c)
         /\ OwnersOf([c EXCEPT !.cancelled = TRUE]) = OwnersOf(c)
         /\ OwnersOf([c EXCEPT !.interrupted = TRUE]) = OwnersOf(c)
         /\ OwnersOf([c EXCEPT !.paused = TRUE]) = OwnersOf(c)
         /\ OwnersOf([c EXCEPT !.paused = FALSE]) = OwnersOf(c)
<1>1. None \notin Control
  BY TransferAssumption
<1>2. ASSUME NEW d \in Control, d.owners = c.owners PROVE OwnersOf(d) = OwnersOf(c)
  BY <1>1, <1>2 DEF OwnersOf
<1>3. OwnersOf([c EXCEPT !.cancelled = TRUE, !.byUser = TRUE]) = OwnersOf(c)
  <2>1. [c EXCEPT !.cancelled = TRUE, !.byUser = TRUE].owners = c.owners
    BY DEF Control
  <2>. QED BY <1>2, <2>1, ControlTypes
<1>4. OwnersOf([c EXCEPT !.cancelled = TRUE]) = OwnersOf(c)
  <2>1. [c EXCEPT !.cancelled = TRUE].owners = c.owners
    BY DEF Control
  <2>. QED BY <1>2, <2>1, ControlTypes
<1>5. OwnersOf([c EXCEPT !.interrupted = TRUE]) = OwnersOf(c)
  <2>1. [c EXCEPT !.interrupted = TRUE].owners = c.owners
    BY DEF Control
  <2>. QED BY <1>2, <2>1, ControlTypes
<1>6. OwnersOf([c EXCEPT !.paused = TRUE]) = OwnersOf(c)
  <2>1. [c EXCEPT !.paused = TRUE].owners = c.owners
    BY DEF Control
  <2>. QED BY <1>2, <2>1, ControlTypes
<1>7. OwnersOf([c EXCEPT !.paused = FALSE]) = OwnersOf(c)
  <2>1. [c EXCEPT !.paused = FALSE].owners = c.owners
    BY DEF Control
  <2>. QED BY <1>2, <2>1, ControlTypes
<1>. QED BY <1>3, <1>4, <1>5, <1>6, <1>7

(* ControlsOwned, in these terms.                                           *)
Balanced == \A i \in Transfers : Cardinality(Registrations(i)) = OwnersOf(controls[i])

LEMMA BalancedIsOwned == Balanced <=> ControlsOwned
  BY DEF Balanced, ControlsOwned, OwnersOf

LEMMA RegisterBalanced ==
  ASSUME TaskTypes, SessionTypes, Balanced, NEW t \in Tasks, NEW i \in Transfers,
         Register(t, i), held[t] \in {0, 1},
         \/ transfer' = transfer /\ transfer[t] = i
         \/ transfer' = [transfer EXCEPT ![t] = i] /\ held[t] = 0
  PROVE  Balanced'
<1>1. /\ Registrations(i)' = Registrations(i) \cup {<<t, held[t] + 1>>}
      /\ <<t, held[t] + 1>> \notin Registrations(i)
      /\ \A j \in Transfers \ {i} : Registrations(j)' = Registrations(j)
  BY RegistrationAdded DEF Register
<1>2. controls'[i] = Joined(controls[i]) /\ \A j \in Transfers \ {i} : controls'[j] = controls[j]
  BY DEF Register, SessionTypes
<1>3. Cardinality(Registrations(i)') = Cardinality(Registrations(i)) + 1
  <2>. DEFINE S == Registrations(i)  e == <<t, held[t] + 1>>
  <2>1. IsFiniteSet(S) /\ e \notin S /\ Registrations(i)' = S \cup {e}
    BY <1>1, RegistrationsFinite
  <2>. HIDE DEF S, e
  <2>2. Cardinality(S \cup {e}) = Cardinality(S) + 1
    BY <2>1, FS_AddElement
  <2>3. Cardinality(Registrations(i)') = Cardinality(S) + 1
    BY <2>1, <2>2
  <2>. QED BY <2>3 DEF S
<1>4. OwnersOf(controls'[i]) = OwnersOf(controls[i]) + 1
  BY <1>2, OwnersJoined DEF SessionTypes
<1>5. Cardinality(Registrations(i)') = OwnersOf(controls'[i])
  BY <1>3, <1>4 DEF Balanced
<1>6. ASSUME NEW j \in Transfers \ {i}
      PROVE  Cardinality(Registrations(j)') = OwnersOf(controls'[j])
  BY <1>1, <1>2 DEF Balanced
<1>7. \A j \in Transfers : Cardinality(Registrations(j)') = OwnersOf(controls'[j])
  BY <1>5, <1>6
<1>. QED BY <1>7 DEF Balanced, OwnersOf

LEMMA UnregisterBalanced ==
  ASSUME TaskTypes, SessionTypes, Balanced, NEW t \in Tasks, NEW i \in Transfers,
         i = transfer[t], Unregister(t), held[t] \in {1, 2},
         \/ transfer' = transfer
         \/ transfer' = [transfer EXCEPT ![t] = None] /\ held[t] = 1
  PROVE  Balanced'
<1>1. /\ Registrations(i)' = Registrations(i) \ {<<t, held[t]>>}
      /\ <<t, held[t]>> \in Registrations(i)
      /\ \A j \in Transfers \ {i} : Registrations(j)' = Registrations(j)
  BY RegistrationTaken, TransferAssumption DEF Unregister
<1>2. controls'[i] = Parted(controls[i]) /\ \A j \in Transfers \ {i} : controls'[j] = controls[j]
  BY DEF Unregister, SessionTypes
<1>3. /\ Cardinality(Registrations(i)') = Cardinality(Registrations(i)) - 1
      /\ Cardinality(Registrations(i)') \in Nat
  <2>1. IsFiniteSet(Registrations(i)) /\ IsFiniteSet(Registrations(i) \ {<<t, held[t]>>})
    BY RegistrationsFinite, FS_RemoveElement
  <2>. QED BY <1>1, <2>1, FS_RemoveElement, FS_CardinalityType
<1>4. Cardinality(Registrations(i)) = OwnersOf(controls[i]) /\ OwnersOf(controls[i]) \in Nat
  BY OwnersJoined DEF Balanced, SessionTypes
<1>5. OwnersOf(controls'[i]) = OwnersOf(controls[i]) - 1
  BY <1>2, <1>3, <1>4, OwnersJoined DEF SessionTypes
<1>6. Cardinality(Registrations(i)') = OwnersOf(controls'[i])
  BY <1>3, <1>4, <1>5
<1>7. ASSUME NEW j \in Transfers \ {i}
      PROVE  Cardinality(Registrations(j)') = OwnersOf(controls'[j])
  BY <1>1, <1>2 DEF Balanced
<1>8. \A j \in Transfers : Cardinality(Registrations(j)') = OwnersOf(controls'[j])
  BY <1>6, <1>7
<1>. QED BY <1>8 DEF Balanced, OwnersOf

(* The other steps.                                                         *)
LEMMA UntouchedBalanced ==
  ASSUME TaskTypes, Balanced, UNCHANGED held,
         \A j \in Transfers : OwnersOf(controls'[j]) = OwnersOf(controls[j]),
         \A u \in Tasks : held[u] > 0 => transfer'[u] = transfer[u]
  PROVE  Balanced'
<1>1. ASSUME NEW j \in Transfers PROVE Registrations(j)' \subseteq Registrations(j)
  BY DEF Registrations, TaskTypes
<1>2. ASSUME NEW j \in Transfers PROVE Registrations(j) \subseteq Registrations(j)'
  BY DEF Registrations, TaskTypes
<1>3. \A j \in Transfers : Cardinality(Registrations(j)') = OwnersOf(controls'[j])
  BY <1>1, <1>2 DEF Balanced
<1>. QED BY <1>3 DEF Balanced, OwnersOf

LEMMA OwnersInit == Init => Balanced
<1>. SUFFICES ASSUME Init, NEW i \in Transfers
             PROVE  Cardinality(Registrations(i)) = OwnersOf(controls[i])
  BY DEF Balanced
<1>1. Registrations(i) = {}
  BY DEF Init, Registrations
<1>. QED BY <1>1, FS_EmptySet DEF Init, OwnersOf

LEMMA OwnersStep ==
  TaskTypes /\ HeldInv /\ SessionTypes /\ Balanced /\ [Next]_vars => Balanced'
<1>. SUFFICES ASSUME TaskTypes, HeldInv, SessionTypes, Balanced, [Next]_vars PROVE Balanced'
  OBVIOUS
<1>0. controls \in [Transfers -> Control \cup {None}]
  BY DEF SessionTypes
<1>1. ASSUME NEW t \in Tasks, NEW k \in JobKinds, NEW i \in Transfers, Begin(t, k, i)
      PROVE  Balanced'
  <2>1. held[t] = 0 /\ transfer' = [transfer EXCEPT ![t] = i]
    BY <1>1 DEF Begin, HeldInv, Owned
  <2>2. CASE k = "agent"
    <3>1. UNCHANGED <<controls, held>>
      BY <1>1, <2>2 DEF Begin
    <3>. QED BY <2>1, <3>1, UntouchedBalanced DEF TaskTypes
  <2>3. CASE k # "agent"
    <3>1. Register(t, i)
      BY <1>1, <2>3 DEF Begin
    <3>. QED BY <2>1, <3>1, RegisterBalanced
  <2>. QED BY <2>2, <2>3
<1>2. ASSUME NEW t \in Tasks, Step(t) PROVE Balanced'
  <2>1. CASE Enlist(t) \/ Nest(t)
    <3>1. Register(t, transfer[t]) /\ transfer' = transfer /\ pc[t] \in {"enlist", "nest"}
      BY <2>1 DEF Enlist, Nest, taskVars
    <3>2. held[t] \in {0, 1} /\ transfer[t] \in Transfers
      BY <3>1 DEF HeldInv, Owned
    <3>. QED BY <3>1, <3>2, RegisterBalanced
  <2>2. CASE Leave(t) \/ Quit(t)
    <3>1. /\ Unregister(t) /\ pc[t] \in {"leave", "quit"}
          /\ \/ transfer' = transfer
             \/ transfer' = [transfer EXCEPT ![t] = None] /\ pc[t] = "quit"
      BY <2>2 DEF Leave, Quit, taskVars, Forget
    <3>2. held[t] \in {1, 2} /\ (pc[t] = "quit" => held[t] = 1) /\ transfer[t] \in Transfers
      BY <3>1 DEF HeldInv, Owned
    <3>. QED BY <3>1, <3>2, UnregisterBalanced
  <2>3. CASE Finish(t)
    <3>1. /\ UNCHANGED <<controls, held>>
          /\ \/ transfer' = transfer
             \/ transfer' = [transfer EXCEPT ![t] = None] /\ kind[t] = "agent"
      BY <2>3 DEF Finish, Forget
    <3>2. kind[t] = "agent" => held[t] = 0
      BY <2>3 DEF Finish, HeldInv, Owned
    <3>. QED BY <3>1, <3>2, UntouchedBalanced DEF TaskTypes
  <2>4. CASE UNCHANGED <<controls, held, transfer>>
    BY <2>4, UntouchedBalanced
  <2>. QED
    BY <1>2, <2>1, <2>2, <2>3, <2>4
       DEF Step, Announce, Insert, Subscribe, Look, Wake, Acquire, Count, Vet, Activate,
           CopySome, CopyEnds, CheckOk, GiveUp, WindUp, CheckInterrupted, CheckCancelled,
           Judge, Drop,
           Return, taskVars
<1>3. ASSUME NEW i \in Transfers, Request(i) \/ CancelCollected(i) PROVE Balanced'
  <2>1. \A j \in Transfers : OwnersOf(controls'[j]) = OwnersOf(controls[j])
    <3>1. controls[i] # None =>
            /\ OwnersOf([controls[i] EXCEPT !.cancelled = TRUE, !.byUser = TRUE])
                 = OwnersOf(controls[i])
            /\ OwnersOf([controls[i] EXCEPT !.cancelled = TRUE]) = OwnersOf(controls[i])
            /\ OwnersOf([controls[i] EXCEPT !.interrupted = TRUE]) = OwnersOf(controls[i])
            /\ OwnersOf([controls[i] EXCEPT !.paused = TRUE]) = OwnersOf(controls[i])
            /\ OwnersOf([controls[i] EXCEPT !.paused = FALSE]) = OwnersOf(controls[i])
      BY <1>0, OwnersFlagged
    <3>2. CASE Cancel(i)
      BY <1>0, <3>1, <3>2 DEF Cancel
    <3>3. CASE Pause(i) \/ Resume(i)
      BY <1>0, <3>1, <3>3 DEF Pause, Resume
    <3>4. CASE Interrupt(i)
      BY <1>0, <3>1, <3>4 DEF Interrupt
    <3>5. CASE CancelCollected(i)
      BY <1>0, <3>1, <3>5 DEF CancelCollected
    <3>. QED BY <1>3, <3>2, <3>3, <3>4, <3>5 DEF Request
  <2>2. UNCHANGED <<held, transfer>>
    BY <1>3 DEF Request, Cancel, Pause, Resume, Interrupt, CancelCollected, requestVars
  <2>. QED BY <2>1, <2>2, UntouchedBalanced
<1>4. CASE UNCHANGED <<controls, held, transfer>>
  BY <1>4, UntouchedBalanced
<1>5. (\E m \in Limits : SetLimit(m)) \/ BeginShutdown \/ Collect \/ Sweep \/ UNCHANGED vars
        => UNCHANGED <<controls, held, transfer>>
  BY DEF SetLimit, BeginShutdown, Collect, Sweep, requestVars, vars
<1>. QED BY <1>1, <1>2, <1>3, <1>4, <1>5 DEF Next, Shutdown

(* A task that has registered its transfer finds the control.               *)
LEMMA Registered ==
  TaskTypes /\ Balanced
    => \A t \in Tasks : held[t] > 0 /\ transfer[t] \in Transfers => controls[transfer[t]] # None
<1>. SUFFICES ASSUME TaskTypes, Balanced, NEW t \in Tasks, held[t] > 0,
                    transfer[t] \in Transfers, controls[transfer[t]] = None
             PROVE  FALSE
  OBVIOUS
<1>. DEFINE S == Registrations(transfer[t])
<1>1. <<t, 1>> \in S
  BY DEF Registrations, TaskTypes
<1>2. Cardinality(S) = 0 /\ IsFiniteSet(S)
  BY RegistrationsFinite DEF Balanced, OwnersOf
<1>. HIDE DEF S
<1>3. S = {}
  BY <1>2, FS_EmptySet
<1>. QED BY <1>1, <1>3

-----------------------------------------------------------------------------
(* The flags of a control.                                                  *)

(* What a control becomes in a step that does not take it away: what is     *)
(* cancelled stays so.                                                      *)
Kept(i) ==
  controls[i] # None /\ controls'[i] # None
    => /\ controls[i].cancelled => controls'[i].cancelled
       /\ controls[i].byUser => controls'[i].byUser

(* What a new cancellation comes from.                                      *)
Told(i) ==
  controls'[i] # None /\ controls'[i].cancelled
    => \/ controls[i] # None /\ controls[i].cancelled /\ (controls[i].byUser => controls'[i].byUser)
       \/ controls'[i].byUser \/ ~Running

(* No control is left that the shutdown does not tell.                      *)
Untold(i) ==
  controls'[i] # None /\ ~controls'[i].cancelled
    => Running \/ (controls[i] # None /\ ~controls[i].cancelled)

LEMMA JoinedFlags ==
  ASSUME NEW c \in Control
  PROVE  /\ Joined(c).cancelled = c.cancelled /\ Joined(c).byUser = c.byUser
         /\ Parted(c) # None => /\ Parted(c).cancelled = c.cancelled
                               /\ Parted(c).byUser = c.byUser
<1>1. c # None
  BY TransferAssumption
<1>2. Joined(c) = [c EXCEPT !.owners = @ + 1]
  BY <1>1 DEF Joined
<1>3. Parted(c) # None => Parted(c) = [c EXCEPT !.owners = @ - 1]
  BY <1>1 DEF Parted
<1>4. /\ [c EXCEPT !.owners = @ + 1].cancelled = c.cancelled
      /\ [c EXCEPT !.owners = @ + 1].byUser = c.byUser
  BY DEF Control
<1>5. /\ [c EXCEPT !.owners = @ - 1].cancelled = c.cancelled
      /\ [c EXCEPT !.owners = @ - 1].byUser = c.byUser
  BY DEF Control
<1>. QED BY <1>2, <1>3, <1>4, <1>5

LEMMA FlagsFlagged ==
  ASSUME NEW c \in Control
  PROVE  /\ [c EXCEPT !.cancelled = TRUE, !.byUser = TRUE].cancelled
         /\ [c EXCEPT !.cancelled = TRUE, !.byUser = TRUE].byUser
         /\ [c EXCEPT !.cancelled = TRUE].cancelled
         /\ [c EXCEPT !.cancelled = TRUE].byUser = c.byUser
         /\ [c EXCEPT !.interrupted = TRUE].cancelled = c.cancelled
         /\ [c EXCEPT !.interrupted = TRUE].byUser = c.byUser
         /\ [c EXCEPT !.paused = TRUE].cancelled = c.cancelled
         /\ [c EXCEPT !.paused = TRUE].byUser = c.byUser
         /\ [c EXCEPT !.paused = FALSE].cancelled = c.cancelled
         /\ [c EXCEPT !.paused = FALSE].byUser = c.byUser
  BY DEF Control

(* What is collected is cancelled before the sweep.                         *)
CollectInv == collected # {} => shutdown = "collected"

LEMMA CollectStep == CollectInv /\ [Next]_vars => CollectInv'
<1>1. CollectInv /\ Shutdown => CollectInv'
  BY DEF CollectInv, Shutdown, BeginShutdown, Collect, CancelCollected, Sweep, Running
<1>. QED BY <1>1, ShutdownSteps DEF CollectInv

LEMMA ControlStep ==
  TaskTypes /\ HeldInv /\ SessionTypes /\ CollectInv /\ [Next]_vars
    => \A j \in Transfers : Kept(j) /\ Told(j) /\ Untold(j)
<1>. SUFFICES ASSUME TaskTypes, HeldInv, SessionTypes, CollectInv, [Next]_vars
             PROVE  \A j \in Transfers : Kept(j) /\ Told(j) /\ Untold(j)
  OBVIOUS
<1>. DEFINE Goal == \A j \in Transfers : Kept(j) /\ Told(j) /\ Untold(j)
<1>0. controls \in [Transfers -> Control \cup {None}]
  BY DEF SessionTypes
<1>1. ASSUME NEW t \in Tasks, NEW i \in Transfers, Register(t, i) PROVE Goal
  <2>1. controls'[i] = Joined(controls[i]) /\ \A j \in Transfers \ {i} : controls'[j] = controls[j]
    BY <1>0, <1>1 DEF Register
  <2>2. CASE controls[i] = None
    <3>1. controls'[i] = NewControl /\ NewControl.cancelled = ~Running
      BY <2>1, <2>2 DEF Joined, NewControl
    <3>. QED BY <2>1, <2>2, <3>1 DEF Kept, Told, Untold
  <2>3. CASE controls[i] # None
    <3>1. controls[i] \in Control
      BY <1>0, <2>3
    <3>2. /\ controls'[i].cancelled = controls[i].cancelled
          /\ controls'[i].byUser = controls[i].byUser
      BY <2>1, <3>1, JoinedFlags
    <3>. QED BY <2>1, <2>3, <3>2 DEF Kept, Told, Untold
  <2>. QED BY <2>2, <2>3
<1>2. ASSUME NEW t \in Tasks, transfer[t] \in Transfers, Unregister(t) PROVE Goal
  <2>. DEFINE i == transfer[t]
  <2>1. controls'[i] = Parted(controls[i]) /\ \A j \in Transfers \ {i} : controls'[j] = controls[j]
    BY <1>0, <1>2 DEF Unregister
  <2>2. CASE controls'[i] = None
    BY <2>1, <2>2 DEF Kept, Told, Untold
  <2>3. CASE controls'[i] # None
    <3>1. controls[i] \in Control /\ controls[i] # None
      BY <1>0, <1>2, <2>1, <2>3, TransferAssumption DEF Parted
    <3>2. /\ controls'[i].cancelled = controls[i].cancelled
          /\ controls'[i].byUser = controls[i].byUser
      BY <2>1, <2>3, <3>1, JoinedFlags
    <3>. QED BY <2>1, <3>1, <3>2 DEF Kept, Told, Untold
  <2>. QED BY <2>2, <2>3
<1>3. CASE UNCHANGED controls
  BY <1>3 DEF Kept, Told, Untold
<1>4. ASSUME NEW t \in Tasks, NEW k \in JobKinds, NEW i \in Transfers, Begin(t, k, i)
      PROVE  Goal
  BY <1>1, <1>3, <1>4 DEF Begin
<1>5. ASSUME NEW t \in Tasks, Step(t) PROVE Goal
  <2>1. CASE Enlist(t) \/ Nest(t)
    BY <1>1, <2>1 DEF Enlist, Nest, HeldInv
  <2>2. CASE Leave(t) \/ Quit(t)
    BY <1>2, <2>2 DEF Leave, Quit, HeldInv
  <2>. QED
    BY <1>3, <1>5, <2>1, <2>2
       DEF Step, Announce, Insert, Subscribe, Look, Wake, Acquire, Count, Vet, Activate,
           CopySome, CopyEnds, CheckOk, GiveUp, WindUp, CheckInterrupted, CheckCancelled,
           Judge, Finish,
           Drop, Return
<1>6. ASSUME NEW i \in Transfers, Request(i) \/ CancelCollected(i), SessionTypes' PROVE Goal
  <2>1. CASE controls[i] = None
    <3>1. UNCHANGED controls
      BY <1>0, <1>6, <2>1 DEF Request, Cancel, Pause, Resume, Interrupt, CancelCollected
    <3>. QED BY <1>3, <3>1
  <2>2. CASE controls[i] # None
    <3>. DEFINE c == controls[i]
    <3>1. c \in Control
      BY <1>0, <2>2
    <3>2. \A j \in Transfers \ {i} : controls'[j] = controls[j]
      BY <1>0, <1>6 DEF Request, Cancel, Pause, Resume, Interrupt, CancelCollected
    <3>3. CASE Cancel(i)
      <4>1. controls'[i].cancelled /\ controls'[i].byUser
        BY <1>0, <3>1, <3>3, FlagsFlagged DEF Cancel
      <4>. QED BY <2>2, <3>2, <4>1 DEF Kept, Told, Untold
    <3>4. CASE Pause(i) \/ Resume(i) \/ Interrupt(i)
      <4>1. controls'[i].cancelled = c.cancelled /\ controls'[i].byUser = c.byUser
        <5>1. CASE Pause(i)
          BY <1>0, <3>1, <5>1, FlagsFlagged DEF Pause
        <5>2. CASE Resume(i)
          BY <1>0, <3>1, <5>2, FlagsFlagged DEF Resume
        <5>3. CASE Interrupt(i)
          BY <1>0, <2>2, <3>1, <5>3, FlagsFlagged DEF Interrupt
        <5>. QED BY <3>4, <5>1, <5>2, <5>3
      <4>. QED BY <2>2, <3>2, <4>1 DEF Kept, Told, Untold
    <3>5. CASE CancelCollected(i)
      <4>1. controls'[i].cancelled /\ controls'[i].byUser = c.byUser
        BY <1>0, <2>2, <3>1, <3>5, FlagsFlagged DEF CancelCollected
      <4>2. ~Running
        BY <3>5 DEF CancelCollected, CollectInv, Running
      <4>. QED BY <2>2, <3>2, <4>1, <4>2 DEF Kept, Told, Untold
    <3>. QED BY <1>6, <3>3, <3>4, <3>5 DEF Request
  <2>. QED BY <2>1, <2>2
<1>7. (\E m \in Limits : SetLimit(m)) \/ BeginShutdown \/ Collect \/ Sweep \/ UNCHANGED vars
        => UNCHANGED controls
  BY DEF SetLimit, BeginShutdown, Collect, Sweep, vars
<1>8. SessionTypes'
  BY SessionStep
<1>. QED BY <1>3, <1>4, <1>5, <1>6, <1>7, <1>8 DEF Next, Shutdown

-----------------------------------------------------------------------------
(* The shutdown.                                                            *)

(* From the collection on, a control that is not cancelled will be.         *)
ToldInv ==
  shutdown \in {"collected", "swept"} =>
    \A i \in Transfers : controls[i] # None => controls[i].cancelled \/ i \in collected

LEMMA ToldStep ==
  TaskTypes /\ HeldInv /\ SessionTypes /\ CollectInv /\ ToldInv /\ [Next]_vars => ToldInv'
<1>. SUFFICES ASSUME TaskTypes, HeldInv, SessionTypes, CollectInv, ToldInv, [Next]_vars,
                    shutdown' \in {"collected", "swept"},
                    NEW j \in Transfers, controls'[j] # None, ~controls'[j].cancelled
             PROVE  j \in collected'
  BY DEF ToldInv
<1>1. Untold(j)
  BY ControlStep
<1>2. CASE UNCHANGED <<shutdown, collected>>
  BY <1>1, <1>2 DEF Untold, ToldInv, Running
<1>3. CASE Shutdown
  <2>1. CASE BeginShutdown
    BY <2>1 DEF BeginShutdown
  <2>2. CASE Collect
    BY <2>2 DEF Collect
  <2>3. CASE Sweep
    BY <2>3 DEF Sweep, ToldInv
  <2>4. ASSUME NEW i \in Transfers, CancelCollected(i)
        PROVE  j \in collected'
    <3>1. shutdown = "collected" /\ collected' = collected \ {i}
      BY <2>4 DEF CancelCollected, CollectInv
    <3>2. j \in collected
      BY <1>1, <3>1 DEF Untold, ToldInv, Running
    <3>3. j # i
      <4>1. SUFFICES ASSUME j = i, controls[j] # None
                    PROVE  controls'[j].cancelled
        BY <1>1, <3>1 DEF Untold, Running
      <4>2. controls[j] \in Control
        BY <4>1 DEF SessionTypes
      <4>3. controls'[j] = [controls[j] EXCEPT !.cancelled = TRUE]
        BY <2>4, <4>1 DEF CancelCollected, SessionTypes
      <4>. QED BY <4>2, <4>3, FlagsFlagged
    <3>. QED BY <3>1, <3>2, <3>3
  <2>. QED BY <1>3, <2>1, <2>2, <2>3, <2>4 DEF Shutdown
<1>. QED BY <1>2, <1>3, ShutdownSteps

(* How a copy that was cancelled ended, and where its task may be then.     *)
ResultInv ==
  \A t \in Tasks :
    result[t] = "cancelled" => pc[t] \in {"leave", "finish", "drop", "return", "quit"}

LEMMA ResultStep == TaskTypes /\ FlagTypes /\ ResultInv /\ [Next]_vars => ResultInv'
<1>. SUFFICES ASSUME TaskTypes, FlagTypes, ResultInv, [Next]_vars PROVE ResultInv'
  OBVIOUS
<1>. USE DEF TaskTypes, FlagTypes, ResultInv, Goto, Labels
<1>1. CASE \E t \in Tasks, k \in JobKinds, i \in Transfers : Begin(t, k, i)
  BY <1>1 DEF Begin
<1>2. ASSUME NEW t \in Tasks, Step(t) PROVE ResultInv'
  <2>. USE DEF taskVars, JobKinds
  <2>1. CASE Announce(t) \/ Insert(t) \/ Subscribe(t) \/ Look(t) \/ Wake(t) \/ Acquire(t)
    BY <2>1 DEF Announce, Insert, Subscribe, Look, Wake, Acquire
  <2>2. CASE Count(t) \/ Enlist(t) \/ Vet(t) \/ Activate(t) \/ Nest(t) \/ CopySome(t)
    BY <2>2 DEF Count, Enlist, Vet, Activate, Nest, CopySome
  <2>3. CASE \E outcome \in {"completed", "failed"} : CopyEnds(t, outcome)
    BY <2>3 DEF CopyEnds
  <2>4. CASE CheckOk(t) \/ GiveUp(t) \/ CheckInterrupted(t) \/ CheckCancelled(t) \/ Judge(t)
    BY <2>4 DEF CheckOk, GiveUp, WindUp, CheckInterrupted, CheckCancelled, Judge, Unwind
  <2>5. CASE Leave(t) \/ Drop(t) \/ Return(t)
    BY <2>5 DEF Leave, WindUp, Drop, Return
  <2>6. CASE Finish(t) \/ Quit(t)
    BY <2>6 DEF Finish, Quit, Forget
  <2>. QED BY <1>2, <2>1, <2>2, <2>3, <2>4, <2>5, <2>6 DEF Step
<1>3. (\E i \in Transfers : Request(i)) \/ (\E m \in Limits : SetLimit(m)) \/ Shutdown
        \/ UNCHANGED vars => UNCHANGED <<pc, result>>
  BY DEF Request, Cancel, Pause, Resume, Interrupt, SetLimit, Shutdown, BeginShutdown,
         Collect, CancelCollected, Sweep, requestVars, vars
<1>. QED BY <1>1, <1>2, <1>3 DEF Next

(* A control that was cancelled without the user was cancelled by the       *)
(* shutdown; a task that judges has seen it, and its control is there.      *)
KeepInv ==
  /\ Running => \A i \in Transfers :
                  controls[i] # None /\ controls[i].cancelled => controls[i].byUser
  /\ \A t \in Tasks : pc[t] = "judge" =>
        controls[transfer[t]] # None /\ controls[transfer[t]].cancelled
  /\ \A t \in Tasks : result[t] = "cancelled" /\ held[t] > 0 =>
        controls[transfer[t]] # None /\ controls[transfer[t]].byUser

(* Where a task that judges, and one whose copy was cancelled, comes from.  *)
LEMMA JudgeFrame ==
  TaskTypes /\ FlagTypes /\ ResultInv /\ [Next]_vars =>
    \A u \in Tasks :
      /\ pc'[u] = "judge" =>
           CheckCancelled(u) \/ (pc[u] = "judge" /\ transfer'[u] = transfer[u])
      /\ result'[u] = "cancelled" /\ held'[u] > 0 =>
           \/ Judge(u) /\ Running
           \/ result[u] = "cancelled" /\ held[u] > 0 /\ transfer'[u] = transfer[u]
<1>. SUFFICES ASSUME TaskTypes, FlagTypes, ResultInv, [Next]_vars, NEW u \in Tasks
             PROVE  /\ pc'[u] = "judge" =>
                         CheckCancelled(u) \/ (pc[u] = "judge" /\ transfer'[u] = transfer[u])
                    /\ result'[u] = "cancelled" /\ held'[u] > 0 =>
                         \/ Judge(u) /\ Running
                         \/ /\ result[u] = "cancelled" /\ held[u] > 0
                            /\ transfer'[u] = transfer[u]
  OBVIOUS
<1>. DEFINE Goal == /\ pc'[u] = "judge" =>
                         CheckCancelled(u) \/ (pc[u] = "judge" /\ transfer'[u] = transfer[u])
                    /\ result'[u] = "cancelled" /\ held'[u] > 0 =>
                         \/ Judge(u) /\ Running
                         \/ /\ result[u] = "cancelled" /\ held[u] > 0
                            /\ transfer'[u] = transfer[u]
<1>. USE DEF TaskTypes, FlagTypes, ResultInv, Goto, Labels
<1>1. CASE \E t \in Tasks, k \in JobKinds, i \in Transfers : Begin(t, k, i)
  BY <1>1 DEF Begin, Register
<1>2. ASSUME NEW t \in Tasks, Step(t) PROVE Goal
  <2>. USE DEF taskVars, JobKinds
  <2>1. CASE Announce(t) \/ Insert(t) \/ Subscribe(t) \/ Look(t) \/ Wake(t) \/ Acquire(t)
    BY <2>1 DEF Announce, Insert, Subscribe, Look, Wake, Acquire
  <2>2. CASE Count(t) \/ Vet(t) \/ Activate(t) \/ CopySome(t)
    BY <2>2 DEF Count, Vet, Activate, CopySome
  <2>3. CASE Enlist(t) \/ Nest(t)
    BY <2>3 DEF Enlist, Nest, Register
  <2>4. CASE \E outcome \in {"completed", "failed"} : CopyEnds(t, outcome)
    BY <2>4 DEF CopyEnds
  <2>5. CASE CheckOk(t) \/ GiveUp(t) \/ CheckInterrupted(t)
    BY <2>5 DEF CheckOk, GiveUp, WindUp, CheckInterrupted, Unwind
  <2>6. CASE CheckCancelled(t)
    <3>1. CASE t = u
      BY <2>6, <3>1, Zenon DEF CheckCancelled
    <3>2. CASE t # u
      BY <2>6, <3>2 DEF CheckCancelled
    <3>. QED BY <3>1, <3>2
  <2>7. CASE Judge(t)
    <3>1. result' = [result EXCEPT ![t] = IF Running THEN "cancelled" ELSE "shutdown"]
      BY <2>7 DEF Judge
    <3>2. UNCHANGED <<transfer, held>> /\ pc'[u] \in {pc[u], "leave", "drop"}
      BY <2>7 DEF Judge, Unwind
    <3>3. result'[u] = "cancelled" => result[u] = "cancelled" \/ (t = u /\ Running)
      BY <3>1
    <3>4. t = u => Judge(u)
      BY <2>7
    <3>. HIDE DEF TaskTypes, FlagTypes, ResultInv
    <3>. QED BY <3>2, <3>3, <3>4
  <2>8. CASE Leave(t) \/ Drop(t) \/ Return(t)
    BY <2>8 DEF Leave, WindUp, Drop, Return, Unregister
  <2>9. CASE Finish(t) \/ Quit(t)
    BY <2>9 DEF Finish, Quit, Forget, Unregister
  <2>. QED BY <1>2, <2>1, <2>2, <2>3, <2>4, <2>5, <2>6, <2>7, <2>8, <2>9 DEF Step
<1>3. (\E i \in Transfers : Request(i)) \/ (\E m \in Limits : SetLimit(m)) \/ Shutdown
        \/ UNCHANGED vars => UNCHANGED <<pc, result, held, transfer>>
  BY DEF Request, Cancel, Pause, Resume, Interrupt, SetLimit, Shutdown, BeginShutdown,
         Collect, CancelCollected, Sweep, requestVars, vars
<1>. QED BY <1>1, <1>2, <1>3 DEF Next

LEMMA RegisteredNext ==
  (TaskTypes /\ Balanced)'
    => \A t \in Tasks : held'[t] > 0 /\ transfer'[t] \in Transfers => controls'[transfer'[t]] # None
<1>. DEFINE Found == \A t \in Tasks :
              held[t] > 0 /\ transfer[t] \in Transfers => controls[transfer[t]] # None
<1>1. TaskTypes /\ Balanced => Found
  BY Registered
<1>. HIDE DEF Found
<1>2. (TaskTypes /\ Balanced)' => Found'
  BY <1>1, PTL
<1>. QED BY <1>2 DEF Found

LEMMA KeepStep ==
  TaskTypes /\ TaskTypes' /\ FlagTypes /\ HeldInv /\ HeldInv' /\ SessionTypes
    /\ CollectInv /\ ResultInv /\ Balanced' /\ KeepInv /\ [Next]_vars => KeepInv'
<1>. SUFFICES ASSUME TaskTypes, TaskTypes', FlagTypes, HeldInv, HeldInv', SessionTypes,
                    CollectInv, ResultInv, Balanced', KeepInv, [Next]_vars
             PROVE  KeepInv'
  OBVIOUS
<1>1. \A j \in Transfers : Kept(j) /\ Told(j)
  BY ControlStep
<1>2. Running' => Running
  BY ShutdownSteps
     DEF Running, Shutdown, BeginShutdown, Collect, CancelCollected, Sweep, CollectInv
<1>3. ASSUME Running', NEW i \in Transfers, controls'[i] # None, controls'[i].cancelled
      PROVE  controls'[i].byUser
  BY <1>1, <1>2, <1>3 DEF Told, KeepInv
<1>4. ASSUME NEW u \in Tasks, held'[u] > 0, transfer'[u] \in Transfers
      PROVE  controls'[transfer'[u]] # None
  BY <1>4, RegisteredNext
<1>5. ASSUME NEW u \in Tasks, pc'[u] = "judge"
      PROVE  controls'[transfer'[u]] # None /\ controls'[transfer'[u]].cancelled
  <2>1. CASE CheckCancelled(u)
    BY <2>1 DEF CheckCancelled, taskVars
  <2>2. CASE pc[u] = "judge" /\ transfer'[u] = transfer[u]
    <3>1. held'[u] > 0 /\ transfer'[u] \in Transfers
      BY <1>5 DEF HeldInv, Owned, TaskTypes
    <3>2. controls[transfer[u]] # None /\ controls[transfer[u]].cancelled
      BY <2>2 DEF KeepInv
    <3>3. controls'[transfer[u]] # None /\ transfer[u] \in Transfers
      BY <1>4, <2>2, <3>1
    <3>. QED BY <1>1, <2>2, <3>2, <3>3 DEF Kept
  <2>. QED BY <1>5, <2>1, <2>2, JudgeFrame
<1>6. ASSUME NEW u \in Tasks, result'[u] = "cancelled", held'[u] > 0
      PROVE  controls'[transfer'[u]] # None /\ controls'[transfer'[u]].byUser
  <2>1. CASE Judge(u) /\ Running
    <3>1. /\ controls' = controls /\ transfer' = transfer /\ pc[u] = "judge"
      BY <2>1 DEF Judge, taskVars
    <3>2. transfer[u] \in Transfers
      BY <3>1 DEF HeldInv
    <3>. QED BY <2>1, <3>1, <3>2 DEF KeepInv
  <2>2. CASE result[u] = "cancelled" /\ held[u] > 0 /\ transfer'[u] = transfer[u]
    <3>1. transfer[u] \in Transfers
      BY <2>2 DEF HeldInv, ResultInv
    <3>2. controls[transfer[u]] # None /\ controls[transfer[u]].byUser
      BY <2>2 DEF KeepInv
    <3>3. controls'[transfer[u]] # None
      BY <1>4, <1>6, <2>2, <3>1
    <3>. QED BY <1>1, <2>2, <3>1, <3>2, <3>3 DEF Kept
  <2>. QED BY <1>6, <2>1, <2>2, JudgeFrame
<1>. QED BY <1>3, <1>5, <1>6 DEF KeepInv

-----------------------------------------------------------------------------
(* The theorems.                                                            *)

Inv ==
  /\ TaskTypes /\ HeldInv /\ FlagTypes /\ SessionTypes
  /\ PermitsExact /\ Balanced
  /\ CollectInv /\ ToldInv /\ ResultInv /\ KeepInv

LEMMA InvInit == Init => Inv
<1>. SUFFICES ASSUME Init PROVE Inv
  OBVIOUS
<1>1. TaskTypes /\ HeldInv /\ FlagTypes /\ SessionTypes /\ PermitsExact /\ Balanced
  BY PlacesInit, FlagsInit, SessionInit, PermitsInit, OwnersInit
<1>2. CollectInv /\ ToldInv /\ ResultInv /\ KeepInv
  BY DEF Init, CollectInv, ToldInv, ResultInv, KeepInv
<1>. QED BY <1>1, <1>2 DEF Inv

LEMMA InvStep == Inv /\ [Next]_vars => Inv'
<1>. SUFFICES ASSUME Inv, [Next]_vars PROVE Inv'
  OBVIOUS
<1>. USE DEF Inv
<1>1. TaskTypes' /\ HeldInv'
  BY PlacesStep
<1>2. FlagTypes' /\ SessionTypes'
  BY FlagsStep, SessionStep
<1>3. PermitsExact' /\ Balanced'
  BY PermitsStep, OwnersStep
<1>4. CollectInv' /\ ToldInv' /\ ResultInv'
  BY CollectStep, ToldStep, ResultStep
<1>5. KeepInv'
  BY <1>1, <1>3, KeepStep
<1>. QED BY <1>1, <1>2, <1>3, <1>4, <1>5

THEOREM InvHolds == Spec => []Inv
  BY InvInit, InvStep, PTL DEF Spec

(* Every variable holds values of its type.                                 *)
THEOREM TypeCorrect == Spec => []TypeOK
<1>1. Inv => TypeOK
  <2>. SUFFICES ASSUME Inv PROVE TypeOK
    OBVIOUS
  <2>1. active \in Nat /\ permits \in Nat
    <3>1. active = Cardinality(Counters) /\ permits = Cardinality(Holders)
      BY DEF Inv, PermitsExact, Counters, Holders
    <3>. QED BY <3>1, Finite, FS_CardinalityType
  <2>. QED BY <2>1 DEF Inv, TaskTypes, FlagTypes, SessionTypes, TypeOK
<1>. QED BY <1>1, InvHolds, PTL

(* register_owned and SftpTransferGuard::drop: a control is registered as   *)
(* long as a task owns it, and counts its owners.                           *)
THEOREM ControlsAreOwned == Spec => []ControlsOwned
<1>1. Inv => ControlsOwned
  BY BalancedIsOwned DEF Inv
<1>. QED BY <1>1, InvHolds, PTL

(* acquire_permit and SftpTransferPermit::drop: the count is exact.         *)
THEOREM PermitsAreExact == Spec => []PermitsExact
<1>1. Inv => PermitsExact
  BY DEF Inv
<1>. QED BY <1>1, InvHolds, PTL

(* shutdown_session_transfers: no registered control is left untold.        *)
THEOREM ShutdownIsHeard == Spec => []ShutdownReachesAll
<1>1. Inv => ShutdownReachesAll
  BY DEF Inv, ToldInv, CollectInv, ShutdownReachesAll
<1>. QED BY <1>1, InvHolds, PTL

(* check_control: only what the user cancelled gives its progress up.       *)
THEOREM ProgressIsKept == Spec => []ShutdownKeepsProgress
<1>1. Inv => ShutdownKeepsProgress
  BY DEF Inv, KeepInv, ShutdownKeepsProgress
<1>. QED BY <1>1, InvHolds, PTL

(* finish_background_transfer: what the shutdown cancelled stays so, unless *)
(* a task that asked before the shutdown registers it anew.                 *)
THEOREM SweptIsFinal == Spec => SweptStaysCancelled
<1>. DEFINE Stays == \A i \in Transfers :
       shutdown = "swept" /\ snapshot[i] = "Cancelled"
       => \/ snapshot'[i] \in {"Cancelled", "None"}
          \/ \E t \in Tasks : Insert(t) /\ transfer[t] = i
<1>1. Inv /\ [Next]_vars => Stays
  <2>. SUFFICES ASSUME Inv, [Next]_vars, NEW i \in Transfers,
                      shutdown = "swept", snapshot[i] = "Cancelled",
                      ~\E t \in Tasks : Insert(t) /\ transfer[t] = i
               PROVE  snapshot'[i] \in {"Cancelled", "None"}
    OBVIOUS
  <2>0. snapshot \in [Transfers -> Finished \cup {"None", "Pending", "Active", "Paused"}]
    BY DEF Inv, SessionTypes
  <2>1. ASSUME NEW t \in Tasks, Step(t) PROVE snapshot'[i] \in {"Cancelled", "None"}
    <3>1. CASE Announce(t)
      BY <3>1 DEF Announce, Cleaned
    <3>2. CASE Insert(t)
      BY <2>0, <3>2 DEF Insert
    <3>3. CASE Activate(t) \/ CopySome(t)
      BY <2>0, <3>3 DEF Activate, CopySome, Activated, Finished
    <3>4. CASE Finish(t)
      BY <2>0, <3>4 DEF Finish, FinalState, Running
    <3>5. CASE UNCHANGED snapshot
      BY <3>5
    <3>. QED
      BY <2>1, <3>1, <3>2, <3>3, <3>4, <3>5
         DEF Step, Subscribe, Look, Wake, Acquire, Count, Enlist, Vet, Nest, CopyEnds,
             CheckOk, GiveUp, WindUp, CheckInterrupted, CheckCancelled, Judge, Leave,
             Drop, Return, Quit
  <2>2. ASSUME NEW j \in Transfers, Request(j) PROVE snapshot'[i] \in {"Cancelled", "None"}
    BY <2>0, <2>2 DEF Request, Cancel, Pause, Resume, Interrupt, Finished
  <2>3. CASE Shutdown
    BY <2>0, <2>3 DEF Shutdown, BeginShutdown, Collect, CancelCollected, Sweep, Finished
  <2>4. ASSUME NEW t \in Tasks, NEW k \in JobKinds, NEW j \in Transfers, Begin(t, k, j)
        PROVE  UNCHANGED snapshot
    BY <2>4 DEF Begin
  <2>5. (\E m \in Limits : SetLimit(m)) \/ UNCHANGED vars => UNCHANGED snapshot
    BY DEF SetLimit, vars
  <2>. QED BY <2>1, <2>2, <2>3, <2>4, <2>5 DEF Next
<1>2. Inv /\ [Next]_vars => [Stays]_vars
  BY <1>1
<1>. QED BY <1>2, InvHolds, PTL DEF Spec, SweptStaysCancelled
=============================================================================
