----------------------- MODULE ReconnectPipeline_proofs -----------------------
(***************************************************************************)
(* Proofs about ReconnectPipeline for every finite set of nodes and every  *)
(* choice of the limits: types, one job at a time, ended jobs, and the     *)
(* budget of dials.                                                        *)
(***************************************************************************)
EXTENDS ReconnectPipeline, FiniteSetTheorems, SequenceTheorems, TLAPS

(* The record types are those TypeOK gives the variables.                   *)
Requeue == [count : 0..MaxRequeue, conn : Nat, armed : BOOLEAN]
Probe == [job : Nat, conn : Nat, state : {"none", "listing", "probing", "answered"}]
Dial == [id : Nat, job : Nat, state : {"none", "running", "answered"}]
Task == [node : Nodes, step : {"forwards", "transfers", "ide"}, job : Nat]
Links == {"none", "down", "connecting", "active", "error"}

LEMMA Constants ==
  /\ MaxAttempts \in Nat /\ MaxAttempts > 0 /\ MaxRequeue \in Nat
  /\ NoNode \notin Nodes
  /\ DOMAIN Stage = {"forwards", "transfers", "ide"}
BY LimitsAssumption, NodesAssumption DEF Stage

LEMMA StepsTyped ==
  /\ \A i \in 1..3 : RestoreSteps[i] \in {"forwards", "transfers", "ide"}
  /\ \A s \in {"forwards", "transfers", "ide"} : Stage[s] \in Phases \ Terminal
BY DEF RestoreSteps, Stage, Phases, Terminal

(* A typed job stays typed when it moves on or ends.                        *)
LEMMA JobMoves ==
  ASSUME NEW j \in Job, NEW phase \in Phases
  PROVE  InPhase(j, phase) \in Job /\ EndedAs(j, phase) \in Job
BY DEF Job, InPhase, EndedAs

LEMMA AttemptBounded ==
  ASSUME NEW k \in 0..MaxAttempts
  PROVE  NextAttempt(k) \in 0..MaxAttempts
BY Constants DEF NextAttempt

LEMMA MessageTyped ==
  ASSUME NEW n \in Nodes, NEW k \in Nat,
         NEW type \in {"Snapshotted", "GraceRecovered", "GraceExpired", "Connected",
                    "ConnectFailed", "FailedWillRetry", "FailedForGood", "LinkDown",
                    "StartPipeline", "RetryNodeConnect", "RecoveredBeforeRetry"}
  PROVE  /\ About(type, n, k) \in Message
         /\ \A d \in Nat : [About(type, n, k) EXCEPT !.dial = d] \in Message
BY DEF About, Message

-----------------------------------------------------------------------------
(* What the shared steps of the handlers keep.                              *)

LEMMA FinishTypes ==
  ASSUME TypeOK, NEW n \in Nodes, NEW phase \in Terminal, Finish(n, phase)
  PROVE  /\ job' \in [Nodes -> Job] /\ pipeline' \in Nodes \cup {NoNode}
         /\ requeue' \in [Nodes -> Requeue]
<1>1. phase \in Phases
  BY DEF Phases
<1>2. NotQueued \in Requeue
  BY Constants DEF NotQueued, Requeue
<1>3. EndedAs(job[n], phase) \in Job
  BY <1>1, JobMoves DEF TypeOK
<1>4. [EndedAs(job[n], phase) EXCEPT !.swept = TRUE] \in Job
  BY <1>3 DEF Job
<1>5. /\ job \in [Nodes -> Job] /\ pipeline \in Nodes \cup {NoNode}
      /\ requeue \in [Nodes -> Requeue]
  BY DEF TypeOK, Requeue
<1>6. CASE job[n].status = "None"
  BY <1>5, <1>6 DEF Finish
<1>7. CASE job[n].status # "None"
  <2>1. /\ job' = [job EXCEPT ![n] = [EndedAs(job[n], phase) EXCEPT !.swept = TRUE]]
        /\ pipeline' = Released(n)
        /\ requeue' = [requeue EXCEPT ![n] = NotQueued]
    BY <1>5, <1>7 DEF Finish
  <2>2. job' \in [Nodes -> Job]
    BY <1>4, <1>5, <2>1
  <2>3. requeue' \in [Nodes -> Requeue]
    BY <1>2, <1>5, <2>1
  <2>. QED BY <1>5, <2>1, <2>2, <2>3 DEF Released
<1>. QED BY <1>6, <1>7

(* The fields of the records of one node.                                   *)
LEMMA FieldTypes ==
  ASSUME TypeOK, NEW n \in Nodes
  PROVE  /\ job[n] \in Job /\ job[n].id \in Nat /\ job[n].attempt \in 0..MaxAttempts
         /\ dial[n] \in Dial /\ dial[n].id \in Nat /\ conn[n] \in Nat
         /\ probe[n] \in Probe /\ probe[n].job \in Nat /\ probe[n].conn \in Nat
         /\ requeue[n] \in Requeue /\ requeue[n].count \in 0..MaxRequeue
<1>1. job[n] \in Job /\ dial[n] \in Dial /\ conn[n] \in Nat
  BY DEF TypeOK, Dial
<1>2. probe[n] \in Probe /\ requeue[n] \in Requeue
  BY DEF TypeOK, Probe, Requeue
<1>. QED BY <1>1, <1>2 DEF Job, Dial, Probe, Requeue

LEMMA RestoreTypes ==
  ASSUME TypeOK, NEW n \in Nodes, NEW i \in 1..4, NEW others \in SUBSET Task,
         Restore(n, i, others)
  PROVE  /\ job' \in [Nodes -> Job] /\ pipeline' \in Nodes \cup {NoNode}
         /\ requeue' \in [Nodes -> Requeue] /\ tasks' \in SUBSET Task
<1>1. CASE Restores(n, i) = {}
  <2>1. Finish(n, "Done") /\ tasks' = others
    BY <1>1 DEF Restore
  <2>2. "Done" \in Terminal
    BY DEF Terminal
  <2>. QED BY <2>1, <2>2, FinishTypes
<1>2. CASE Restores(n, i) # {}
  <2>. DEFINE next == CHOOSE k \in Restores(n, i) : \A l \in Restores(n, i) : k <= l
              step == RestoreSteps[next]
  <2>1. Restores(n, i) \subseteq 1..3
    BY DEF Restores
  <2>2. \E k \in Restores(n, i) : \A l \in Restores(n, i) : k <= l
    BY <1>2, <2>1
  <2>3. next \in 1..3
    BY <2>1, <2>2
  <2>4. step \in {"forwards", "transfers", "ide"} /\ Stage[step] \in Phases
    BY <2>3, StepsTyped
  <2>5. /\ job' = [job EXCEPT ![n] = InPhase(job[n], Stage[step])]
        /\ tasks' = others \cup {[node |-> n, step |-> step, job |-> job[n].id]}
        /\ pipeline' = pipeline /\ requeue' = requeue
    BY <1>2 DEF Restore, InPhase
  <2>. HIDE DEF step
  <2>6. InPhase(job[n], Stage[step]) \in Job
    BY <2>4, JobMoves, FieldTypes
  <2>7. [node |-> n, step |-> step, job |-> job[n].id] \in Task
    BY <2>4, FieldTypes DEF Task
  <2>8. job \in [Nodes -> Job] /\ pipeline \in Nodes \cup {NoNode}
        /\ requeue \in [Nodes -> Requeue]
    BY DEF TypeOK, Requeue
  <2>9. job' \in [Nodes -> Job]
    BY <2>5, <2>6, <2>8
  <2>. QED BY <2>5, <2>7, <2>8, <2>9
<1>. QED BY <1>1, <1>2

LEMMA StartDialTypes ==
  ASSUME TypeOK, NEW n \in Nodes, StartDial(n)
  PROVE  /\ chain' \in Nodes \cup {NoNode} /\ dial' \in [Nodes -> Dial]
         /\ conn' \in [Nodes -> Nat] /\ link' \in [Nodes -> Links]
<1>. DEFINE new == [id |-> dial[n].id + 1, job |-> IF Active(n) THEN job[n].id ELSE 0,
                    state |-> "running"]
<1>1. new \in Dial
  BY FieldTypes DEF Dial
<1>2. /\ dial' = [dial EXCEPT ![n] = new] /\ conn' = [conn EXCEPT ![n] = dial[n].id + 1]
      /\ link' = [link EXCEPT ![n] = "connecting"] /\ chain' = n
  BY DEF StartDial
<1>3. dial \in [Nodes -> Dial] /\ conn \in [Nodes -> Nat] /\ link \in [Nodes -> Links]
  BY DEF TypeOK, Dial, Links
<1>4. dial' \in [Nodes -> Dial]
  BY <1>1, <1>2, <1>3
<1>5. conn' \in [Nodes -> Nat]
  BY <1>2, <1>3, FieldTypes
<1>6. link' \in [Nodes -> Links]
  BY <1>2, <1>3 DEF Links
<1>. QED BY <1>2, <1>4, <1>5, <1>6

LEMMA CancelDialTypes ==
  ASSUME TypeOK, NEW n \in Nodes, CancelDial(n)
  PROVE  /\ dial' \in [Nodes -> Dial] /\ conn' \in [Nodes -> Nat]
         /\ link' \in [Nodes -> Links]
<1>1. dial \in [Nodes -> Dial] /\ conn \in [Nodes -> Nat] /\ link \in [Nodes -> Links]
  BY DEF TypeOK, Dial, Links
<1>2. CASE dial[n].state = "none"
  BY <1>1, <1>2 DEF CancelDial
<1>3. CASE dial[n].state # "none"
  <2>1. dial' = [dial EXCEPT ![n] = [@ EXCEPT !.state = "none"]]
    BY <1>3 DEF CancelDial
  <2>2. [dial[n] EXCEPT !.state = "none"] \in Dial
    BY FieldTypes DEF Dial
  <2>3. dial' \in [Nodes -> Dial]
    BY <1>1, <2>1, <2>2
  <2>4. conn' \in [Nodes -> Nat]
    BY <1>1, <1>3 DEF CancelDial, Unbind
  <2>5. link' \in [Nodes -> Links]
    BY <1>1, <1>3 DEF CancelDial, Unbind, Links
  <2>. QED BY <2>3, <2>4, <2>5
<1>. QED BY <1>2, <1>3
LEMMA QueueTypes ==
  ASSUME NEW q \in Seq(Message)
  PROVE  /\ \A m \in Message : Append(q, m) \in Seq(Message)
         /\ q # <<>> => Tail(q) \in Seq(Message) /\ Head(q) \in Message
OBVIOUS

-----------------------------------------------------------------------------
(* Links and worker tasks.                                                  *)

LEMMA WorkersTyped ==
  ASSUME TypeOK, NEW n \in Nodes,
         \/ LinkLost(n) \/ ProbeLists(n) \/ ProbeAlive(n) \/ ProbeExpires(n)
         \/ \E outcome \in {"Connected", "ConnectFailed"} : DialEnds(n, outcome)
  PROVE  TypeOK'
<1>. USE FieldTypes, QueueTypes
<1>p. \A s \in {"probing", "answered"} : [probe[n] EXCEPT !.state = s] \in Probe
  BY DEF Probe
<1>q. /\ probe \in [Nodes -> Probe] /\ dial \in [Nodes -> Dial] /\ link \in [Nodes -> Links]
      /\ results \in Seq(Message)
  BY DEF TypeOK, Probe, Dial, Links
<1>1. CASE LinkLost(n)
  <2>1. link' \in [Nodes -> Links]
    BY <1>1, <1>q DEF LinkLost, Links
  <2>2. reports \subseteq Nodes \X Nat /\ <<n, conn[n]>> \in Nodes \X Nat
    BY DEF TypeOK
  <2>3. reports' \subseteq Nodes \X Nat
    BY <1>1, <2>2 DEF LinkLost
  <2>. QED BY <1>1, <2>1, <2>3 DEF LinkLost, TypeOK, Links, timers, workers
<1>2. CASE ProbeLists(n)
  <2>1. probe' = [probe EXCEPT ![n] = [probe[n] EXCEPT !.state = "probing"]]
    BY <1>2 DEF ProbeLists
  <2>2. probe' \in [Nodes -> Probe]
    BY <2>1, <1>p, <1>q
  <2>3. results' \in Seq(Message)
    BY <1>2, <1>q, MessageTyped DEF ProbeLists, Answer
  <2>. QED BY <1>2, <2>2, <2>3 DEF ProbeLists, TypeOK, Probe, timers
<1>3. CASE ProbeAlive(n)
  <2>1. /\ probe' = [probe EXCEPT ![n] = [probe[n] EXCEPT !.state = "answered"]]
        /\ link' = [link EXCEPT ![n] = "active"]
    BY <1>3 DEF ProbeAlive
  <2>2. probe' \in [Nodes -> Probe]
    BY <2>1, <1>p, <1>q
  <2>3. link' \in [Nodes -> Links]
    BY <2>1, <1>q DEF Links
  <2>4. results' \in Seq(Message)
    BY <1>3, <1>q, MessageTyped DEF ProbeAlive, Answer
  <2>. QED BY <1>3, <2>2, <2>3, <2>4 DEF ProbeAlive, TypeOK, Probe, Links, timers
<1>4. CASE ProbeExpires(n)
  <2>1. probe' = [probe EXCEPT ![n] = [probe[n] EXCEPT !.state = "answered"]]
    BY <1>4 DEF ProbeExpires
  <2>2. probe' \in [Nodes -> Probe]
    BY <2>1, <1>p, <1>q
  <2>3. results' \in Seq(Message)
    BY <1>4, <1>q, MessageTyped DEF ProbeExpires, Answer
  <2>. QED BY <1>4, <2>2, <2>3 DEF ProbeExpires, TypeOK, Probe, timers
<1>5. CASE \E outcome \in {"Connected", "ConnectFailed"} : DialEnds(n, outcome)
  <2>. PICK outcome \in {"Connected", "ConnectFailed"} : DialEnds(n, outcome)
    BY <1>5
  <2>1. dial' = [dial EXCEPT ![n] = [dial[n] EXCEPT !.state = "answered"]]
    BY DEF DialEnds
  <2>2. [dial[n] EXCEPT !.state = "answered"] \in Dial
    BY DEF Dial
  <2>3. dial' \in [Nodes -> Dial]
    BY <2>1, <2>2, <1>q
  <2>4. link' \in [Nodes -> Links]
    BY <1>q DEF DialEnds, Links
  <2>5. dial[n].job \in Nat
    BY DEF Dial
  <2>6. [type |-> outcome, node |-> n, job |-> dial[n].job, dial |-> dial[n].id] \in Message
    BY <2>5 DEF Message
  <2>7. results' \in Seq(Message)
    BY <2>6, <1>q DEF DialEnds, Answer
  <2>. QED BY <2>3, <2>4, <2>7 DEF DialEnds, TypeOK, Dial, Links, timers
<1>. QED BY <1>1, <1>2, <1>3, <1>4, <1>5

-----------------------------------------------------------------------------
(* Turns of the event loop.                                                 *)

LEMMA TurnsTyped ==
  ASSUME TypeOK, NEW n \in Nodes,
         ReportArrives(n) \/ RequeueFires(n) \/ Sweep(n) \/ UserConnect(n) \/ Disconnect(n)
  PROVE  TypeOK'
<1>. USE FieldTypes, QueueTypes
<1>q. /\ job \in [Nodes -> Job] /\ requeue \in [Nodes -> Requeue] /\ dial \in [Nodes -> Dial]
      /\ probe \in [Nodes -> Probe] /\ effects \in Seq(Message)
      /\ conn \in [Nodes -> Nat] /\ link \in [Nodes -> Links]
  BY DEF TypeOK, Requeue, Dial, Probe, Links
<1>n. NotQueued \in Requeue
  BY Constants DEF NotQueued, Requeue
<1>1. CASE ReportArrives(n)
  <2>1. reports' \subseteq Nodes \X Nat
    BY <1>1 DEF ReportArrives, TypeOK
  <2>2. effects' \in Seq(Message)
    BY <1>1, <1>q, MessageTyped DEF ReportArrives, Push
  <2>. QED BY <1>1, <2>1, <2>2 DEF ReportArrives, TypeOK, timers, workers
<1>2. CASE RequeueFires(n)
  <2>1. CASE conn[n] = requeue[n].conn
    <3>1. /\ requeue' = [requeue EXCEPT ![n] = [requeue[n] EXCEPT !.armed = FALSE]]
          /\ effects' = Append(effects, About("StartPipeline", n, 0)) /\ applying' = TRUE
          /\ UNCHANGED <<conn, link, dial>>
      BY <1>2, <2>1 DEF RequeueFires, PushNow, Push
    <3>2. [requeue[n] EXCEPT !.armed = FALSE] \in Requeue
      BY DEF Requeue
    <3>3. requeue' \in [Nodes -> Requeue]
      BY <3>1, <3>2, <1>q
    <3>4. effects' \in Seq(Message)
      BY <3>1, <1>q, MessageTyped
    <3>. QED BY <1>2, <3>1, <3>3, <3>4 DEF RequeueFires, TypeOK, Requeue
  <2>2. CASE conn[n] # requeue[n].conn
    <3>1. /\ requeue' = [requeue EXCEPT ![n] = NotQueued] /\ CancelDial(n)
          /\ UNCHANGED <<effects, applying>>
      BY <1>2, <2>2 DEF RequeueFires
    <3>2. requeue' \in [Nodes -> Requeue]
      BY <3>1, <1>n, <1>q
    <3>. QED BY <1>2, <3>1, <3>2, CancelDialTypes DEF RequeueFires, TypeOK, Requeue, Dial, Links
  <2>. QED BY <2>1, <2>2
<1>3. CASE Sweep(n)
  <2>. DEFINE gone == [job[n] EXCEPT !.status = "None", !.swept = FALSE, !.needs = {},
                                     !.attempt = 0]
              kept == [job[n] EXCEPT !.swept = FALSE]
  <2>1. kept \in Job
    BY DEF Job
  <2>2. gone \in Job
    <3>1. 0 \in 0..MaxAttempts
      BY Constants
    <3>2. \A j \in Job : [j EXCEPT !.status = "None"] \in Job
      BY DEF Job
    <3>3. \A j \in Job : [j EXCEPT !.swept = FALSE] \in Job
      BY DEF Job
    <3>4. \A j \in Job : [j EXCEPT !.needs = {}] \in Job
      BY DEF Job
    <3>5. \A j \in Job : [j EXCEPT !.attempt = 0] \in Job
      BY <3>1 DEF Job
    <3>6. gone = [[[[job[n] EXCEPT !.status = "None"] EXCEPT !.swept = FALSE]
                     EXCEPT !.needs = {}] EXCEPT !.attempt = 0]
      OBVIOUS
    <3>. HIDE DEF gone
    <3>. QED BY <3>2, <3>3, <3>4, <3>5, <3>6
  <2>3. job' = [job EXCEPT ![n] = IF job[n].status \in Terminal THEN gone ELSE kept]
    BY <1>3 DEF Sweep
  <2>. HIDE DEF gone, kept
  <2>4. job' \in [Nodes -> Job]
    BY <2>1, <2>2, <2>3, <1>q
  <2>. QED BY <1>3, <2>4 DEF Sweep, TypeOK, timers, workers
<1>4. CASE UserConnect(n)
  <2>1. StartDial(n)
    BY <1>4 DEF UserConnect
  <2>. QED BY <1>4, <2>1, StartDialTypes DEF UserConnect, TypeOK, timers, Dial, Links
<1>5. CASE Disconnect(n)
  <2>1. requeue' \in [Nodes -> Requeue]
    BY <1>5, <1>n, <1>q DEF Disconnect
  <2>2. NoProbe \in Probe
    BY DEF NoProbe, Probe
  <2>3. probe' \in [Nodes -> Probe]
    BY <1>5, <2>2, <1>q DEF Disconnect
  <2>4. dial' = [dial EXCEPT ![n] = [dial[n] EXCEPT !.state = "none"]]
    BY <1>5 DEF Disconnect
  <2>5. [dial[n] EXCEPT !.state = "none"] \in Dial
    BY DEF Dial
  <2>6. dial' \in [Nodes -> Dial]
    BY <2>4, <2>5, <1>q
  <2>7. EndedAs(job[n], "Cancelled") \in Job
    BY JobMoves DEF Phases, Terminal
  <2>8. [EndedAs(job[n], "Cancelled") EXCEPT !.swept = FALSE] \in Job
    BY <2>7 DEF Job
  <2>9. job' \in [Nodes -> Job]
    BY <1>5, <2>8, <1>q DEF Disconnect
  <2>10. conn' \in [Nodes -> Nat] /\ link' \in [Nodes -> Links]
    BY <1>5, <1>q DEF Disconnect, Unbind, Links
  <2>11. /\ pending' \subseteq Nodes /\ retries' \subseteq [node : Nodes, job : Nat, dial : Nat]
         /\ tasks' \subseteq [node : Nodes, step : DOMAIN Stage, job : Nat]
    BY <1>5 DEF Disconnect, TypeOK
  <2>12. pipeline' \in Nodes \cup {NoNode} /\ chain' \in Nodes \cup {NoNode}
    BY <1>5 DEF Disconnect, TypeOK, Released
  <2>. QED BY <1>5, <2>1, <2>3, <2>6, <2>9, <2>10, <2>11, <2>12
        DEF Disconnect, TypeOK, Requeue, Probe, Dial, Links
<1>. QED BY <1>1, <1>2, <1>3, <1>4, <1>5
LEMMA DebounceTyped == TypeOK /\ Debounce => TypeOK'
<1>. SUFFICES ASSUME TypeOK, Debounce PROVE TypeOK'
  OBVIOUS
<1>. PICK order \in [1..Cardinality(pending) -> pending] :
       effects' = [i \in DOMAIN order |-> About("StartPipeline", order[i], 0)]
  BY DEF Debounce
<1>1. pending \subseteq Nodes
  BY DEF TypeOK
<1>2. IsFiniteSet(pending)
  BY <1>1, NodesAssumption, FS_Subset
<1>3. Cardinality(pending) \in Nat
  BY <1>2, FS_CardinalityType
<1>4. \A i \in DOMAIN order : About("StartPipeline", order[i], 0) \in Message
  BY <1>1, MessageTyped
<1>5. effects' \in Seq(Message)
  BY <1>3, <1>4
<1>. QED BY <1>5 DEF Debounce, TypeOK, workers

(* One more attempt, and the phase of a dial.                               *)
LEMMA AttemptTypes ==
  ASSUME TypeOK, NEW n \in Nodes
  PROVE  Dialling(job[n]) \in Job /\ [job EXCEPT ![n] = Dialling(@)] \in [Nodes -> Job]
<1>. DEFINE j == InPhase(job[n], "SshConnect")
<1>1. j \in Job /\ j.attempt \in 0..MaxAttempts
  <2>1. "SshConnect" \in Phases
    BY DEF Phases
  <2>2. j \in Job
    BY <2>1, FieldTypes, JobMoves
  <2>. QED BY <2>2 DEF Job
<1>2. NextAttempt(j.attempt) \in 0..MaxAttempts
  BY <1>1, AttemptBounded
<1>. HIDE DEF j
<1>3. [j EXCEPT !.attempt = NextAttempt(j.attempt)] \in Job
  BY <1>1, <1>2 DEF Job
<1>4. job \in [Nodes -> Job]
  BY DEF TypeOK
<1>5. Dialling(job[n]) = [j EXCEPT !.attempt = NextAttempt(j.attempt)]
  BY DEF j, Dialling
<1>. QED BY <1>3, <1>4, <1>5

LEMMA RetryTyped == ASSUME TypeOK, NEW r \in retries, RetryFires(r) PROVE TypeOK'
<1>1. r.node \in Nodes /\ retries' \subseteq [node : Nodes, job : Nat, dial : Nat]
  BY DEF TypeOK, RetryFires
<1>2. job' \in [Nodes -> Job]
  <2>1. \/ job' = job
        \/ job' = [job EXCEPT ![r.node] = Dialling(@)]
    BY DEF RetryFires
  <2>2. job \in [Nodes -> Job]
    BY DEF TypeOK
  <2>3. [job EXCEPT ![r.node] = Dialling(@)] \in [Nodes -> Job]
    BY <1>1, AttemptTypes
  <2>. QED BY <2>1, <2>2, <2>3
<1>3. effects' \in Seq(Message) /\ applying' \in BOOLEAN
  <2>1. /\ effects \in Seq(Message)
        /\ About("RecoveredBeforeRetry", r.node, 0) \in Message
        /\ About("RetryNodeConnect", r.node, 0) \in Message
    BY <1>1, MessageTyped DEF TypeOK
  <2>2. \/ effects' = effects /\ applying' = applying
        \/ /\ effects' \in {Append(effects, About("RecoveredBeforeRetry", r.node, 0)),
                           Append(effects, About("RetryNodeConnect", r.node, 0))}
           /\ applying' = TRUE
    BY DEF RetryFires, PushNow, Push
  <2>3. /\ Append(effects, About("RecoveredBeforeRetry", r.node, 0)) \in Seq(Message)
        /\ Append(effects, About("RetryNodeConnect", r.node, 0)) \in Seq(Message)
    BY <2>1, QueueTypes
  <2>4. applying \in BOOLEAN
    BY DEF TypeOK
  <2>. QED BY <2>1, <2>2, <2>3, <2>4
<1>. QED BY <1>1, <1>2, <1>3 DEF RetryFires, TypeOK, workers

LEMMA TaskTyped ==
  ASSUME TypeOK, NEW t \in tasks, NEW ok \in BOOLEAN, TaskEnds(t, ok)
  PROVE  TypeOK'
<1>. DEFINE n == t.node
            rest == tasks \ {t}
            step == CHOOSE i \in 1..3 : RestoreSteps[i] = t.step
<1>1. t \in Task /\ n \in Nodes /\ rest \in SUBSET Task
  BY Constants DEF TypeOK, Task
<1>2. step + 1 \in 1..4
  <2>1. \E i \in 1..3 : RestoreSteps[i] = t.step
    <3>1. t.step \in {"forwards", "transfers", "ide"}
      BY <1>1 DEF Task
    <3>2. \A s \in {"forwards", "transfers", "ide"} : \E i \in 1..3 : RestoreSteps[i] = s
      BY DEF RestoreSteps
    <3>. QED BY <3>1, <3>2
  <2>. QED BY <2>1
<1>3. \/ tasks' = rest /\ UNCHANGED <<job, pipeline, requeue>>
      \/ Finish(n, "Failed") /\ tasks' = rest
      \/ Restore(n, step + 1, rest)
  BY DEF TaskEnds
<1>. HIDE DEF step
<1>4. /\ job' \in [Nodes -> Job] /\ pipeline' \in Nodes \cup {NoNode}
      /\ requeue' \in [Nodes -> Requeue] /\ tasks' \in SUBSET Task
  <2>1. CASE tasks' = rest /\ UNCHANGED <<job, pipeline, requeue>>
    BY <1>1, <2>1 DEF TypeOK, Requeue
  <2>2. CASE Finish(n, "Failed") /\ tasks' = rest
    <3>1. "Failed" \in Terminal
      BY DEF Terminal
    <3>. QED BY <1>1, <2>2, <3>1, FinishTypes
  <2>3. CASE Restore(n, step + 1, rest)
    BY <1>1, <1>2, <2>3, RestoreTypes
  <2>. QED BY <1>3, <2>1, <2>2, <2>3
<1>. QED BY <1>4, Constants DEF TaskEnds, TypeOK, Task, Requeue

-----------------------------------------------------------------------------
(* Answers and effects.                                                     *)

LEMMA ReduceTyped == TypeOK /\ Reduce => TypeOK'
<1>. SUFFICES ASSUME TypeOK, Reduce PROVE TypeOK'
  OBVIOUS
<1>. DEFINE a == Head(results)
            n == a.node
<1>. USE QueueTypes
<1>1. a \in Message /\ n \in Nodes /\ a.job \in Nat /\ a.dial \in Nat /\ results' \in Seq(Message)
  <2>1. a \in Message /\ results' \in Seq(Message)
    BY DEF Reduce, TypeOK
  <2>. QED BY <2>1 DEF Message
<1>q. /\ job \in [Nodes -> Job] /\ dial \in [Nodes -> Dial] /\ probe \in [Nodes -> Probe]
      /\ effects \in Seq(Message) /\ conn \in [Nodes -> Nat] /\ link \in [Nodes -> Links]
      /\ tries \in [Nodes -> Nat]
  BY DEF TypeOK, Dial, Probe, Links
<1>f. job[n] \in Job /\ job[n].id \in Nat /\ dial[n] \in Dial
  BY <1>1, FieldTypes
<1>. DEFINE Typed == /\ job' \in [Nodes -> Job] /\ dial' \in [Nodes -> Dial]
                     /\ probe' \in [Nodes -> Probe] /\ effects' \in Seq(Message)
                     /\ conn' \in [Nodes -> Nat] /\ link' \in [Nodes -> Links]
                     /\ tries' \in [Nodes -> Nat]
<1>p. \A phase \in Phases : [job EXCEPT ![n] = InPhase(job[n], phase)] \in [Nodes -> Job]
  <2>. TAKE phase \in Phases
  <2>1. InPhase(job[n], phase) \in Job
    BY <1>f, JobMoves
  <2>. QED BY <1>q, <2>1
<1>d. [dial EXCEPT ![n] = [dial[n] EXCEPT !.state = "none"]] \in [Nodes -> Dial]
  <2>1. [dial[n] EXCEPT !.state = "none"] \in Dial
    BY <1>f DEF Dial
  <2>. QED BY <1>q, <2>1
<1>e. NoProbe \in Probe
  BY DEF NoProbe, Probe
<1>r. ASSUME Reject(a) PROVE /\ job' = job /\ probe' = probe /\ effects' = effects
                             /\ dial' \in [Nodes -> Dial] /\ conn' \in [Nodes -> Nat]
                             /\ link' \in [Nodes -> Links]
  <2>1. CASE dial[n].id = a.dial
    BY <1>1, <1>r, <2>1, CancelDialTypes DEF Reject
  <2>2. CASE dial[n].id # a.dial
    BY <1>r, <1>q, <2>2 DEF Reject
  <2>. QED BY <2>1, <2>2
<1>2. ASSUME ReduceConnected(a) PROVE Typed
  <2>1. CASE ~Accepted(a)
    BY <1>2, <1>q, <1>r, <2>1 DEF ReduceConnected
  <2>2. CASE Accepted(a)
    <3>1. /\ dial' = [dial EXCEPT ![n] = [dial[n] EXCEPT !.state = "none"]]
          /\ job' = IF Active(n) THEN [job EXCEPT ![n] = InPhase(job[n], "AwaitTerminal")] ELSE job
          /\ effects' = Append(effects, [a EXCEPT !.job = IF Active(n) THEN job[n].id ELSE 0])
          /\ tries' = [tries EXCEPT ![n] = 0]
          /\ UNCHANGED <<conn, link, probe>>
      BY <1>2, <2>2 DEF ReduceConnected, Push, InPhase
    <3>2. [a EXCEPT !.job = IF Active(n) THEN job[n].id ELSE 0] \in Message
      BY <1>1, <1>f DEF Message
    <3>3. "AwaitTerminal" \in Phases
      BY DEF Phases
    <3>4. job' \in [Nodes -> Job]
      BY <3>1, <3>3, <1>p, <1>q
    <3>5. effects' \in Seq(Message)
      BY <3>1, <3>2, <1>q
    <3>6. tries' \in [Nodes -> Nat]
      BY <3>1, <1>q
    <3>. QED BY <3>1, <3>4, <3>5, <3>6, <1>d, <1>q
  <2>. QED BY <2>1, <2>2
<1>3. ASSUME NEW fatal \in BOOLEAN, ReduceConnectFailed(a, fatal), tries' = tries PROVE Typed
  <2>1. CASE ~Accepted(a)
    BY <1>3, <1>q, <1>r, <2>1 DEF ReduceConnectFailed
  <2>2. CASE Accepted(a)
    <3>. DEFINE retry == ~fatal /\ MayRetry(n)
                type == CASE ~Active(n) -> "ConnectFailed"
                          [] Active(n) /\ retry -> "FailedWillRetry"
                          [] OTHER -> "FailedForGood"
    <3>1. /\ dial' = [dial EXCEPT ![n] = [dial[n] EXCEPT !.state = "none"]]
          /\ job' = IF Active(n) /\ retry THEN [job EXCEPT ![n] = InPhase(job[n], "Queued")] ELSE job
          /\ effects' = Append(effects, [About(type, n, job[n].id) EXCEPT !.dial = a.dial])
          /\ UNCHANGED <<conn, link, probe>>
      BY <1>3, <2>2 DEF ReduceConnectFailed, Push, InPhase
    <3>2. type \in {"ConnectFailed", "FailedWillRetry", "FailedForGood"}
      BY Zenon
    <3>. HIDE DEF type, retry
    <3>3. [About(type, n, job[n].id) EXCEPT !.dial = a.dial] \in Message
      BY <3>2, <1>1, <1>f, MessageTyped
    <3>4. "Queued" \in Phases
      BY DEF Phases
    <3>5. job' \in [Nodes -> Job]
      BY <3>1, <3>4, <1>p, <1>q
    <3>6. effects' \in Seq(Message)
      BY <3>1, <3>3, <1>q
    <3>. QED BY <3>1, <3>5, <3>6, <1>3, <1>d, <1>q
  <2>. QED BY <2>1, <2>2
<1>4. ASSUME ReduceSnapshotted(a), tries' = tries PROVE Typed
  <2>1. job' \in {job, [job EXCEPT ![n] = InPhase(job[n], "GracePeriod")]}
    BY <1>4 DEF ReduceSnapshotted, InPhase
  <2>2. "GracePeriod" \in Phases
    BY DEF Phases
  <2>. QED BY <1>4, <1>p, <1>q, <2>1, <2>2 DEF ReduceSnapshotted
<1>g. ASSUME ProbeDone(a) PROVE probe' \in [Nodes -> Probe]
  BY <1>g, <1>e, <1>q DEF ProbeDone
<1>5. ASSUME ReduceGraceRecovered(a), tries' = tries PROVE Typed
  <2>1. effects' \in Seq(Message)
    BY <1>5, <1>1, <1>q DEF ReduceGraceRecovered, Push
  <2>. QED BY <1>5, <1>g, <1>q, <2>1 DEF ReduceGraceRecovered
<1>6. ASSUME ReduceGraceExpired(a), tries' = tries PROVE Typed
  <2>0. effects' = Append(effects, a) \/ effects' = effects
    BY <1>6 DEF ReduceGraceExpired, Push
  <2>1. effects' \in Seq(Message)
    BY <2>0, <1>1, <1>q
  <2>2. link' \in [Nodes -> Links]
    BY <1>6, <1>q DEF ReduceGraceExpired, Links
  <2>3. job' \in [Nodes -> Job]
    <3>1. \/ job' = job
          \/ job' = [job EXCEPT ![n] = Dialling(@)]
      BY <1>6 DEF ReduceGraceExpired
    <3>. QED BY <3>1, <1>1, <1>q, AttemptTypes
  <2>. QED BY <1>6, <1>g, <1>q, <2>1, <2>2, <2>3 DEF ReduceGraceExpired
<1>7. Typed
  BY <1>2, <1>3, <1>4, <1>5, <1>6 DEF Reduce
<1>. QED BY <1>1, <1>7 DEF Reduce, TypeOK, timers, Dial, Probe, Links
(* An effect types what it changes; the queue of effects is Apply's.        *)
LEMMA EffectTyped ==
  ASSUME TypeOK, NEW e \in Message,
         \/ ApplyLinkDown(e) \/ ApplyStart(e) \/ ApplyCascade(e) \/ ApplyConnected(e)
         \/ ApplyConnectFailed(e) \/ ApplyRecovered(e)
  PROVE  /\ conn' \in [Nodes -> Nat] /\ link' \in [Nodes -> Links] /\ pending' \subseteq Nodes
         /\ requeue' \in [Nodes -> Requeue] /\ pipeline' \in Nodes \cup {NoNode}
         /\ chain' \in Nodes \cup {NoNode} /\ job' \in [Nodes -> Job]
         /\ probe' \in [Nodes -> Probe] /\ dial' \in [Nodes -> Dial]
         /\ retries' \subseteq [node : Nodes, job : Nat, dial : Nat]
         /\ tasks' \in SUBSET Task /\ tries' \in [Nodes -> Nat] /\ refused' \subseteq Nodes
<1>. DEFINE n == e.node
<1>1. n \in Nodes /\ e.job \in Nat /\ e.dial \in Nat
  BY DEF Message
<1>q. /\ conn \in [Nodes -> Nat] /\ link \in [Nodes -> Links] /\ pending \subseteq Nodes
      /\ requeue \in [Nodes -> Requeue] /\ pipeline \in Nodes \cup {NoNode}
      /\ chain \in Nodes \cup {NoNode} /\ job \in [Nodes -> Job]
      /\ probe \in [Nodes -> Probe] /\ dial \in [Nodes -> Dial]
      /\ retries \subseteq [node : Nodes, job : Nat, dial : Nat]
      /\ tasks \in SUBSET Task /\ tries \in [Nodes -> Nat] /\ refused \subseteq Nodes
  BY Constants DEF TypeOK, Links, Requeue, Probe, Dial, Task
<1>f. /\ job[n].id \in Nat /\ conn[n] \in Nat /\ requeue[n].count \in 0..MaxRequeue
      /\ dial[n] \in Dial
  BY <1>1, FieldTypes
<1>t. "Failed" \in Terminal /\ "Done" \in Terminal
  BY DEF Terminal
<1>n. NotQueued \in Requeue
  BY Constants DEF NotQueued, Requeue
<1>2. CASE ApplyLinkDown(e)
  <2>1. pending' \subseteq Nodes
    BY <1>1, <1>2, <1>q DEF ApplyLinkDown
  <2>. QED BY <1>2, <1>q, <2>1 DEF ApplyLinkDown, workers
<1>3. CASE ApplyStart(e)
  <2>1. CASE UNCHANGED <<requeue, job, pipeline, probe, tries, refused>>
    BY <1>3, <1>q, <2>1 DEF ApplyStart
  <2>2. CASE ComeBack(n) /\ UNCHANGED <<probe, tries, refused>>
    <3>1. /\ requeue' \in [Nodes -> Requeue] /\ job' \in [Nodes -> Job]
          /\ pipeline' \in Nodes \cup {NoNode}
      <4>1. CASE Finish(n, "Failed")
        BY <1>1, <1>t, <4>1, FinishTypes
      <4>2. CASE requeue' = [requeue EXCEPT ![n] = NotQueued] /\ UNCHANGED <<job, pipeline>>
        BY <1>1, <1>n, <1>q, <4>2
      <4>3. CASE /\ requeue[n].count + 1 <= MaxRequeue
                 /\ requeue' = [requeue EXCEPT ![n] = [count |-> requeue[n].count + 1, conn |-> conn[n],
                                                      armed |-> TRUE]]
                 /\ UNCHANGED <<job, pipeline>>
        <5>1. [count |-> requeue[n].count + 1, conn |-> conn[n], armed |-> TRUE] \in Requeue
          BY <1>f, <4>3, Constants DEF Requeue
        <5>. QED BY <1>q, <4>3, <5>1
      <4>4. \/ requeue[n].count + 1 > MaxRequeue \/ requeue[n].count + 1 <= MaxRequeue
        BY <1>f, Constants
      <4>5. \/ Finish(n, "Failed")
            \/ requeue' = [requeue EXCEPT ![n] = NotQueued] /\ UNCHANGED <<job, pipeline>>
            \/ /\ ~(requeue[n].count + 1 > MaxRequeue)
               /\ requeue' = [requeue EXCEPT ![n] = [count |-> requeue[n].count + 1, conn |-> conn[n],
                                                    armed |-> TRUE]]
               /\ UNCHANGED <<job, pipeline>>
        BY <2>2 DEF ComeBack
      <4>. QED BY <4>1, <4>2, <4>3, <4>4, <4>5
    <3>. QED BY <1>3, <1>q, <2>2, <3>1 DEF ApplyStart
  <2>3. ASSUME /\ pipeline' = n
               /\ requeue' = [requeue EXCEPT ![n] = NotQueued],
               NEW needs \in Snapshots,
               job' = [job EXCEPT ![n] = [id |-> @.id + 1, status |-> "Snapshot",
                                          attempt |-> 0, ended |-> FALSE,
                                          needs |-> needs, swept |-> FALSE]],
               probe' = [probe EXCEPT ![n] = [job |-> job[n].id + 1, conn |-> conn[n],
                                           state |-> "listing"]],
               tries' = [tries EXCEPT ![n] = 0],
               refused' = refused \ {n}
        PROVE  /\ requeue' \in [Nodes -> Requeue] /\ pipeline' \in Nodes \cup {NoNode}
               /\ job' \in [Nodes -> Job] /\ probe' \in [Nodes -> Probe]
               /\ tries' \in [Nodes -> Nat] /\ refused' \subseteq Nodes
    <3>1. [id |-> job[n].id + 1, status |-> "Snapshot", attempt |-> 0, ended |-> FALSE,
           needs |-> needs, swept |-> FALSE] \in Job
      BY <1>f, Constants DEF Job, Phases
    <3>2. [job |-> job[n].id + 1, conn |-> conn[n], state |-> "listing"] \in Probe
      BY <1>f DEF Probe
    <3>3. job' \in [Nodes -> Job]
      BY <2>3, <1>q, <3>1
    <3>4. probe' \in [Nodes -> Probe]
      BY <2>3, <1>q, <3>2
    <3>5. requeue' \in [Nodes -> Requeue]
      BY <2>3, <1>q, <1>n
    <3>. QED BY <1>1, <1>q, <2>3, <3>3, <3>4, <3>5
  <2>. QED BY <1>3, <1>q, <2>1, <2>2, <2>3 DEF ApplyStart
<1>4. CASE ApplyCascade(e)
  <2>1. CASE MayDial(n)
    <3>1. tries' \in [Nodes -> Nat]
      BY <1>1, <1>4, <1>q, <2>1 DEF ApplyCascade
    <3>2. StartDial(n)
      BY <1>4, <2>1 DEF ApplyCascade
    <3>. QED BY <1>1, <1>4, <1>q, <2>1, <3>1, <3>2, StartDialTypes DEF ApplyCascade, timers
  <2>2. CASE ~MayDial(n)
    BY <1>1, <1>4, <1>q, <2>2 DEF ApplyCascade, timers
  <2>. QED BY <2>1, <2>2
<1>5. CASE ApplyConnected(e)
  <2>. DEFINE asked == IF job[n].status # "None" /\ "forwards" \in job[n].needs
                       THEN tasks \cup {[node |-> n, step |-> "forwards", job |-> job[n].id]}
                       ELSE tasks
  <2>1. asked \in SUBSET Task
    BY <1>1, <1>f, <1>q DEF Task
  <2>2. \/ Restore(n, 1, asked)
        \/ tasks' = asked /\ UNCHANGED <<job, pipeline, requeue>>
    BY <1>5 DEF ApplyConnected
  <2>3. /\ job' \in [Nodes -> Job] /\ pipeline' \in Nodes \cup {NoNode}
        /\ requeue' \in [Nodes -> Requeue] /\ tasks' \in SUBSET Task
    <3>. HIDE DEF asked
    <3>1. CASE Restore(n, 1, asked)
      BY <1>1, <2>1, <3>1, RestoreTypes
    <3>. QED BY <1>q, <2>1, <2>2, <3>1
  <2>. QED BY <1>1, <1>5, <1>q, <2>3 DEF ApplyConnected
<1>6. CASE ApplyConnectFailed(e)
  <2>1. [node |-> n, job |-> e.job, dial |-> e.dial] \in [node : Nodes, job : Nat, dial : Nat]
    BY <1>1
  <2>2. retries' \subseteq [node : Nodes, job : Nat, dial : Nat]
    BY <1>6, <1>q, <2>1 DEF ApplyConnectFailed
  <2>3. Finish(n, "Failed") \/ UNCHANGED <<job, pipeline, requeue>>
    BY <1>6 DEF ApplyConnectFailed
  <2>4. /\ job' \in [Nodes -> Job] /\ pipeline' \in Nodes \cup {NoNode}
        /\ requeue' \in [Nodes -> Requeue]
    BY <1>1, <1>t, <1>q, <2>3, FinishTypes
  <2>. QED BY <1>6, <1>q, <2>2, <2>4 DEF ApplyConnectFailed, workers, Task
<1>7. CASE ApplyRecovered(e)
  <2>1. /\ job' \in [Nodes -> Job] /\ pipeline' \in Nodes \cup {NoNode}
        /\ requeue' \in [Nodes -> Requeue]
    BY <1>1, <1>7, <1>t, FinishTypes DEF ApplyRecovered
  <2>. QED BY <1>7, <1>q, <2>1 DEF ApplyRecovered, workers
<1>. QED BY <1>2, <1>3, <1>4, <1>5, <1>6, <1>7

LEMMA ApplyTyped == TypeOK /\ Apply => TypeOK'
<1>. SUFFICES ASSUME TypeOK, Apply PROVE TypeOK'
  OBVIOUS
<1>1. effects \in Seq(Message) /\ results \in Seq(Message) /\ effects # <<>>
  BY DEF TypeOK, Apply
<1>2. Head(effects) \in Message /\ effects' \in Seq(Message)
  BY <1>1, QueueTypes DEF Apply
<1>3. applying' \in BOOLEAN
  BY DEF Apply
<1>. DEFINE e == Head(effects)
<1>4. \/ ApplyLinkDown(e) \/ ApplyStart(e) \/ ApplyCascade(e) \/ ApplyConnected(e)
      \/ ApplyConnectFailed(e) \/ ApplyRecovered(e)
  BY DEF Apply
<1>. HIDE DEF e
<1>5. e \in Message
  BY <1>2 DEF e
<1>6. /\ conn' \in [Nodes -> Nat] /\ link' \in [Nodes -> Links] /\ pending' \subseteq Nodes
      /\ requeue' \in [Nodes -> Requeue] /\ pipeline' \in Nodes \cup {NoNode}
      /\ chain' \in Nodes \cup {NoNode} /\ job' \in [Nodes -> Job]
      /\ probe' \in [Nodes -> Probe] /\ dial' \in [Nodes -> Dial]
      /\ retries' \subseteq [node : Nodes, job : Nat, dial : Nat]
      /\ tasks' \in SUBSET Task /\ tries' \in [Nodes -> Nat] /\ refused' \subseteq Nodes
  BY <1>4, <1>5, EffectTyped
<1>7. UNCHANGED <<reports, results>>
  BY DEF Apply
<1>. QED BY <1>2, <1>3, <1>6, <1>7, Constants DEF TypeOK, Requeue, Probe, Dial, Links, Task

LEMMA TypeInit == Init => TypeOK
<1>. SUFFICES ASSUME Init PROVE TypeOK
  OBVIOUS
<1>1. job \in [Nodes -> Job]
  BY Constants DEF Init, Job, Phases
<1>2. requeue \in [Nodes -> Requeue]
  BY Constants DEF Init, NotQueued, Requeue
<1>3. probe \in [Nodes -> Probe] /\ dial \in [Nodes -> Dial] /\ link \in [Nodes -> Links]
      /\ conn \in [Nodes -> Nat] /\ tries \in [Nodes -> Nat]
  BY DEF Init, Probe, Dial, Links, NoProbe
<1>4. /\ reports = {} /\ pending = {} /\ retries = {} /\ tasks = {} /\ refused = {}
      /\ pipeline = NoNode /\ chain = NoNode /\ results = <<>> /\ effects = <<>>
      /\ applying = FALSE
  BY DEF Init
<1>5. results \in Seq(Message) /\ effects \in Seq(Message)
  BY <1>4
<1>. QED BY <1>1, <1>2, <1>3, <1>4, <1>5 DEF TypeOK, Requeue, Probe, Dial, Links

LEMMA TypeStep == TypeOK /\ [Next]_vars => TypeOK'
<1>. SUFFICES ASSUME TypeOK, [Next]_vars PROVE TypeOK'
  OBVIOUS
<1>1. CASE UNCHANGED vars
  BY <1>1 DEF TypeOK, vars, timers, workers
<1>2. CASE Next
  BY <1>2, WorkersTyped, TurnsTyped, DebounceTyped, RetryTyped, TaskTyped, ReduceTyped,
     ApplyTyped DEF Next
<1>. QED BY <1>1, <1>2

(* Every reachable state of the pipeline is well typed, for every finite    *)
(* set of nodes: attempts stay within max_attempts and requeues within      *)
(* RECONNECT_MAX_REQUEUE.                                                   *)
THEOREM PipelineTyped == Spec => []TypeOK
<1>1. Init => TypeOK
  BY TypeInit
<1>2. TypeOK /\ [Next]_vars => TypeOK'
  BY TypeStep
<1>. QED BY <1>1, <1>2, PTL DEF Spec

-----------------------------------------------------------------------------
(* One job at a time, and ended jobs.                                       *)

JobInv == ActiveJobOwnsPipeline /\ EndedIsTerminal

(* An active job that moves on stays active and not terminal.               *)
LEMMA PhaseKeeps ==
  ASSUME TypeOK, JobInv, NEW n \in Nodes, Active(n), pipeline' = pipeline,
         NEW j \in Job, job' = [job EXCEPT ![n] = j],
         j.ended = job[n].ended, j.status \in Phases \ Terminal
  PROVE  JobInv'
<1>0. job \in [Nodes -> Job]
  BY DEF TypeOK
<1>1. job[n].ended = FALSE /\ job[n].status # "None"
  BY <1>0 DEF Active, Job
<1>2. j.status \notin Terminal /\ j.ended = FALSE /\ j.status # "None"
  BY <1>1 DEF Phases, Terminal
<1>3. \A m \in Nodes : job'[m] = IF m = n THEN j ELSE job[m]
  BY <1>0
<1>4. ActiveJobOwnsPipeline'
  BY <1>1, <1>3 DEF JobInv, ActiveJobOwnsPipeline, Active
<1>5. EndedIsTerminal'
  BY <1>2, <1>3 DEF JobInv, EndedIsTerminal
<1>. QED BY <1>4, <1>5 DEF JobInv

LEMMA PhaseOf ==
  ASSUME NEW j \in Job, NEW phase \in Phases
  PROVE  /\ InPhase(j, phase).ended = j.ended /\ InPhase(j, phase).status = phase
         /\ EndedAs(j, phase).ended = TRUE /\ EndedAs(j, phase).status = phase
         /\ Dialling(j).ended = j.ended /\ Dialling(j).status = "SshConnect"
BY DEF Job, InPhase, EndedAs, Dialling

(* A job that ends, or is removed, may leave the pipeline to nobody.        *)
LEMMA EndKeeps ==
  ASSUME TypeOK, JobInv, NEW n \in Nodes, pipeline' = Released(n),
         NEW j \in Job, job' = [job EXCEPT ![n] = j],
         j.ended = TRUE, j.status \in Terminal
  PROVE  JobInv'
<1>0. job \in [Nodes -> Job]
  BY DEF TypeOK
<1>1. \A m \in Nodes : job'[m] = IF m = n THEN j ELSE job[m]
  BY <1>0
<1>2. ActiveJobOwnsPipeline'
  BY <1>1 DEF JobInv, ActiveJobOwnsPipeline, Active, Released
<1>3. EndedIsTerminal'
  BY <1>1 DEF JobInv, EndedIsTerminal
<1>. QED BY <1>2, <1>3 DEF JobInv

LEMMA FinishKeeps ==
  ASSUME TypeOK, JobInv, NEW n \in Nodes, NEW phase \in Terminal, Finish(n, phase)
  PROVE  JobInv'
<1>1. CASE job[n].status = "None"
  BY <1>1 DEF Finish, JobInv, ActiveJobOwnsPipeline, EndedIsTerminal, Active
<1>2. CASE job[n].status # "None"
  <2>. DEFINE j == [EndedAs(job[n], phase) EXCEPT !.swept = TRUE]
  <2>1. job[n] \in Job /\ phase \in Phases
    BY FieldTypes DEF Phases
  <2>2. EndedAs(job[n], phase) \in Job
    BY <2>1, JobMoves
  <2>3. j \in Job /\ j.ended = TRUE /\ j.status \in Terminal
    BY <2>1, <2>2, PhaseOf DEF Job
  <2>4. job' = [job EXCEPT ![n] = j] /\ pipeline' = Released(n)
    BY <1>2 DEF Finish
  <2>. QED BY <2>3, <2>4, EndKeeps
<1>. QED BY <1>1, <1>2

LEMMA RestoreKeeps ==
  ASSUME TypeOK, JobInv, NEW n \in Nodes, Active(n), NEW i \in 1..4, NEW others,
         Restore(n, i, others)
  PROVE  JobInv'
<1>1. CASE Restores(n, i) = {}
  BY <1>1, FinishKeeps DEF Restore, Terminal
<1>2. CASE Restores(n, i) # {}
  <2>. DEFINE next == CHOOSE k \in Restores(n, i) : \A l \in Restores(n, i) : k <= l
              step == RestoreSteps[next]
  <2>1. Restores(n, i) \subseteq 1..3
    BY DEF Restores
  <2>2. \E k \in Restores(n, i) : \A l \in Restores(n, i) : k <= l
    BY <1>2, <2>1
  <2>3. next \in 1..3
    BY <2>1, <2>2
  <2>4. Stage[step] \in Phases \ Terminal
    BY <2>3, StepsTyped
  <2>5. job' = [job EXCEPT ![n] = InPhase(job[n], Stage[step])] /\ pipeline' = pipeline
    BY <1>2 DEF Restore, InPhase
  <2>. HIDE DEF step
  <2>6. /\ InPhase(job[n], Stage[step]) \in Job
        /\ InPhase(job[n], Stage[step]).ended = job[n].ended
        /\ InPhase(job[n], Stage[step]).status = Stage[step]
    BY <2>4, FieldTypes, JobMoves, PhaseOf
  <2>. QED BY <2>4, <2>5, <2>6, PhaseKeeps
<1>. QED BY <1>1, <1>2

(* Moving an active job to a phase, or to its next dial.                    *)
LEMMA MoveKeeps ==
  ASSUME TypeOK, JobInv, NEW n \in Nodes, Active(n), pipeline' = pipeline,
         \/ \E phase \in {"Queued", "GracePeriod", "AwaitTerminal"} :
              job' = [job EXCEPT ![n] = InPhase(@, phase)]
         \/ job' = [job EXCEPT ![n] = Dialling(@)]
  PROVE  JobInv'
<1>1. ASSUME NEW phase \in {"Queued", "GracePeriod", "AwaitTerminal"},
             job' = [job EXCEPT ![n] = InPhase(@, phase)]
      PROVE  JobInv'
  <2>1. phase \in Phases \ Terminal
    BY DEF Phases, Terminal
  <2>2. /\ InPhase(job[n], phase) \in Job /\ InPhase(job[n], phase).ended = job[n].ended
        /\ InPhase(job[n], phase).status = phase
    BY <2>1, FieldTypes, JobMoves, PhaseOf
  <2>. QED BY <1>1, <2>1, <2>2, PhaseKeeps
<1>2. CASE job' = [job EXCEPT ![n] = Dialling(@)]
  <2>1. "SshConnect" \in Phases \ Terminal
    BY DEF Phases, Terminal
  <2>2. /\ Dialling(job[n]) \in Job /\ Dialling(job[n]).ended = job[n].ended
        /\ Dialling(job[n]).status = "SshConnect"
    BY <2>1, FieldTypes, AttemptTypes, PhaseOf
  <2>. QED BY <1>2, <2>1, <2>2, PhaseKeeps
<1>. QED BY <1>1, <1>2

LEMMA JobInit == Init => JobInv
BY DEF Init, JobInv, ActiveJobOwnsPipeline, EndedIsTerminal, Active, Terminal

LEMMA JobUnchanged == JobInv /\ UNCHANGED <<job, pipeline>> => JobInv'
BY DEF JobInv, ActiveJobOwnsPipeline, EndedIsTerminal, Active

LEMMA JobTurns ==
  ASSUME TypeOK, JobInv, NEW n \in Nodes, Sweep(n) \/ Disconnect(n)
  PROVE  JobInv'
<1>0. job \in [Nodes -> Job]
  BY DEF TypeOK
<1>1. CASE Sweep(n)
  <2>. DEFINE gone == [job[n] EXCEPT !.status = "None", !.swept = FALSE, !.needs = {},
                                     !.attempt = 0]
              kept == [job[n] EXCEPT !.swept = FALSE]
  <2>1. /\ job' = [job EXCEPT ![n] = IF job[n].status \in Terminal THEN gone ELSE kept]
        /\ pipeline' = pipeline
    BY <1>1 DEF Sweep
  <2>2. gone.status = "None" /\ kept.status = job[n].status /\ kept.ended = job[n].ended
    BY <1>0 DEF Job
  <2>. HIDE DEF gone, kept
  <2>3. \A m \in Nodes : job'[m] = job[m] \/ (m = n /\ job'[m] \in {gone, kept})
    BY <1>0, <2>1
  <2>4. \A m \in Nodes : \/ job'[m].status = "None"
                         \/ job'[m].status = job[m].status /\ job'[m].ended = job[m].ended
    <3>. SUFFICES ASSUME NEW m \in Nodes
         PROVE  \/ job'[m].status = "None"
                \/ job'[m].status = job[m].status /\ job'[m].ended = job[m].ended
      OBVIOUS
    <3>1. CASE job'[m] = job[m]
      BY <3>1
    <3>2. CASE m = n /\ job'[m] = gone
      BY <2>2, <3>2
    <3>3. CASE m = n /\ job'[m] = kept
      BY <2>2, <3>3
    <3>. QED BY <2>3, <3>1, <3>2, <3>3
  <2>. QED BY <2>1, <2>4 DEF JobInv, ActiveJobOwnsPipeline, EndedIsTerminal, Active
<1>2. CASE Disconnect(n)
  <2>1. CASE job[n].status = "None"
    <3>1. job' = job /\ pipeline' = Released(n)
      BY <1>2, <2>1 DEF Disconnect
    <3>. QED BY <2>1, <3>1 DEF JobInv, ActiveJobOwnsPipeline, EndedIsTerminal, Active, Released
  <2>2. CASE job[n].status # "None"
    <3>. DEFINE j == [EndedAs(job[n], "Cancelled") EXCEPT !.swept = FALSE]
    <3>1. "Cancelled" \in Phases /\ "Cancelled" \in Terminal
      BY DEF Phases, Terminal
    <3>2. EndedAs(job[n], "Cancelled") \in Job
      BY <1>0, <3>1, JobMoves
    <3>p. /\ EndedAs(job[n], "Cancelled").ended = TRUE
          /\ EndedAs(job[n], "Cancelled").status = "Cancelled"
      BY <1>0, <3>1, PhaseOf
    <3>3. j \in Job /\ j.ended = TRUE /\ j.status \in Terminal
      BY <3>1, <3>2, <3>p DEF Job
    <3>4. job' = [job EXCEPT ![n] = j] /\ pipeline' = Released(n)
      BY <1>2, <2>2 DEF Disconnect
    <3>. QED BY <3>3, <3>4, EndKeeps
  <2>. QED BY <2>1, <2>2
<1>. QED BY <1>1, <1>2

LEMMA JobRetry ==
  ASSUME TypeOK, JobInv, NEW r \in retries, RetryFires(r)
  PROVE  JobInv'
<1>1. r.node \in Nodes /\ pipeline' = pipeline
  BY DEF TypeOK, RetryFires
<1>2. \/ job' = job
      \/ Active(r.node) /\ job' = [job EXCEPT ![r.node] = Dialling(@)]
  BY DEF RetryFires, Current
<1>. QED BY <1>1, <1>2, MoveKeeps, JobUnchanged

LEMMA JobTask ==
  ASSUME TypeOK, JobInv, NEW t \in tasks, NEW ok \in BOOLEAN, TaskEnds(t, ok)
  PROVE  JobInv'
<1>. DEFINE n == t.node
            rest == tasks \ {t}
            step == CHOOSE i \in 1..3 : RestoreSteps[i] = t.step
<1>1. n \in Nodes /\ t.step \in {"forwards", "transfers", "ide"}
  BY Constants DEF TypeOK
<1>2. step + 1 \in 1..4
  <2>1. \A s \in {"forwards", "transfers", "ide"} : \E i \in 1..3 : RestoreSteps[i] = s
    BY DEF RestoreSteps
  <2>. QED BY <1>1, <2>1
<1>3. \/ UNCHANGED <<job, pipeline>>
      \/ Finish(n, "Failed")
      \/ Active(n) /\ Restore(n, step + 1, rest)
  BY DEF TaskEnds, Current
<1>. HIDE DEF step
<1>4. "Failed" \in Terminal
  BY DEF Terminal
<1>. QED BY <1>1, <1>2, <1>3, <1>4, JobUnchanged, FinishKeeps, RestoreKeeps

LEMMA JobReduce == TypeOK /\ JobInv /\ Reduce => JobInv'
<1>. SUFFICES ASSUME TypeOK, JobInv, Reduce PROVE JobInv'
  OBVIOUS
<1>. DEFINE a == Head(results)
            n == a.node
<1>1. n \in Nodes
  <2>1. a \in Message
    BY QueueTypes DEF Reduce, TypeOK
  <2>. QED BY <2>1 DEF Message
<1>2. pipeline' = pipeline
  BY DEF Reduce
<1>3. \/ job' = job
      \/ /\ Active(n)
         /\ \/ \E phase \in {"Queued", "GracePeriod", "AwaitTerminal"} :
                  job' = [job EXCEPT ![n] = InPhase(@, phase)]
            \/ job' = [job EXCEPT ![n] = Dialling(@)]
  <2>1. CASE ReduceConnected(a)
    <3>1. \/ job' = job
          \/ Active(n) /\ job' = [job EXCEPT ![n] = InPhase(@, "AwaitTerminal")]
      BY <2>1 DEF ReduceConnected, Reject
    <3>. QED BY <3>1
  <2>2. ASSUME NEW fatal \in BOOLEAN, ReduceConnectFailed(a, fatal)
        PROVE  \/ job' = job
               \/ Active(n) /\ job' = [job EXCEPT ![n] = InPhase(@, "Queued")]
    BY <2>2 DEF ReduceConnectFailed, Reject
  <2>3. CASE ReduceSnapshotted(a)
    <3>1. \/ job' = job
          \/ Active(n) /\ job' = [job EXCEPT ![n] = InPhase(@, "GracePeriod")]
      BY <2>3 DEF ReduceSnapshotted, Current
    <3>. QED BY <3>1
  <2>4. CASE ReduceGraceRecovered(a)
    BY <2>4 DEF ReduceGraceRecovered
  <2>5. CASE ReduceGraceExpired(a)
    <3>1. \/ job' = job
          \/ Active(n) /\ job' = [job EXCEPT ![n] = Dialling(@)]
      BY <2>5 DEF ReduceGraceExpired, Current
    <3>. QED BY <3>1
  <2>. QED BY <2>1, <2>2, <2>3, <2>4, <2>5 DEF Reduce
<1>. QED BY <1>1, <1>2, <1>3, MoveKeeps, JobUnchanged

LEMMA JobApply == TypeOK /\ JobInv /\ Apply => JobInv'
<1>. SUFFICES ASSUME TypeOK, JobInv, Apply PROVE JobInv'
  OBVIOUS
<1>. DEFINE e == Head(effects)
            n == e.node
<1>1. n \in Nodes
  <2>1. e \in Message
    BY QueueTypes DEF Apply, TypeOK
  <2>. QED BY <2>1 DEF Message
<1>t. "Failed" \in Terminal /\ "Done" \in Terminal
  BY DEF Terminal
<1>2. ASSUME ApplyLinkDown(e) \/ ApplyCascade(e) PROVE JobInv'
  BY <1>2, JobUnchanged DEF ApplyLinkDown, ApplyCascade
<1>3. ASSUME ApplyStart(e) PROVE JobInv'
  <2>1. CASE UNCHANGED <<job, pipeline>>
    BY <2>1, JobUnchanged
  <2>2. CASE ComeBack(n)
    <3>1. UNCHANGED <<job, pipeline>> \/ Finish(n, "Failed")
      BY <2>2 DEF ComeBack
    <3>. QED BY <1>1, <1>t, <3>1, FinishKeeps, JobUnchanged
  <2>3. ASSUME pipeline \in {NoNode, n}, pipeline' = n, NEW needs \in Snapshots,
               job' = [job EXCEPT ![n] = [id |-> @.id + 1, status |-> "Snapshot",
                                          attempt |-> 0, ended |-> FALSE,
                                          needs |-> needs, swept |-> FALSE]]
        PROVE  JobInv'
    <3>0. job \in [Nodes -> Job]
      BY DEF TypeOK
    <3>1. /\ job'[n].status = "Snapshot" /\ job'[n].ended = FALSE
          /\ \A m \in Nodes \ {n} : job'[m] = job[m]
      BY <1>1, <2>3, <3>0
    <3>2. ActiveJobOwnsPipeline'
      BY <2>3, <3>1, Constants DEF JobInv, ActiveJobOwnsPipeline, Active
    <3>3. EndedIsTerminal'
      BY <3>1 DEF JobInv, EndedIsTerminal, Terminal
    <3>. QED BY <3>2, <3>3 DEF JobInv
  <2>. QED BY <1>3, <2>1, <2>2, <2>3 DEF ApplyStart
<1>4. ASSUME ApplyConnected(e) PROVE JobInv'
  <2>1. \/ UNCHANGED <<job, pipeline>>
        \/ Active(n) /\ \E asked : Restore(n, 1, asked)
    BY <1>4 DEF ApplyConnected
  <2>. QED BY <1>1, <2>1, RestoreKeeps, JobUnchanged
<1>5. ASSUME ApplyConnectFailed(e) PROVE JobInv'
  <2>1. UNCHANGED <<job, pipeline>> \/ Finish(n, "Failed")
    BY <1>5 DEF ApplyConnectFailed
  <2>. QED BY <1>1, <1>t, <2>1, FinishKeeps, JobUnchanged
<1>6. ASSUME ApplyRecovered(e) PROVE JobInv'
  BY <1>1, <1>t, <1>6, FinishKeeps DEF ApplyRecovered
<1>. QED BY <1>2, <1>3, <1>4, <1>5, <1>6 DEF Apply

LEMMA JobStep == TypeOK /\ JobInv /\ [Next]_vars => JobInv'
<1>. SUFFICES ASSUME TypeOK, JobInv, [Next]_vars PROVE JobInv'
  OBVIOUS
<1>1. CASE UNCHANGED vars
  BY <1>1, JobUnchanged DEF vars
<1>2. ASSUME NEW n \in Nodes,
             \/ LinkLost(n) \/ ProbeLists(n) \/ ProbeAlive(n) \/ ProbeExpires(n)
             \/ \E outcome \in {"Connected", "ConnectFailed"} : DialEnds(n, outcome)
             \/ ReportArrives(n) \/ RequeueFires(n) \/ UserConnect(n)
      PROVE  JobInv'
  BY <1>2, JobUnchanged DEF LinkLost, ProbeLists, ProbeAlive, ProbeExpires, DialEnds,
     ReportArrives, RequeueFires, UserConnect
<1>3. ASSUME Debounce PROVE JobInv'
  BY <1>3, JobUnchanged DEF Debounce
<1>. QED BY <1>1, <1>2, <1>3, JobTurns, JobRetry, JobTask, JobReduce, JobApply DEF Next

(* Both properties need no more than the types: a job becomes active only   *)
(* where its node takes the pipeline.                                       *)
LEMMA JobAlways == Spec => []JobInv
<1>1. Init => TypeOK /\ JobInv
  BY TypeInit, JobInit
<1>2. TypeOK /\ JobInv /\ [Next]_vars => (TypeOK /\ JobInv)'
  BY TypeStep, JobStep
<1>. QED BY <1>1, <1>2, PTL DEF Spec

(* A job that has not ended belongs to the node that owns the pipeline      *)
(* (claim_reconnect_pipeline, release_reconnect_pipeline), so no two nodes  *)
(* reconnect at once.                                                       *)
THEOREM OneJobAtATime == Spec => []ActiveJobOwnsPipeline
<1>1. JobInv => ActiveJobOwnsPipeline
  BY DEF JobInv
<1>. QED BY <1>1, JobAlways, PTL

(* No late answer takes an ended job back to a running phase, though        *)
(* advance does not look whether the job has ended.                         *)
THEOREM EndedStaysTerminal == Spec => []EndedIsTerminal
<1>1. JobInv => EndedIsTerminal
  BY DEF JobInv
<1>. QED BY <1>1, JobAlways, PTL

-----------------------------------------------------------------------------
(* The budget of dials.  What a turn has left to apply is counted by the    *)
(* positions of the effects of one node and of some types.                  *)

Of(q, n, types) == {i \in 1..Len(q) : q[i].node = n /\ q[i].type \in types}

AtMostOne(S) == \A i, j \in S : i = j

(* The effects that give the connection chain of the node back, and those   *)
(* that dial.                                                               *)
Releases == {"Connected", "ConnectFailed", "FailedWillRetry", "FailedForGood"}
Cascades == {"GraceExpired", "RetryNodeConnect"}

(* What a timer pushes is alone in its turn.                                *)
TurnInv ==
  \A i \in 1..Len(effects) :
    /\ effects[i].type = "StartPipeline" =>
         applying /\ \A j \in 1..Len(effects) : effects[j].type = "StartPipeline"
    /\ effects[i].type = "RetryNodeConnect" => applying /\ Len(effects) = 1

(* No probe, and no answer of one, names a job that is still to come.       *)
TagInv ==
  /\ \A n \in Nodes : probe[n].job <= job[n].id
  /\ \A i \in 1..Len(results) :
       results[i].type = "GraceExpired" => results[i].job <= job[results[i].node].id
  /\ \A i \in 1..Len(effects) :
       effects[i].type = "GraceExpired" => effects[i].job = job[effects[i].node].id

(* The chain is held from the start of a dial until its one answer has been *)
(* applied.                                                                 *)
ChainInv ==
  \A n \in Nodes :
    /\ dial[n].state # "none" => chain = n /\ Of(effects, n, Releases) = {}
    /\ Of(effects, n, Releases) # {} => chain = n
    /\ AtMostOne(Of(effects, n, Releases))

(* The grace period of a job ends once.                                     *)
Probing(n) == probe[n].job = job[n].id /\ probe[n].state \in {"listing", "probing"}
Answers(n) == {i \in Of(results, n, {"GraceExpired"}) : results[i].job = job[n].id}
Expired(n) == Of(effects, n, {"GraceExpired"})

ProbeInv ==
  \A n \in Nodes :
    /\ Probing(n) => Answers(n) = {} /\ Expired(n) = {}
    /\ Answers(n) # {} => Expired(n) = {}
    /\ AtMostOne(Answers(n)) /\ AtMostOne(Expired(n))

(* An attempt is counted before its dial; when the last one is spent, the   *)
(* chain stays with the node until the job fails or connects.               *)
Waiting(n) == IF Of(effects, n, Cascades) = {} THEN 0 ELSE 1

BudgetInv ==
  \A n \in Nodes :
    /\ tries[n] <= MaxAttempts
    /\ Active(n) /\ job[n].attempt < MaxAttempts => tries[n] + Waiting(n) <= job[n].attempt
    /\ Active(n) /\ tries[n] = MaxAttempts =>
         /\ chain = n
         /\ \A i \in Of(effects, n, Releases) : effects[i].type = "FailedForGood"

BudgetParts == TurnInv /\ TagInv /\ ChainInv /\ ProbeInv /\ BudgetInv

(* Queues.                                                                  *)
LEMMA AppendAt ==
  ASSUME NEW q \in Seq(Message), NEW m \in Message
  PROVE  /\ Len(Append(q, m)) = Len(q) + 1 /\ Len(q) \in Nat
         /\ \A i \in 1..Len(q) : Append(q, m)[i] = q[i]
         /\ Append(q, m)[Len(q) + 1] = m
OBVIOUS

LEMMA TailAt ==
  ASSUME NEW q \in Seq(Message), q # <<>>
  PROVE  /\ Len(Tail(q)) = Len(q) - 1 /\ Len(q) \in Nat /\ Len(q) > 0
         /\ \A i \in 1..Len(Tail(q)) : Tail(q)[i] = q[i + 1] /\ i + 1 \in 1..Len(q)
         /\ Head(q) = q[1] /\ 1 \in 1..Len(q)
OBVIOUS

LEMMA OfAppend ==
  ASSUME NEW q \in Seq(Message), NEW m \in Message, NEW n, NEW types
  PROVE  /\ m.node = n /\ m.type \in types =>
              Of(Append(q, m), n, types) = Of(q, n, types) \cup {Len(q) + 1}
         /\ ~(m.node = n /\ m.type \in types) => Of(Append(q, m), n, types) = Of(q, n, types)
         /\ \A i \in Of(q, n, types) : Append(q, m)[i] = q[i]
BY AppendAt DEF Of

LEMMA OfAppended ==
  ASSUME NEW q \in Seq(Message), NEW m \in Message, NEW types, m.type \in types
  PROVE  Of(Append(q, m), m.node, types) = Of(q, m.node, types) \cup {Len(q) + 1}
BY OfAppend

LEMMA OfTail ==
  ASSUME NEW q \in Seq(Message), q # <<>>, NEW n, NEW types
  PROVE  /\ \A i \in Of(Tail(q), n, types) : i + 1 \in Of(q, n, types) /\ Tail(q)[i] = q[i + 1]
         /\ Of(q, n, types) = {} => Of(Tail(q), n, types) = {}
         /\ AtMostOne(Of(q, n, types)) => AtMostOne(Of(Tail(q), n, types))
         /\ /\ Head(q).node = n /\ Head(q).type \in types
            /\ AtMostOne(Of(q, n, types))
            => Of(Tail(q), n, types) = {}
<1>1. \A i \in Of(Tail(q), n, types) : i + 1 \in Of(q, n, types) /\ Tail(q)[i] = q[i + 1]
  BY TailAt DEF Of
<1>2. \A i \in Of(Tail(q), n, types) : i \in Nat /\ i > 0
  BY TailAt DEF Of
<1>3. Of(q, n, types) = {} => Of(Tail(q), n, types) = {}
  BY <1>1
<1>4. AtMostOne(Of(q, n, types)) => AtMostOne(Of(Tail(q), n, types))
  BY <1>1, <1>2 DEF AtMostOne
<1>5. Head(q).node = n /\ Head(q).type \in types => 1 \in Of(q, n, types)
  BY TailAt DEF Of
<1>6. 1 \in Of(q, n, types) /\ AtMostOne(Of(q, n, types)) => Of(Tail(q), n, types) = {}
  <2>. SUFFICES ASSUME 1 \in Of(q, n, types), AtMostOne(Of(q, n, types)),
                       NEW i \in Of(Tail(q), n, types)
                PROVE  FALSE
    OBVIOUS
  <2>1. i + 1 = 1
    BY <1>1 DEF AtMostOne
  <2>. QED BY <1>2, <2>1
<1>. QED BY <1>1, <1>3, <1>4, <1>5, <1>6

LEMMA OfEmpty == \A n, types : Of(<<>>, n, types) = {} /\ AtMostOne({})
BY DEF Of, AtMostOne

(* What most steps do to the jobs: they move on or end, and none dials.     *)
JobsEnd ==
  \A m \in Nodes :
    /\ job'[m].id = job[m].id
    /\ Active(m)' => Active(m) /\ job'[m].attempt = job[m].attempt

LEMMA JobReplaced ==
  ASSUME TypeOK, NEW n \in Nodes, NEW j \in Job, job' = [job EXCEPT ![n] = j],
         j.id = job[n].id,
         (j.status # "None" /\ ~j.ended) => Active(n) /\ j.attempt = job[n].attempt
  PROVE  JobsEnd
<1>1. \A m \in Nodes : job'[m] = IF m = n THEN j ELSE job[m]
  BY DEF TypeOK
<1>. QED BY <1>1 DEF JobsEnd, Active

LEMMA JobsSame == job' = job => JobsEnd
BY DEF JobsEnd, Active

LEMMA PhaseFields ==
  ASSUME NEW j \in Job, NEW phase \in Phases
  PROVE  /\ InPhase(j, phase).id = j.id /\ InPhase(j, phase).attempt = j.attempt
         /\ EndedAs(j, phase).id = j.id
         /\ Dialling(j).id = j.id /\ Dialling(j).attempt = NextAttempt(j.attempt)
BY DEF Job, InPhase, EndedAs, Dialling

LEMMA PhaseEnds ==
  ASSUME TypeOK, NEW n \in Nodes, Active(n), NEW phase \in Phases,
         job' = [job EXCEPT ![n] = InPhase(@, phase)]
  PROVE  JobsEnd
<1>1. job[n] \in Job /\ InPhase(job[n], phase) \in Job
  BY FieldTypes, JobMoves
<1>2. InPhase(job[n], phase).id = job[n].id /\ InPhase(job[n], phase).attempt = job[n].attempt
  BY <1>1, PhaseFields
<1>. QED BY <1>1, <1>2, JobReplaced

LEMMA FinishEnds ==
  ASSUME TypeOK, NEW n \in Nodes, NEW phase \in Terminal, Finish(n, phase)
  PROVE  JobsEnd /\ ~Active(n)'
<1>1. CASE job[n].status = "None"
  <2>1. job' = job
    BY <1>1 DEF Finish
  <2>. QED BY <1>1, <2>1, JobsSame DEF Active
<1>2. CASE job[n].status # "None"
  <2>. DEFINE j == [EndedAs(job[n], phase) EXCEPT !.swept = TRUE]
  <2>1. job[n] \in Job /\ phase \in Phases
    BY FieldTypes DEF Phases
  <2>2. /\ EndedAs(job[n], phase) \in Job /\ EndedAs(job[n], phase).ended = TRUE
        /\ EndedAs(job[n], phase).id = job[n].id
    BY <2>1, JobMoves, PhaseOf, PhaseFields
  <2>3. j \in Job /\ j.ended = TRUE /\ j.id = job[n].id
    BY <2>2 DEF Job
  <2>4. job' = [job EXCEPT ![n] = j]
    BY <1>2 DEF Finish
  <2>. HIDE DEF j
  <2>5. JobsEnd
    BY <2>3, <2>4, JobReplaced
  <2>6. job'[n] = j
    BY <2>4 DEF TypeOK
  <2>. QED BY <2>3, <2>5, <2>6 DEF Active
<1>. QED BY <1>1, <1>2

LEMMA RestoreEnds ==
  ASSUME TypeOK, NEW n \in Nodes, Active(n), NEW i \in 1..4, NEW others,
         Restore(n, i, others)
  PROVE  JobsEnd
<1>1. CASE Restores(n, i) = {}
  BY <1>1, FinishEnds DEF Restore, Terminal
<1>2. CASE Restores(n, i) # {}
  <2>. DEFINE next == CHOOSE k \in Restores(n, i) : \A l \in Restores(n, i) : k <= l
              step == RestoreSteps[next]
  <2>1. Restores(n, i) \subseteq 1..3
    BY DEF Restores
  <2>2. \E k \in Restores(n, i) : \A l \in Restores(n, i) : k <= l
    BY <1>2, <2>1
  <2>3. next \in 1..3
    BY <2>1, <2>2
  <2>4. Stage[step] \in Phases
    BY <2>3, StepsTyped
  <2>5. job' = [job EXCEPT ![n] = InPhase(@, Stage[step])]
    BY <1>2 DEF Restore
  <2>. HIDE DEF step
  <2>. QED BY <2>4, <2>5, PhaseEnds
<1>. QED BY <1>1, <1>2

LEMMA SweepEnds ==
  ASSUME TypeOK, JobInv, NEW n \in Nodes, Sweep(n)
  PROVE  JobsEnd
<1>0. job \in [Nodes -> Job] /\ job[n] \in Job
  BY FieldTypes DEF TypeOK
<1>. DEFINE gone == [job[n] EXCEPT !.status = "None", !.swept = FALSE, !.needs = {},
                                   !.attempt = 0]
            kept == [job[n] EXCEPT !.swept = FALSE]
<1>1. job' = [job EXCEPT ![n] = IF job[n].status \in Terminal THEN gone ELSE kept]
  BY DEF Sweep
<1>2. /\ gone.status = "None" /\ gone.id = job[n].id
      /\ kept.status = job[n].status /\ kept.ended = job[n].ended
      /\ kept.id = job[n].id /\ kept.attempt = job[n].attempt
  BY <1>0 DEF Job
<1>. HIDE DEF gone, kept
<1>3. \A m \in Nodes : job'[m] = job[m] \/ (m = n /\ job'[m] = gone) \/ (m = n /\ job'[m] = kept)
  BY <1>0, <1>1
<1>. SUFFICES ASSUME NEW m \in Nodes
     PROVE  /\ job'[m].id = job[m].id
            /\ Active(m)' => Active(m) /\ job'[m].attempt = job[m].attempt
  BY DEF JobsEnd
<1>4. CASE job'[m] = job[m]
  BY <1>4 DEF Active
<1>5. CASE m = n /\ job'[m] = gone
  BY <1>2, <1>5 DEF Active
<1>6. CASE m = n /\ job'[m] = kept
  BY <1>2, <1>6 DEF Active
<1>. QED BY <1>3, <1>4, <1>5, <1>6

LEMMA DisconnectEnds ==
  ASSUME TypeOK, NEW n \in Nodes, Disconnect(n)
  PROVE  JobsEnd /\ ~Active(n)'
<1>1. CASE job[n].status = "None"
  <2>1. job' = job
    BY <1>1 DEF Disconnect
  <2>. QED BY <1>1, <2>1, JobsSame DEF Active
<1>2. CASE job[n].status # "None"
  <2>. DEFINE j == [EndedAs(job[n], "Cancelled") EXCEPT !.swept = FALSE]
  <2>1. job[n] \in Job /\ "Cancelled" \in Phases
    BY FieldTypes DEF Phases, Terminal
  <2>2. /\ EndedAs(job[n], "Cancelled") \in Job /\ EndedAs(job[n], "Cancelled").ended = TRUE
        /\ EndedAs(job[n], "Cancelled").id = job[n].id
    BY <2>1, JobMoves, PhaseOf, PhaseFields
  <2>3. j \in Job /\ j.ended = TRUE /\ j.id = job[n].id
    BY <2>2 DEF Job
  <2>4. job' = [job EXCEPT ![n] = j]
    BY <1>2 DEF Disconnect
  <2>. HIDE DEF j
  <2>5. JobsEnd
    BY <2>3, <2>4, JobReplaced
  <2>6. job'[n] = j
    BY <2>4 DEF TypeOK
  <2>. QED BY <2>3, <2>5, <2>6 DEF Active
<1>. QED BY <1>1, <1>2

LEMMA TaskEndsJobs ==
  ASSUME TypeOK, NEW t \in tasks, NEW ok \in BOOLEAN, TaskEnds(t, ok)
  PROVE  JobsEnd
<1>. DEFINE n == t.node
            rest == tasks \ {t}
            step == CHOOSE i \in 1..3 : RestoreSteps[i] = t.step
<1>1. n \in Nodes /\ t.step \in {"forwards", "transfers", "ide"}
  BY Constants DEF TypeOK
<1>2. step + 1 \in 1..4
  <2>1. \A s \in {"forwards", "transfers", "ide"} : \E i \in 1..3 : RestoreSteps[i] = s
    BY DEF RestoreSteps
  <2>. QED BY <1>1, <2>1
<1>3. \/ job' = job
      \/ Finish(n, "Failed")
      \/ Active(n) /\ Restore(n, step + 1, rest)
  BY DEF TaskEnds, Current
<1>. HIDE DEF step
<1>4. "Failed" \in Terminal
  BY DEF Terminal
<1>. QED BY <1>1, <1>2, <1>3, <1>4, JobsSame, FinishEnds, RestoreEnds

LEMMA CounterTypes ==
  ASSUME TypeOK, NEW m \in Nodes
  PROVE  /\ tries[m] \in Nat /\ job[m].id \in Nat /\ MaxAttempts \in Nat /\ MaxAttempts > 0
         /\ job[m].attempt \in Nat /\ job[m].attempt <= MaxAttempts
<1>1. tries[m] \in Nat
  BY DEF TypeOK
<1>2. job[m].attempt \in 0..MaxAttempts /\ job[m].id \in Nat
  BY FieldTypes
<1>. QED BY <1>1, <1>2, Constants

(* Each part is kept by a step that adds nothing to what the part counts.   *)
Shrinks(old, new) == (old = {} => new = {}) /\ (AtMostOne(old) => AtMostOne(new))

LEMMA ChainKeeps ==
  ASSUME ChainInv, chain' = chain,
         \A m \in Nodes : dial'[m].state # "none" => dial[m].state # "none",
         \A m \in Nodes : Shrinks(Of(effects, m, Releases), Of(effects, m, Releases)')
  PROVE  ChainInv'
BY DEF ChainInv, Shrinks

LEMMA ProbeKeeps ==
  ASSUME ProbeInv,
         \A m \in Nodes : Probing(m)' => Probing(m),
         \A m \in Nodes : Shrinks(Answers(m), Answers(m)'),
         \A m \in Nodes : Shrinks(Expired(m), Expired(m)')
  PROVE  ProbeInv'
BY DEF ProbeInv, Shrinks

LEMMA BudgetKeeps ==
  ASSUME BudgetInv, TypeOK, JobsEnd, tries' = tries, chain' = chain,
         \A m \in Nodes : Of(effects, m, Cascades) = {} => Of(effects, m, Cascades)' = {},
         \A m \in Nodes : \A i \in Of(effects, m, Releases)' :
           \E k \in Of(effects, m, Releases) : effects'[i].type = effects[k].type
  PROVE  BudgetInv'
<1>. SUFFICES ASSUME NEW m \in Nodes
     PROVE  /\ tries'[m] <= MaxAttempts
            /\ Active(m)' /\ job'[m].attempt < MaxAttempts =>
                 tries'[m] + Waiting(m)' <= job'[m].attempt
            /\ Active(m)' /\ tries'[m] = MaxAttempts =>
                 /\ chain' = m
                 /\ \A i \in Of(effects, m, Releases)' : effects'[i].type = "FailedForGood"
  BY DEF BudgetInv
<1>1. tries[m] \in Nat /\ job[m].attempt \in Nat
  BY CounterTypes
<1>2. Waiting(m)' <= Waiting(m) /\ Waiting(m) \in {0, 1} /\ Waiting(m)' \in {0, 1}
  BY DEF Waiting
<1>3. tries'[m] <= MaxAttempts
  BY DEF BudgetInv
<1>4. Active(m)' /\ job'[m].attempt < MaxAttempts => tries'[m] + Waiting(m)' <= job'[m].attempt
  BY <1>1, <1>2 DEF BudgetInv, JobsEnd
<1>5. Active(m)' /\ tries'[m] = MaxAttempts =>
        /\ chain' = m
        /\ \A i \in Of(effects, m, Releases)' : effects'[i].type = "FailedForGood"
  BY DEF BudgetInv, JobsEnd
<1>. QED BY <1>3, <1>4, <1>5

LEMMA ShrinksRefl == \A S : Shrinks(S, S)
BY DEF Shrinks

(* Nothing to apply, to answer or to dial is added.                         *)
LEMMA StillKeeps ==
  ASSUME TypeOK, BudgetParts, JobsEnd, UNCHANGED <<effects, applying, results, chain, tries>>,
         \A m \in Nodes : dial'[m].state # "none" => dial[m].state # "none",
         \A m \in Nodes : probe'[m].job = 0 \/ probe'[m].job = probe[m].job,
         \A m \in Nodes : Probing(m)' => Probing(m)
  PROVE  BudgetParts'
<1>1. TurnInv'
  BY DEF BudgetParts, TurnInv
<1>2. TagInv'
  <2>1. \A i \in 1..Len(results) : results[i].node \in Nodes
    <3>1. \A i \in 1..Len(results) : results[i] \in Message
      BY DEF TypeOK
    <3>. QED BY <3>1 DEF Message
  <2>2. \A i \in 1..Len(effects) : effects[i].node \in Nodes
    <3>1. \A i \in 1..Len(effects) : effects[i] \in Message
      BY DEF TypeOK
    <3>. QED BY <3>1 DEF Message
  <2>3. \A m \in Nodes : job'[m].id = job[m].id /\ job[m].id \in Nat
    BY CounterTypes DEF JobsEnd
  <2>. QED BY <2>1, <2>2, <2>3 DEF BudgetParts, TagInv
<1>3. ChainInv'
  BY ShrinksRefl, ChainKeeps DEF BudgetParts
<1>4. ProbeInv'
  <2>1. \A m \in Nodes : Answers(m)' = Answers(m) /\ Expired(m)' = Expired(m)
    BY DEF Answers, Expired, JobsEnd
  <2>. QED BY <2>1, ShrinksRefl, ProbeKeeps DEF BudgetParts
<1>5. BudgetInv'
  BY BudgetKeeps DEF BudgetParts
<1>. QED BY <1>1, <1>2, <1>3, <1>4, <1>5 DEF BudgetParts

LEMMA CancelDialEnds ==
  ASSUME TypeOK, NEW n \in Nodes, CancelDial(n)
  PROVE  \A m \in Nodes : dial'[m].state # "none" => dial[m].state # "none"
<1>1. dial \in [Nodes -> Dial] /\ dial[n] \in Dial
  BY FieldTypes DEF TypeOK, Dial
<1>2. \/ dial' = dial
      \/ dial' = [dial EXCEPT ![n] = [dial[n] EXCEPT !.state = "none"]]
  BY DEF CancelDial
<1>3. [dial[n] EXCEPT !.state = "none"].state = "none"
  BY <1>1 DEF Dial
<1>. QED BY <1>1, <1>2, <1>3

LEMMA StillSteps ==
  ASSUME TypeOK, JobInv, BudgetParts,
         \/ \E n \in Nodes : LinkLost(n) \/ Sweep(n)
         \/ \E t \in tasks, ok \in BOOLEAN : TaskEnds(t, ok)
  PROVE  BudgetParts'
<1>1. ASSUME NEW n \in Nodes, LinkLost(n) PROVE BudgetParts'
  <2>1. UNCHANGED <<effects, applying, results, chain, tries, dial, probe, job>>
    BY <1>1 DEF LinkLost, workers
  <2>2. \A m \in Nodes : Probing(m)' => Probing(m)
    BY <2>1 DEF Probing
  <2>. QED BY <2>1, <2>2, JobsSame, StillKeeps
<1>2. ASSUME NEW n \in Nodes, Sweep(n) PROVE BudgetParts'
  <2>1. UNCHANGED <<effects, applying, results, chain, tries, dial, probe>>
    BY <1>2 DEF Sweep, workers
  <2>2. JobsEnd
    BY <1>2, SweepEnds
  <2>3. \A m \in Nodes : Probing(m)' => Probing(m)
    BY <2>1, <2>2 DEF Probing, JobsEnd
  <2>. QED BY <2>1, <2>2, <2>3, StillKeeps
<1>3. ASSUME NEW t \in tasks, NEW ok \in BOOLEAN, TaskEnds(t, ok) PROVE BudgetParts'
  <2>1. UNCHANGED <<effects, applying, results, chain, tries, dial, probe>>
    BY <1>3 DEF TaskEnds
  <2>2. JobsEnd
    BY <1>3, TaskEndsJobs
  <2>3. \A m \in Nodes : Probing(m)' => Probing(m)
    BY <2>1, <2>2 DEF Probing, JobsEnd
  <2>. QED BY <2>1, <2>2, <2>3, StillKeeps
<1>. QED BY <1>1, <1>2, <1>3

(* An answer is added to the queue of the workers' answers.                 *)
LEMMA AnswerKeeps ==
  ASSUME TypeOK, BudgetParts, UNCHANGED <<effects, applying, chain, tries, job>>,
         NEW n \in Nodes, NEW a \in Message, a.node = n, results' = Append(results, a),
         a.type = "GraceExpired" =>
           \/ Probing(n) /\ ~Probing(n)' /\ a.job = job[n].id
           \/ a.job < job[n].id,
         \A m \in Nodes : dial'[m].state # "none" => dial[m].state # "none",
         \A m \in Nodes : probe'[m].job = 0 \/ probe'[m].job = probe[m].job,
         \A m \in Nodes : Probing(m)' => Probing(m)
  PROVE  BudgetParts'
<1>q. results \in Seq(Message) /\ \A i \in 1..Len(results) : results[i] \in Message
  BY DEF TypeOK
<1>j. \A m \in Nodes : job[m].id \in Nat
  BY CounterTypes
<1>1. TurnInv'
  BY DEF BudgetParts, TurnInv
<1>2. TagInv'
  <2>1. \A i \in 1..Len(results') : \/ i \in 1..Len(results) /\ results'[i] = results[i]
                                    \/ results'[i] = a
    BY <1>q, AppendAt
  <2>2. a.type = "GraceExpired" => a.job <= job[n].id
    BY <1>j DEF Message
  <2>. QED BY <1>j, <2>1, <2>2 DEF BudgetParts, TagInv
<1>3. ChainInv'
  BY ShrinksRefl, ChainKeeps DEF BudgetParts
<1>4. ProbeInv'
  <2>1. \A m \in Nodes : Expired(m)' = Expired(m)
    BY DEF Expired
  <2>2. ASSUME NEW m \in Nodes
        PROVE  Answers(m)' = IF a.type = "GraceExpired" /\ m = n /\ a.job = job[n].id
                             THEN Answers(m) \cup {Len(results) + 1} ELSE Answers(m)
    <3>0. \A i \in Of(results, m, {"GraceExpired"}) : i \in 1..Len(results)
      BY DEF Of
    <3>1. \A i \in Of(results, m, {"GraceExpired"}) : results'[i] = results[i]
      BY <1>q, <3>0, AppendAt
    <3>x. /\ Answers(m) = {i \in Of(results, m, {"GraceExpired"}) : results[i].job = job[m].id}
          /\ Answers(m)' = {i \in Of(results', m, {"GraceExpired"}) : results'[i].job = job[m].id}
      BY DEF Answers
    <3>2. results'[Len(results) + 1] = a
      BY <1>q, AppendAt
    <3>3. CASE a.type = "GraceExpired" /\ m = n
      <4>1. Of(results', m, {"GraceExpired"}) = Of(results, m, {"GraceExpired"}) \cup {Len(results) + 1}
        BY <1>q, <3>3, OfAppend
      <4>2. \A i \in Of(results, m, {"GraceExpired"}) : results'[i].job = results[i].job
        BY <3>1
      <4>3. results'[Len(results) + 1].job = a.job
        BY <3>2
      <4>4. CASE a.job = job[n].id
        <5>1. Answers(m)' = Answers(m) \cup {Len(results) + 1}
          <6>1. m = n /\ job[m].id = a.job
            BY <3>3, <4>4
          <6>. QED BY <3>x, <4>1, <4>2, <4>3, <6>1
        <5>. QED BY <3>3, <4>4, <5>1
      <4>5. CASE a.job # job[n].id
        <5>1. Answers(m)' = Answers(m)
          <6>1. job[m].id # a.job
            BY <3>3, <4>5
          <6>. QED BY <3>x, <4>1, <4>2, <4>3, <6>1
        <5>. QED BY <4>5, <5>1
      <4>. QED BY <4>4, <4>5
    <3>4. CASE ~(a.type = "GraceExpired" /\ m = n)
      <4>1. Of(results', m, {"GraceExpired"}) = Of(results, m, {"GraceExpired"})
        BY <1>q, <3>4, OfAppend
      <4>. QED BY <3>1, <3>4, <3>x, <4>1
    <3>. QED BY <3>3, <3>4
  <2>3. CASE a.type = "GraceExpired" /\ a.job = job[n].id
    <3>1. Probing(n) /\ ~Probing(n)' /\ Answers(n) = {} /\ Expired(n) = {}
      BY <1>j, <2>3 DEF BudgetParts, ProbeInv
    <3>2. Answers(n)' = {Len(results) + 1}
      BY <2>2, <2>3, <3>1
    <3>3. \A m \in Nodes \ {n} : Answers(m)' = Answers(m)
      BY <2>2
    <3>. QED BY <2>1, <3>1, <3>2, <3>3 DEF BudgetParts, ProbeInv, AtMostOne
  <2>4. CASE ~(a.type = "GraceExpired" /\ a.job = job[n].id)
    <3>1. \A m \in Nodes : Answers(m)' = Answers(m)
      BY <2>2, <2>4
    <3>. QED BY <2>1, <3>1, ShrinksRefl, ProbeKeeps DEF BudgetParts
  <2>. QED BY <2>3, <2>4
<1>5. BudgetInv'
  BY JobsSame, BudgetKeeps DEF BudgetParts
<1>. QED BY <1>1, <1>2, <1>3, <1>4, <1>5 DEF BudgetParts

LEMMA WorkersBudget ==
  ASSUME TypeOK, BudgetParts, NEW n \in Nodes,
         \/ ProbeLists(n) \/ ProbeAlive(n) \/ ProbeExpires(n)
         \/ \E outcome \in {"Connected", "ConnectFailed"} : DialEnds(n, outcome)
  PROVE  BudgetParts'
<1>f. /\ probe[n] \in Probe /\ dial[n] \in Dial /\ probe[n].job \in Nat
      /\ probe \in [Nodes -> Probe] /\ dial \in [Nodes -> Dial]
  BY FieldTypes DEF TypeOK, Probe, Dial
<1>t. probe[n].job <= job[n].id /\ job[n].id \in Nat
  BY CounterTypes DEF BudgetParts, TagInv
<1>1. ASSUME ProbeLists(n) PROVE BudgetParts'
  <2>. DEFINE a == About("Snapshotted", n, probe[n].job)
              p == [probe[n] EXCEPT !.state = "probing"]
  <2>1. /\ UNCHANGED <<effects, applying, chain, tries, job, dial>>
        /\ results' = Append(results, a) /\ probe' = [probe EXCEPT ![n] = p]
        /\ probe[n].state = "listing"
    BY <1>1 DEF ProbeLists, Answer
  <2>2. a \in Message /\ a.node = n /\ a.type = "Snapshotted"
    BY <1>f, MessageTyped DEF About
  <2>3. p.job = probe[n].job
    BY <1>f DEF Probe
  <2>. HIDE DEF a, p
  <2>4. \A m \in Nodes : probe'[m].job = probe[m].job
    BY <1>f, <2>1, <2>3
  <2>5. \A m \in Nodes : Probing(m)' => Probing(m)
    BY <1>f, <2>1, <2>4 DEF Probing
  <2>. QED BY <2>1, <2>2, <2>4, <2>5, AnswerKeeps
<1>2. ASSUME ProbeAlive(n) PROVE BudgetParts'
  <2>. DEFINE a == About("GraceRecovered", n, probe[n].job)
              p == [probe[n] EXCEPT !.state = "answered"]
  <2>1. /\ UNCHANGED <<effects, applying, chain, tries, job, dial>>
        /\ results' = Append(results, a) /\ probe' = [probe EXCEPT ![n] = p]
    BY <1>2 DEF ProbeAlive, Answer
  <2>2. a \in Message /\ a.node = n /\ a.type = "GraceRecovered"
    BY <1>f, MessageTyped DEF About
  <2>3. p.job = probe[n].job /\ p.state = "answered"
    BY <1>f DEF Probe
  <2>. HIDE DEF a, p
  <2>4. \A m \in Nodes : probe'[m].job = probe[m].job
    BY <1>f, <2>1, <2>3
  <2>5. \A m \in Nodes : Probing(m)' => Probing(m)
    BY <1>f, <2>1, <2>3, <2>4 DEF Probing
  <2>. QED BY <2>1, <2>2, <2>4, <2>5, AnswerKeeps
<1>3. ASSUME ProbeExpires(n) PROVE BudgetParts'
  <2>. DEFINE b == About("GraceExpired", n, probe[n].job)
              a == [b EXCEPT !.dial = probe[n].conn]
              p == [probe[n] EXCEPT !.state = "answered"]
  <2>1. /\ UNCHANGED <<effects, applying, chain, tries, job, dial>>
        /\ results' = Append(results, a) /\ probe' = [probe EXCEPT ![n] = p]
        /\ probe[n].state = "probing"
    BY <1>3 DEF ProbeExpires, Answer
  <2>2. a \in Message /\ a.node = n /\ a.type = "GraceExpired" /\ a.job = probe[n].job
    <3>1. probe[n].conn \in Nat
      BY FieldTypes
    <3>2. a \in Message
      BY <1>f, <3>1, MessageTyped
    <3>3. b.node = n /\ b.type = "GraceExpired" /\ b.job = probe[n].job /\ b \in Message
      BY <1>f, MessageTyped DEF About
    <3>. HIDE DEF b
    <3>4. a.node = b.node /\ a.type = b.type /\ a.job = b.job
      BY <3>3 DEF Message
    <3>. QED BY <3>2, <3>3, <3>4
  <2>3. p.job = probe[n].job /\ p.state = "answered"
    BY <1>f DEF Probe
  <2>. HIDE DEF a, b, p
  <2>4. \A m \in Nodes : probe'[m].job = probe[m].job
    BY <1>f, <2>1, <2>3
  <2>5. \A m \in Nodes : Probing(m)' => Probing(m)
    BY <1>f, <2>1, <2>3, <2>4 DEF Probing
  <2>6. ~Probing(n)' /\ (probe[n].job = job[n].id => Probing(n))
    BY <1>f, <2>1, <2>3 DEF Probing
  <2>7. a.job = job[n].id \/ a.job < job[n].id
    BY <1>f, <1>t, <2>2
  <2>. QED BY <2>1, <2>2, <2>4, <2>5, <2>6, <2>7, AnswerKeeps
<1>4. ASSUME NEW outcome \in {"Connected", "ConnectFailed"}, DialEnds(n, outcome)
      PROVE  BudgetParts'
  <2>. DEFINE a == [type |-> outcome, node |-> n, job |-> dial[n].job, dial |-> dial[n].id]
              d == [dial[n] EXCEPT !.state = "answered"]
  <2>1. /\ UNCHANGED <<effects, applying, chain, tries, job, probe>>
        /\ results' = Append(results, a) /\ dial' = [dial EXCEPT ![n] = d]
        /\ dial[n].state = "running"
    BY <1>4 DEF DialEnds, Answer
  <2>2. a \in Message /\ a.node = n /\ a.type # "GraceExpired"
    BY <1>f DEF Message, Dial
  <2>. HIDE DEF a, d
  <2>3. \A m \in Nodes : dial'[m].state # "none" => dial[m].state # "none"
    BY <1>f, <2>1
  <2>4. \A m \in Nodes : Probing(m)' => Probing(m)
    BY <2>1 DEF Probing
  <2>. QED BY <2>1, <2>2, <2>3, <2>4, AnswerKeeps
<1>. QED BY <1>1, <1>2, <1>3, <1>4

LEMMA QueueElements ==
  ASSUME TypeOK
  PROVE  /\ effects \in Seq(Message) /\ results \in Seq(Message)
         /\ \A i \in 1..Len(effects) : effects[i] \in Message /\ effects[i].node \in Nodes
         /\ \A i \in 1..Len(results) : results[i] \in Message /\ results[i].node \in Nodes
<1>1. effects \in Seq(Message) /\ results \in Seq(Message)
  BY DEF TypeOK
<1>2. /\ \A i \in 1..Len(effects) : effects[i] \in Message
      /\ \A i \in 1..Len(results) : results[i] \in Message
  BY <1>1
<1>. QED BY <1>1, <1>2 DEF Message

(* The answers of a job shrink with the queue of answers.                   *)
LEMMA AnswersShrink ==
  ASSUME TypeOK, results # <<>>, results' = Tail(results), NEW m \in Nodes,
         job'[m].id = job[m].id
  PROVE  /\ Shrinks(Answers(m), Answers(m)')
         /\ \A i \in Answers(m)' : i + 1 \in Answers(m) /\ i \in Nat /\ i > 0
<1>1. \A i \in 1..Len(results') : results'[i] = results[i + 1] /\ i + 1 \in 1..Len(results)
  BY QueueElements, TailAt
<1>2. /\ Answers(m) = {i \in Of(results, m, {"GraceExpired"}) : results[i].job = job[m].id}
      /\ Answers(m)' = {i \in Of(results', m, {"GraceExpired"}) : results'[i].job = job'[m].id}
  BY DEF Answers
<1>3. \A i \in Answers(m)' : /\ i \in 1..Len(results') /\ results'[i].node = m
                             /\ results'[i].type = "GraceExpired" /\ results'[i].job = job[m].id
  BY <1>2 DEF Of
<1>4. Len(results') \in Nat
  BY QueueElements, TailAt
<1>5. \A i \in Answers(m)' : i + 1 \in Answers(m)
  BY <1>1, <1>2, <1>3 DEF Of
<1>6. \A i \in Answers(m)' : i \in Nat /\ i > 0
  BY <1>3, <1>4
<1>. QED BY <1>5, <1>6 DEF Shrinks, AtMostOne

(* Turns that leave the queue of effects, or add one that neither dials nor *)
(* gives the chain back.                                                    *)
LEMMA CalmKeeps ==
  ASSUME TypeOK, BudgetParts, JobsEnd, ~applying, UNCHANGED <<applying, chain, tries>>,
         results' = results \/ (results # <<>> /\ results' = Tail(results)),
         \/ effects' = effects
         \/ \E e \in Message : /\ e.type \in {"LinkDown", "GraceRecovered"}
                               /\ effects' = Append(effects, e),
         \A m \in Nodes : dial'[m].state # "none" => dial[m].state # "none",
         \A m \in Nodes : probe'[m].job = 0 \/ probe'[m].job = probe[m].job,
         \A m \in Nodes : Probing(m)' => Probing(m)
  PROVE  BudgetParts'
<1>q. effects \in Seq(Message) /\ results \in Seq(Message)
  BY QueueElements
<1>j. \A m \in Nodes : job'[m].id = job[m].id /\ job[m].id \in Nat
  BY CounterTypes DEF JobsEnd
<1>e. \A i \in 1..Len(effects') :
        \/ i \in 1..Len(effects) /\ effects'[i] = effects[i]
        \/ effects'[i].type \in {"LinkDown", "GraceRecovered"}
  BY <1>q, AppendAt
<1>t. \A i \in 1..Len(effects) : effects[i].type \notin {"StartPipeline", "RetryNodeConnect"}
  BY DEF BudgetParts, TurnInv
<1>o. \A m \in Nodes : /\ Of(effects', m, Releases) = Of(effects, m, Releases)
                       /\ Of(effects', m, Cascades) = Of(effects, m, Cascades)
                       /\ Of(effects', m, {"GraceExpired"}) = Of(effects, m, {"GraceExpired"})
  <2>1. CASE effects' = effects
    BY <2>1
  <2>2. ASSUME NEW e \in Message, e.type \in {"LinkDown", "GraceRecovered"},
               effects' = Append(effects, e)
        PROVE  \A m \in Nodes : /\ Of(effects', m, Releases) = Of(effects, m, Releases)
                                /\ Of(effects', m, Cascades) = Of(effects, m, Cascades)
                                /\ Of(effects', m, {"GraceExpired"})
                                     = Of(effects, m, {"GraceExpired"})
    <3>1. e.type \notin Releases /\ e.type \notin Cascades /\ e.type \notin {"GraceExpired"}
      BY <2>2 DEF Releases, Cascades
    <3>2. \A m, types : e.type \notin types =>
                          Of(Append(effects, e), m, types) = Of(effects, m, types)
      BY <1>q, OfAppend
    <3>. QED BY <2>2, <3>1, <3>2
  <2>. QED BY <2>1, <2>2
<1>1. TurnInv'
  BY <1>e, <1>t DEF TurnInv
<1>2. TagInv'
  <2>1. \A i \in 1..Len(results') : \E k \in 1..Len(results) : results'[i] = results[k]
    BY <1>q, TailAt
  <2>2. \A i \in 1..Len(results') :
          results'[i].type = "GraceExpired" => results'[i].job <= job'[results'[i].node].id
    <3>1. \A k \in 1..Len(results) : /\ results[k].node \in Nodes
                                     /\ results[k].type = "GraceExpired" =>
                                          results[k].job <= job[results[k].node].id
      BY QueueElements DEF BudgetParts, TagInv
    <3>. QED BY <1>j, <2>1, <3>1
  <2>3. \A i \in 1..Len(effects') :
          effects'[i].type = "GraceExpired" => effects'[i].job = job'[effects'[i].node].id
    BY <1>j, <1>e, QueueElements DEF BudgetParts, TagInv
  <2>4. \A m \in Nodes : probe'[m].job <= job'[m].id
    BY <1>j DEF BudgetParts, TagInv
  <2>. QED BY <2>2, <2>3, <2>4 DEF TagInv
<1>3. ChainInv'
  BY <1>o, ShrinksRefl, ChainKeeps DEF BudgetParts
<1>4. ProbeInv'
  <2>1. \A m \in Nodes : Expired(m)' = Expired(m)
    BY <1>o DEF Expired
  <2>2. \A m \in Nodes : Shrinks(Answers(m), Answers(m)')
    <3>1. CASE results' = results
      <4>1. \A m \in Nodes : Answers(m)' = Answers(m)
        BY <1>j, <3>1 DEF Answers
      <4>. QED BY <4>1, ShrinksRefl
    <3>2. CASE results # <<>> /\ results' = Tail(results)
      BY <1>j, <3>2, AnswersShrink
    <3>. QED BY <3>1, <3>2
  <2>. QED BY <2>1, <2>2, ShrinksRefl, ProbeKeeps DEF BudgetParts
<1>5. BudgetInv'
  <2>1. \A m \in Nodes : \A i \in Of(effects, m, Releases) : effects'[i] = effects[i]
    <3>1. \A m \in Nodes : \A i \in Of(effects, m, Releases) : i \in 1..Len(effects)
      BY DEF Of
    <3>. QED BY <1>q, <3>1, AppendAt
  <2>. QED BY <1>o, <2>1, BudgetKeeps DEF BudgetParts
<1>. QED BY <1>1, <1>2, <1>3, <1>4, <1>5 DEF BudgetParts

(* A timer or the debounce fires between two turns.                         *)
LEMMA TimerKeeps ==
  ASSUME TypeOK, BudgetParts, JobsEnd, effects = <<>>, applying' = TRUE,
         UNCHANGED <<chain, tries, results, dial, probe>>,
         NEW type \in {"StartPipeline", "RecoveredBeforeRetry"},
         \A i \in 1..Len(effects') : effects'[i].type = type
  PROVE  BudgetParts'
<1>j. \A m \in Nodes : job'[m].id = job[m].id /\ job[m].id \in Nat
  BY CounterTypes DEF JobsEnd
<1>o. \A m \in Nodes : /\ Of(effects', m, Releases) = {}
                       /\ Of(effects', m, Cascades) = {}
                       /\ Of(effects', m, {"GraceExpired"}) = {}
  BY DEF Of, Releases, Cascades
<1>1. TurnInv'
  BY DEF TurnInv
<1>2. TagInv'
  BY <1>j, QueueElements DEF BudgetParts, TagInv
<1>3. ChainInv'
  BY <1>o, ChainKeeps DEF BudgetParts, Shrinks, AtMostOne
<1>4. ProbeInv'
  <2>1. \A m \in Nodes : Answers(m)' = Answers(m) /\ Expired(m)' = {}
    BY <1>j, <1>o DEF Answers, Expired
  <2>2. \A m \in Nodes : Probing(m)' => Probing(m)
    BY <1>j DEF Probing
  <2>. QED BY <2>1, <2>2, ProbeKeeps DEF BudgetParts, Shrinks, AtMostOne
<1>5. BudgetInv'
  BY <1>o, BudgetKeeps DEF BudgetParts
<1>. QED BY <1>1, <1>2, <1>3, <1>4, <1>5 DEF BudgetParts

LEMMA TurnsBudget ==
  ASSUME TypeOK, BudgetParts,
         Debounce \/ \E n \in Nodes : ReportArrives(n) \/ RequeueFires(n)
  PROVE  BudgetParts'
<1>1. ASSUME Debounce PROVE BudgetParts'
  <2>. PICK order \in [1..Cardinality(pending) -> pending] :
         effects' = [i \in DOMAIN order |-> About("StartPipeline", order[i], 0)]
    BY <1>1 DEF Debounce
  <2>0. Cardinality(pending) \in Nat
    BY NodesAssumption, FS_Subset, FS_CardinalityType DEF TypeOK
  <2>1. \A i \in 1..Len(effects') : effects'[i].type = "StartPipeline"
    BY <2>0 DEF About
  <2>2. /\ effects = <<>> /\ applying' = TRUE
        /\ UNCHANGED <<chain, tries, results, dial, probe, job>>
    BY <1>1 DEF Debounce, Idle, workers
  <2>. QED BY <2>1, <2>2, JobsSame, TimerKeeps
<1>2. ASSUME NEW n \in Nodes, ReportArrives(n) PROVE BudgetParts'
  <2>1. /\ ~applying /\ UNCHANGED <<applying, chain, tries, results, dial, probe, job>>
        /\ effects' = effects \/ effects' = Append(effects, About("LinkDown", n, 0))
    BY <1>2 DEF ReportArrives, Push, workers
  <2>2. About("LinkDown", n, 0) \in Message /\ About("LinkDown", n, 0).type = "LinkDown"
    BY MessageTyped DEF About
  <2>3. \A m \in Nodes : Probing(m)' => Probing(m)
    BY <2>1 DEF Probing
  <2>. QED BY <2>1, <2>2, <2>3, JobsSame, CalmKeeps
<1>3. ASSUME NEW n \in Nodes, RequeueFires(n) PROVE BudgetParts'
  <2>1. effects = <<>> /\ UNCHANGED <<chain, tries, results, probe, job>>
    BY <1>3 DEF RequeueFires, Idle
  <2>2. CASE conn[n] = requeue[n].conn
    <3>1. /\ applying' = TRUE /\ effects' = Append(effects, About("StartPipeline", n, 0))
          /\ dial' = dial
      BY <1>3, <2>2 DEF RequeueFires, PushNow, Push
    <3>2. /\ About("StartPipeline", n, 0) \in Message
          /\ About("StartPipeline", n, 0).type = "StartPipeline"
      BY MessageTyped DEF About
    <3>3. Len(effects') = 1 /\ effects'[1] = About("StartPipeline", n, 0)
      BY <2>1, <3>1, <3>2
    <3>4. \A i \in 1..Len(effects') : effects'[i].type = "StartPipeline"
      BY <3>2, <3>3
    <3>. QED BY <2>1, <3>1, <3>4, JobsSame, TimerKeeps
  <2>3. CASE conn[n] # requeue[n].conn
    <3>1. CancelDial(n) /\ UNCHANGED <<effects, applying>>
      BY <1>3, <2>3 DEF RequeueFires
    <3>2. \A m \in Nodes : dial'[m].state # "none" => dial[m].state # "none"
      BY <3>1, CancelDialEnds
    <3>3. \A m \in Nodes : Probing(m)' => Probing(m)
      BY <2>1 DEF Probing
    <3>. QED BY <2>1, <3>1, <3>2, <3>3, JobsSame, StillKeeps
  <2>. QED BY <2>2, <2>3
<1>. QED BY <1>1, <1>2, <1>3

(* The job is about to dial: its attempt is counted.                        *)
LEMMA DiallingFields ==
  ASSUME TypeOK, NEW n \in Nodes, Active(n), job' = [job EXCEPT ![n] = Dialling(@)]
  PROVE  /\ \A m \in Nodes : job'[m].id = job[m].id /\ (Active(m)' <=> Active(m))
         /\ \A m \in Nodes \ {n} : job'[m].attempt = job[m].attempt
         /\ job[n].attempt < MaxAttempts => job'[n].attempt = job[n].attempt + 1
         /\ job[n].attempt = MaxAttempts => job'[n].attempt = MaxAttempts
<1>1. \A m \in Nodes : job'[m] = IF m = n THEN Dialling(job[n]) ELSE job[m]
  BY DEF TypeOK
<1>2. job[n] \in Job /\ "SshConnect" \in Phases
  BY FieldTypes DEF Phases
<1>3. /\ Dialling(job[n]).id = job[n].id /\ Dialling(job[n]).ended = job[n].ended
      /\ Dialling(job[n]).status = "SshConnect"
      /\ Dialling(job[n]).attempt = NextAttempt(job[n].attempt)
  BY <1>2, PhaseFields, PhaseOf
<1>4. job[n].attempt \in Nat /\ MaxAttempts \in Nat
  BY CounterTypes
<1>. QED BY <1>1, <1>3, <1>4 DEF Active, NextAttempt

(* The budget of the job that is about to dial.                             *)
LEMMA DiallingBudget ==
  ASSUME TypeOK, BudgetInv, NEW n \in Nodes, Active(n),
         job' = [job EXCEPT ![n] = Dialling(@)], UNCHANGED <<chain, tries>>,
         Of(effects, n, Cascades) = {},
         \A m \in Nodes \ {n} : Of(effects, m, Cascades) = {} => Of(effects', m, Cascades) = {},
         \A m \in Nodes : Of(effects', m, Releases) = Of(effects, m, Releases),
         \A m \in Nodes : \A i \in Of(effects, m, Releases) : effects'[i] = effects[i]
  PROVE  BudgetInv'
<1>. SUFFICES ASSUME NEW m \in Nodes
     PROVE  /\ tries'[m] <= MaxAttempts
            /\ Active(m)' /\ job'[m].attempt < MaxAttempts =>
                 tries'[m] + Waiting(m)' <= job'[m].attempt
            /\ Active(m)' /\ tries'[m] = MaxAttempts =>
                 /\ chain' = m
                 /\ \A i \in Of(effects, m, Releases)' : effects'[i].type = "FailedForGood"
  BY DEF BudgetInv
<1>1. /\ tries[m] \in Nat /\ job[m].attempt \in Nat /\ MaxAttempts \in Nat
      /\ job[m].attempt <= MaxAttempts
  BY CounterTypes
<1>2. tries'[m] <= MaxAttempts
  BY DEF BudgetInv
<1>3. Waiting(m)' \in {0, 1} /\ Waiting(m) \in {0, 1} /\ Waiting(n) = 0
      /\ (m # n => Waiting(m)' <= Waiting(m))
  BY DEF Waiting
<1>d. /\ Active(m)' <=> Active(m)
      /\ m # n => job'[m].attempt = job[m].attempt
      /\ job[n].attempt < MaxAttempts => job'[n].attempt = job[n].attempt + 1
      /\ job[n].attempt = MaxAttempts => job'[n].attempt = MaxAttempts
  BY DiallingFields
<1>b. /\ Active(m) /\ job[m].attempt < MaxAttempts => tries[m] + Waiting(m) <= job[m].attempt
      /\ Active(m) /\ tries[m] = MaxAttempts =>
           /\ chain = m
           /\ \A i \in Of(effects, m, Releases) : effects[i].type = "FailedForGood"
      /\ tries' = tries /\ chain' = chain
  BY DEF BudgetInv
<1>4. Active(m)' /\ job'[m].attempt < MaxAttempts => tries'[m] + Waiting(m)' <= job'[m].attempt
  <2>1. CASE m = n
    BY <1>1, <1>3, <1>b, <1>d, <2>1
  <2>2. CASE m # n
    BY <1>1, <1>3, <1>b, <1>d, <2>2
  <2>. QED BY <2>1, <2>2
<1>5. Active(m)' /\ tries'[m] = MaxAttempts =>
        /\ chain' = m
        /\ \A i \in Of(effects, m, Releases)' : effects'[i].type = "FailedForGood"
  BY <1>b, <1>d
<1>. QED BY <1>2, <1>4, <1>5

LEMMA RetryBudget ==
  ASSUME TypeOK, BudgetParts, NEW r \in retries, RetryFires(r)
  PROVE  BudgetParts'
<1>. DEFINE n == r.node
<1>1. n \in Nodes
  BY DEF TypeOK
<1>2. effects = <<>> /\ UNCHANGED <<chain, tries, results, dial, probe>>
  BY DEF RetryFires, Idle, workers
<1>3. CASE ~Current(n, r.job)
  <2>1. UNCHANGED <<job, effects, applying>>
    BY <1>3 DEF RetryFires
  <2>2. \A m \in Nodes : Probing(m)' => Probing(m)
    BY <1>2, <2>1 DEF Probing
  <2>. QED BY <1>2, <2>1, <2>2, JobsSame, StillKeeps
<1>4. CASE Current(n, r.job) /\ link[n] = "active"
  <2>. DEFINE e == About("RecoveredBeforeRetry", n, 0)
  <2>1. applying' = TRUE /\ job' = job /\ effects' = Append(effects, e)
    BY <1>4 DEF RetryFires, PushNow, Push
  <2>2. e \in Message /\ e.type = "RecoveredBeforeRetry"
    BY <1>1, MessageTyped DEF About
  <2>. HIDE DEF e
  <2>3. Len(effects') = 1 /\ effects'[1] = e
    BY <1>2, <2>1, <2>2
  <2>4. \A i \in 1..Len(effects') : effects'[i].type = "RecoveredBeforeRetry"
    BY <2>2, <2>3
  <2>. QED BY <1>2, <2>1, <2>4, JobsSame, TimerKeeps
<1>5. CASE Current(n, r.job) /\ link[n] # "active"
  <2>. DEFINE e == About("RetryNodeConnect", n, 0)
  <2>1. /\ applying' = TRUE /\ job' = [job EXCEPT ![n] = Dialling(@)] /\ Active(n)
        /\ effects' = Append(effects, e)
    BY <1>5 DEF RetryFires, PushNow, Push, Current
  <2>2. e \in Message /\ e.type = "RetryNodeConnect" /\ e.node = n
    BY <1>1, MessageTyped DEF About
  <2>. HIDE DEF e
  <2>3. Len(effects') = 1 /\ effects'[1] = e
    BY <1>2, <2>1, <2>2
  <2>4. \A m \in Nodes : job'[m].id = job[m].id
    BY <1>1, <2>1, DiallingFields
  <2>5. \A m \in Nodes : /\ Of(effects', m, Releases) = {} /\ Of(effects, m, Releases) = {}
                         /\ Of(effects', m, {"GraceExpired"}) = {}
                         /\ Of(effects, m, Cascades) = {}
                         /\ m # n => Of(effects', m, Cascades) = {}
    BY <1>2, <2>2, <2>3, OfEmpty DEF Of, Releases, Cascades
  <2>6. TurnInv'
    BY <2>1, <2>2, <2>3 DEF TurnInv
  <2>7. TagInv'
    BY <1>2, <2>2, <2>3, <2>4, QueueElements DEF BudgetParts, TagInv
  <2>8. ChainInv'
    BY <1>2, <2>5, ChainKeeps DEF BudgetParts, Shrinks, AtMostOne
  <2>9. ProbeInv'
    <3>1. \A m \in Nodes : Answers(m)' = Answers(m) /\ Expired(m)' = {}
      BY <1>2, <2>4, <2>5 DEF Answers, Expired
    <3>2. \A m \in Nodes : Probing(m)' => Probing(m)
      BY <1>2, <2>4 DEF Probing
    <3>. QED BY <3>1, <3>2, ProbeKeeps DEF BudgetParts, Shrinks, AtMostOne
  <2>10. BudgetInv'
    BY <1>1, <1>2, <2>1, <2>5, DiallingBudget DEF BudgetParts
  <2>. QED BY <2>6, <2>7, <2>8, <2>9, <2>10 DEF BudgetParts
<1>. QED BY <1>3, <1>4, <1>5

(* A dial starts only while no node holds the chain.                        *)
LEMMA ChainFree ==
  ASSUME ChainInv, chain = NoNode
  PROVE  \A m \in Nodes : dial[m].state = "none" /\ Of(effects, m, Releases) = {}
BY Constants DEF ChainInv

LEMMA StartDialChain ==
  ASSUME TypeOK, ChainInv, NEW n \in Nodes, MayDial(n), StartDial(n),
         \A m \in Nodes : Of(effects, m, Releases) = {} => Of(effects', m, Releases) = {}
  PROVE  /\ ChainInv' /\ chain' = n
         /\ \A m \in Nodes : Of(effects, m, Releases) = {} /\ Of(effects', m, Releases) = {}
<1>1. \A m \in Nodes : dial[m].state = "none" /\ Of(effects, m, Releases) = {}
  BY ChainFree DEF MayDial
<1>2. chain' = n /\ \A m \in Nodes \ {n} : dial'[m] = dial[m]
  BY DEF StartDial, TypeOK
<1>. QED BY <1>1, <1>2 DEF ChainInv, AtMostOne

(* A dial that the budget does not count.                                   *)
LEMMA StartDialBudget ==
  ASSUME TypeOK, ChainInv, BudgetInv, NEW n \in Nodes, MayDial(n), chain' = n,
         job' = job, tries' = tries,
         \A m \in Nodes : Of(effects, m, Cascades) = {} => Of(effects', m, Cascades) = {}
  PROVE  BudgetInv'
<1>. SUFFICES ASSUME NEW m \in Nodes
     PROVE  /\ tries'[m] <= MaxAttempts
            /\ Active(m)' /\ job'[m].attempt < MaxAttempts =>
                 tries'[m] + Waiting(m)' <= job'[m].attempt
            /\ Active(m)' => tries'[m] # MaxAttempts
  BY DEF BudgetInv
<1>1. tries[m] \in Nat /\ job[m].attempt \in Nat
  BY CounterTypes
<1>2. Waiting(m)' <= Waiting(m) /\ Waiting(m) \in {0, 1} /\ Waiting(m)' \in {0, 1}
  BY DEF Waiting
<1>3. Active(m)' <=> Active(m)
  BY DEF Active
<1>4. Active(m)' => tries'[m] # MaxAttempts
  BY <1>3, Constants DEF BudgetInv, MayDial
<1>5. Active(m)' /\ job'[m].attempt < MaxAttempts => tries'[m] + Waiting(m)' <= job'[m].attempt
  BY <1>1, <1>2, <1>3 DEF BudgetInv
<1>6. tries'[m] <= MaxAttempts
  BY DEF BudgetInv
<1>. QED BY <1>4, <1>5, <1>6

LEMMA UserBudget ==
  ASSUME TypeOK, BudgetParts, NEW n \in Nodes, UserConnect(n) \/ Disconnect(n)
  PROVE  BudgetParts'
<1>0. effects = <<>> /\ UNCHANGED <<effects, applying, results, tries>>
  BY DEF UserConnect, Disconnect, Idle
<1>e. \A m \in Nodes : \A types : Of(effects, m, types) = {} /\ Of(effects', m, types) = {}
  BY <1>0, OfEmpty
<1>1. TurnInv'
  BY <1>0 DEF BudgetParts, TurnInv
<1>2. CASE UserConnect(n)
  <2>1. /\ MayDial(n) /\ StartDial(n) /\ UNCHANGED <<job, probe>>
    BY <1>2 DEF UserConnect
  <2>2. ChainInv' /\ chain' = n
    BY <1>e, <2>1, StartDialChain DEF BudgetParts
  <2>3. BudgetInv'
    BY <1>0, <1>e, <2>1, <2>2, StartDialBudget DEF BudgetParts
  <2>4. TagInv'
    BY <1>0, <2>1 DEF BudgetParts, TagInv
  <2>5. ProbeInv'
    BY <1>0, <2>1 DEF BudgetParts, ProbeInv, Answers, Expired, Probing
  <2>. QED BY <1>1, <2>2, <2>3, <2>4, <2>5 DEF BudgetParts
<1>3. CASE Disconnect(n)
  <2>1. JobsEnd /\ ~Active(n)'
    BY <1>3, DisconnectEnds
  <2>2. /\ probe' = [probe EXCEPT ![n] = NoProbe]
        /\ dial' = [dial EXCEPT ![n].state = "none"]
        /\ chain' = IF chain = n THEN NoNode ELSE chain
    BY <1>3 DEF Disconnect
  <2>3. /\ dial'[n].state = "none" /\ \A m \in Nodes \ {n} : dial'[m] = dial[m]
        /\ probe'[n] = NoProbe /\ \A m \in Nodes \ {n} : probe'[m] = probe[m]
    <3>1. dial \in [Nodes -> Dial] /\ dial[n] \in Dial
      BY FieldTypes DEF TypeOK, Dial
    <3>2. [dial[n] EXCEPT !.state = "none"].state = "none"
      BY <3>1 DEF Dial
    <3>3. dial'[n] = [dial[n] EXCEPT !.state = "none"]
      BY <2>2, <3>1
    <3>. QED BY <2>2, <3>1, <3>2, <3>3 DEF TypeOK
  <2>j. \A m \in Nodes : job'[m].id = job[m].id /\ job[m].id \in Nat
    BY <2>1, CounterTypes DEF JobsEnd
  <2>4. TagInv'
    BY <1>0, <2>3, <2>j, QueueElements DEF BudgetParts, TagInv, NoProbe
  <2>5. ChainInv'
    BY <1>0, <1>e, <2>2, <2>3 DEF BudgetParts, ChainInv
  <2>6. ProbeInv'
    <3>1. \A m \in Nodes : Answers(m)' = Answers(m) /\ Expired(m)' = Expired(m)
      BY <1>0, <2>j DEF Answers, Expired
    <3>2. \A m \in Nodes : Probing(m)' => Probing(m)
      BY <2>3, <2>j DEF Probing, NoProbe
    <3>. QED BY <3>1, <3>2, ShrinksRefl, ProbeKeeps DEF BudgetParts
  <2>7. BudgetInv'
    <3>. SUFFICES ASSUME NEW m \in Nodes
         PROVE  /\ tries'[m] <= MaxAttempts
                /\ Active(m)' /\ job'[m].attempt < MaxAttempts =>
                     tries'[m] + Waiting(m)' <= job'[m].attempt
                /\ Active(m)' /\ tries'[m] = MaxAttempts =>
                     /\ chain' = m
                     /\ \A i \in Of(effects, m, Releases)' : effects'[i].type = "FailedForGood"
      BY DEF BudgetInv
    <3>1. Waiting(m)' = Waiting(m)
      BY <1>0 DEF Waiting
    <3>2. Active(m)' => Active(m) /\ job'[m].attempt = job[m].attempt /\ m # n
      BY <2>1 DEF JobsEnd
    <3>3. chain = m /\ m # n => chain' = m
      BY <2>2
    <3>. QED BY <1>0, <1>e, <3>1, <3>2, <3>3 DEF BudgetParts, BudgetInv
  <2>. QED BY <1>1, <2>4, <2>5, <2>6, <2>7 DEF BudgetParts
<1>. QED BY <1>2, <1>3

(* An accepted answer of a dial: the chain is about to be given back.       *)
LEMMA AcceptedBudget ==
  ASSUME TypeOK, BudgetParts, JobsEnd, ~applying, UNCHANGED <<applying, chain, probe>>,
         results # <<>>, results' = Tail(results),
         NEW n \in Nodes, dial[n].state = "answered", dial' = [dial EXCEPT ![n].state = "none"],
         NEW e \in Message, e.node = n, e.type \in Releases, effects' = Append(effects, e),
         \/ tries' = [tries EXCEPT ![n] = 0]
         \/ tries' = tries /\ (Active(n) /\ job[n].attempt = MaxAttempts => e.type = "FailedForGood")
  PROVE  BudgetParts'
<1>q. effects \in Seq(Message) /\ results \in Seq(Message)
  BY QueueElements
<1>j. \A m \in Nodes : job'[m].id = job[m].id /\ job[m].id \in Nat
  BY CounterTypes DEF JobsEnd
<1>e. \A i \in 1..Len(effects') : \/ i \in 1..Len(effects) /\ effects'[i] = effects[i]
                                  \/ i = Len(effects) + 1 /\ effects'[i] = e
  BY <1>q, AppendAt
<1>l. effects'[Len(effects) + 1] = e
  BY <1>q, AppendAt
<1>t. /\ \A i \in 1..Len(effects) : effects[i].type \notin {"StartPipeline", "RetryNodeConnect"}
      /\ e.type \notin {"StartPipeline", "RetryNodeConnect", "GraceExpired"}
  BY DEF BudgetParts, TurnInv, Releases
<1>d. /\ \A m \in Nodes \ {n} : dial'[m] = dial[m]
      /\ dial'[n].state = "none"
  <2>1. dial \in [Nodes -> Dial] /\ dial[n] \in Dial
    BY FieldTypes DEF TypeOK, Dial
  <2>2. [dial[n] EXCEPT !.state = "none"].state = "none"
    BY <2>1 DEF Dial
  <2>3. dial'[n] = [dial[n] EXCEPT !.state = "none"]
    BY <2>1
  <2>. QED BY <2>1, <2>2, <2>3
<1>o. /\ \A m \in Nodes : /\ Of(effects', m, Cascades) = Of(effects, m, Cascades)
                          /\ Of(effects', m, {"GraceExpired"}) = Of(effects, m, {"GraceExpired"})
      /\ \A m \in Nodes \ {n} : Of(effects', m, Releases) = Of(effects, m, Releases)
      /\ Of(effects', n, Releases) = Of(effects, n, Releases) \cup {Len(effects) + 1}
  <2>1. e.type \notin Cascades /\ e.type \notin {"GraceExpired"}
    BY DEF Releases, Cascades
  <2>0. effects' = Append(effects, e)
    OBVIOUS
  <2>2. \A m, types : ~(e.node = m /\ e.type \in types) =>
                        Of(effects', m, types) = Of(effects, m, types)
    BY <1>q, <2>0, OfAppend
  <2>3. Of(effects', n, Releases) = Of(effects, n, Releases) \cup {Len(effects) + 1}
    BY <1>q, <2>0, OfAppended
  <2>4. \A m \in Nodes : /\ Of(effects', m, Cascades) = Of(effects, m, Cascades)
                         /\ Of(effects', m, {"GraceExpired"}) = Of(effects, m, {"GraceExpired"})
    BY <2>1, <2>2
  <2>5. \A m \in Nodes \ {n} : Of(effects', m, Releases) = Of(effects, m, Releases)
    BY <2>2
  <2>. QED BY <2>3, <2>4, <2>5
<1>c. chain = n /\ Of(effects, n, Releases) = {}
  BY DEF BudgetParts, ChainInv
<1>1. TurnInv'
  BY <1>e, <1>t DEF TurnInv
<1>2. TagInv'
  <2>1. \A i \in 1..Len(results') : \E k \in 1..Len(results) : results'[i] = results[k]
    BY <1>q, TailAt
  <2>2. \A i \in 1..Len(results') :
          results'[i].type = "GraceExpired" => results'[i].job <= job'[results'[i].node].id
    <3>1. \A k \in 1..Len(results) : /\ results[k].node \in Nodes
                                     /\ results[k].type = "GraceExpired" =>
                                          results[k].job <= job[results[k].node].id
      BY QueueElements DEF BudgetParts, TagInv
    <3>. QED BY <1>j, <2>1, <3>1
  <2>3. \A i \in 1..Len(effects') :
          effects'[i].type = "GraceExpired" => effects'[i].job = job'[effects'[i].node].id
    <3>1. \A k \in 1..Len(effects) : /\ effects[k].node \in Nodes
                                     /\ effects[k].type = "GraceExpired" =>
                                          effects[k].job = job[effects[k].node].id
      BY QueueElements DEF BudgetParts, TagInv
    <3>. QED BY <1>j, <1>e, <1>t, <3>1
  <2>4. \A m \in Nodes : probe'[m].job <= job'[m].id
    BY <1>j DEF BudgetParts, TagInv
  <2>. QED BY <2>2, <2>3, <2>4 DEF TagInv
<1>3. ChainInv'
  BY <1>c, <1>d, <1>o DEF BudgetParts, ChainInv, AtMostOne
<1>4. ProbeInv'
  <2>1. \A m \in Nodes : Expired(m)' = Expired(m)
    BY <1>o DEF Expired
  <2>2. \A m \in Nodes : Shrinks(Answers(m), Answers(m)')
    BY <1>j, AnswersShrink
  <2>3. \A m \in Nodes : Probing(m)' => Probing(m)
    BY <1>j DEF Probing
  <2>. QED BY <2>1, <2>2, <2>3, ShrinksRefl, ProbeKeeps DEF BudgetParts
<1>5. BudgetInv'
  <2>. SUFFICES ASSUME NEW m \in Nodes
       PROVE  /\ tries'[m] <= MaxAttempts
              /\ Active(m)' /\ job'[m].attempt < MaxAttempts =>
                   tries'[m] + Waiting(m)' <= job'[m].attempt
              /\ Active(m)' /\ tries'[m] = MaxAttempts =>
                   /\ chain' = m
                   /\ \A i \in Of(effects, m, Releases)' : effects'[i].type = "FailedForGood"
    BY DEF BudgetInv
  <2>1. /\ tries[m] \in Nat /\ job[m].attempt \in Nat /\ MaxAttempts \in Nat /\ MaxAttempts > 0
        /\ job[m].attempt <= MaxAttempts
    BY CounterTypes
  <2>2. Waiting(m)' = Waiting(m) /\ Waiting(m) \in {0, 1}
    BY <1>o DEF Waiting
  <2>3. Active(m)' => Active(m) /\ job'[m].attempt = job[m].attempt
    BY DEF JobsEnd
  <2>b. /\ tries[m] <= MaxAttempts
        /\ Active(m) /\ job[m].attempt < MaxAttempts => tries[m] + Waiting(m) <= job[m].attempt
        /\ Active(m) /\ tries[m] = MaxAttempts =>
             /\ chain = m
             /\ \A i \in Of(effects, m, Releases) : effects[i].type = "FailedForGood"
    BY DEF BudgetParts, BudgetInv
  <2>4. tries'[m] = tries[m] \/ (m = n /\ tries'[m] = 0)
    BY DEF TypeOK
  <2>5. tries'[m] <= MaxAttempts
    BY <2>1, <2>4, <2>b
  <2>6. Active(m)' /\ job'[m].attempt < MaxAttempts => tries'[m] + Waiting(m)' <= job'[m].attempt
    BY <2>1, <2>2, <2>3, <2>4, <2>b
  <2>7. ASSUME Active(m)', tries'[m] = MaxAttempts
        PROVE  /\ chain' = m
               /\ \A i \in Of(effects, m, Releases)' : effects'[i].type = "FailedForGood"
    <3>1. Active(m) /\ tries[m] = MaxAttempts /\ chain = m /\ m = n
      BY <1>c, <2>1, <2>3, <2>4, <2>7, <2>b
    <3>2. job[n].attempt = MaxAttempts
      BY <2>1, <2>2, <2>b, <3>1
    <3>3. tries' = tries
      <4>1. tries'[n] # 0
        BY <2>1, <2>7, <3>1
      <4>2. [tries EXCEPT ![n] = 0][n] = 0
        BY DEF TypeOK
      <4>. QED BY <4>1, <4>2
    <3>4. e.type = "FailedForGood"
      <4>1. tries' # [tries EXCEPT ![n] = 0]
        <5>1. [tries EXCEPT ![n] = 0][n] = 0
          BY DEF TypeOK
        <5>. QED BY <2>1, <2>7, <3>1, <5>1
      <4>. QED BY <3>1, <3>2, <4>1
    <3>. QED BY <1>c, <1>l, <1>o, <3>1, <3>4
  <2>. QED BY <2>5, <2>6, <2>7
<1>. QED BY <1>1, <1>2, <1>3, <1>4, <1>5 DEF BudgetParts

(* The answer of the probe of a job that is current: the first dial.        *)
LEMMA ExpiredBudget ==
  ASSUME TypeOK, BudgetParts, ~applying, UNCHANGED <<applying, chain, dial, tries>>,
         results # <<>>, results' = Tail(results),
         NEW n \in Nodes, Head(results).node = n, Head(results).type = "GraceExpired",
         Head(results).job = job[n].id, Active(n), ProbeDone(Head(results)),
         job' = [job EXCEPT ![n] = Dialling(@)], effects' = Append(effects, Head(results))
  PROVE  BudgetParts'
<1>. DEFINE a == Head(results)
<1>q. effects \in Seq(Message) /\ results \in Seq(Message)
  BY QueueElements
<1>a. a \in Message /\ a.node = n /\ a.type = "GraceExpired" /\ a.job = job[n].id
      /\ a = results[1] /\ 1 \in 1..Len(results)
  BY <1>q, TailAt, QueueElements
<1>j. \A m \in Nodes : job'[m].id = job[m].id /\ job[m].id \in Nat
  BY CounterTypes, DiallingFields
<1>. HIDE DEF a
<1>e. \A i \in 1..Len(effects') : \/ i \in 1..Len(effects) /\ effects'[i] = effects[i]
                                  \/ i = Len(effects) + 1 /\ effects'[i] = a
  BY <1>q, <1>a, AppendAt DEF a
<1>t. \A i \in 1..Len(effects) : effects[i].type \notin {"StartPipeline", "RetryNodeConnect"}
  BY DEF BudgetParts, TurnInv
<1>w. 1 \in Answers(n)
  BY <1>a DEF Answers, Of
<1>x. Expired(n) = {} /\ ~Probing(n) /\ AtMostOne(Answers(n))
  BY <1>w DEF BudgetParts, ProbeInv
<1>o. /\ \A m \in Nodes : Of(effects', m, Releases) = Of(effects, m, Releases)
      /\ \A m \in Nodes \ {n} : /\ Of(effects', m, Cascades) = Of(effects, m, Cascades)
                                /\ Of(effects', m, {"GraceExpired"}) = Of(effects, m, {"GraceExpired"})
      /\ Of(effects', n, {"GraceExpired"}) = {Len(effects) + 1}
      /\ Of(effects, n, Cascades) = {}
  <2>1. a.type \notin Releases /\ a.type \in {"GraceExpired"}
    BY <1>a DEF Releases
  <2>2. \A m, types : ~(a.node = m /\ a.type \in types) =>
                        Of(Append(effects, a), m, types) = Of(effects, m, types)
    BY <1>q, <1>a, OfAppend
  <2>3. Of(Append(effects, a), n, {"GraceExpired"})
          = Of(effects, n, {"GraceExpired"}) \cup {Len(effects) + 1}
    <3>1. Of(Append(effects, a), a.node, {"GraceExpired"})
            = Of(effects, a.node, {"GraceExpired"}) \cup {Len(effects) + 1}
      BY <1>q, <1>a, <2>1, OfAppended
    <3>. QED BY <1>a, <3>1
  <2>4. effects' = Append(effects, a)
    BY DEF a
  <2>5. Of(effects, n, Cascades) = {}
    BY <1>t, <1>x DEF Of, Cascades, Expired
  <2>. QED BY <1>a, <1>x, <2>1, <2>2, <2>3, <2>4, <2>5 DEF Expired
<1>p. /\ \A m \in Nodes : probe'[m] = probe[m] \/ probe'[m] = NoProbe
      /\ ~Probing(n)'
  <2>1. \A m \in Nodes : probe'[m] = probe[m] \/ probe'[m] = NoProbe
    BY DEF ProbeDone, TypeOK
  <2>. QED BY <1>x, <1>j, <2>1 DEF Probing, NoProbe
<1>1. TurnInv'
  BY <1>a, <1>e, <1>t DEF TurnInv
<1>2. TagInv'
  <2>1. \A i \in 1..Len(results') : \E k \in 1..Len(results) : results'[i] = results[k]
    BY <1>q, TailAt
  <2>2. \A i \in 1..Len(results') :
          results'[i].type = "GraceExpired" => results'[i].job <= job'[results'[i].node].id
    <3>1. \A k \in 1..Len(results) : /\ results[k].node \in Nodes
                                     /\ results[k].type = "GraceExpired" =>
                                          results[k].job <= job[results[k].node].id
      BY QueueElements DEF BudgetParts, TagInv
    <3>. QED BY <1>j, <2>1, <3>1
  <2>3. \A i \in 1..Len(effects') :
          effects'[i].type = "GraceExpired" => effects'[i].job = job'[effects'[i].node].id
    BY <1>a, <1>j, <1>e, <1>t, QueueElements DEF BudgetParts, TagInv
  <2>4. \A m \in Nodes : probe'[m].job <= job'[m].id
    BY <1>j, <1>p DEF BudgetParts, TagInv, NoProbe
  <2>. QED BY <2>2, <2>3, <2>4 DEF TagInv
<1>3. ChainInv'
  BY <1>o, ShrinksRefl, ChainKeeps DEF BudgetParts
<1>4. ProbeInv'
  <2>1. Answers(n)' = {}
    <3>1. \A i \in Answers(n)' : i + 1 \in Answers(n) /\ i \in Nat /\ i > 0
      BY <1>j, AnswersShrink
    <3>. QED BY <1>w, <1>x, <3>1 DEF AtMostOne
  <2>2. Expired(n)' = {Len(effects) + 1}
    BY <1>o DEF Expired
  <2>3. ASSUME NEW m \in Nodes \ {n}
        PROVE  /\ Expired(m)' = Expired(m) /\ Shrinks(Answers(m), Answers(m)')
               /\ Probing(m)' => Probing(m)
    BY <1>j, <1>o, <1>p, AnswersShrink DEF Expired, Probing, NoProbe
  <2>. QED BY <1>p, <2>1, <2>2, <2>3 DEF BudgetParts, ProbeInv, Shrinks, AtMostOne
<1>5. BudgetInv'
  <2>1. \A m \in Nodes : \A i \in Of(effects, m, Releases) : effects'[i] = effects[i]
    <3>1. \A m \in Nodes : \A i \in Of(effects, m, Releases) : i \in 1..Len(effects)
      BY DEF Of
    <3>. QED BY <1>q, <1>a, <3>1, AppendAt DEF a
  <2>. QED BY <1>o, <2>1, DiallingBudget DEF BudgetParts
<1>. QED BY <1>1, <1>2, <1>3, <1>4, <1>5 DEF BudgetParts

LEMMA ReduceBudget == TypeOK /\ BudgetParts /\ Reduce => BudgetParts'
<1>. SUFFICES ASSUME TypeOK, BudgetParts, Reduce PROVE BudgetParts'
  OBVIOUS
<1>. DEFINE a == Head(results)
            n == a.node
<1>0. /\ ~applying /\ results # <<>> /\ results' = Tail(results)
      /\ UNCHANGED <<applying, chain>>
  BY DEF Reduce
<1>1. a \in Message /\ n \in Nodes /\ a.dial \in Nat
  <2>1. a \in Message
    BY <1>0, QueueTypes DEF TypeOK
  <2>. QED BY <2>1 DEF Message
<1>f. job[n] \in Job /\ job[n].id \in Nat
  BY <1>1, FieldTypes
<1>r. ASSUME Reject(a) PROVE /\ UNCHANGED <<job, probe, effects>>
                             /\ \A m \in Nodes : dial'[m].state # "none" => dial[m].state # "none"
  <2>1. CASE dial[n].id = a.dial
    BY <1>1, <1>r, <2>1, CancelDialEnds DEF Reject
  <2>2. CASE dial[n].id # a.dial
    BY <1>r, <2>2 DEF Reject
  <2>. QED BY <2>1, <2>2
<1>c. ASSUME Reject(a), tries' = tries PROVE BudgetParts'
  <2>1. \A m \in Nodes : Probing(m)' => Probing(m)
    BY <1>c, <1>r DEF Probing
  <2>. QED BY <1>0, <1>c, <1>r, <2>1, JobsSame, CalmKeeps
<1>p. ASSUME ProbeDone(a), NEW m \in Nodes
      PROVE  probe'[m] = probe[m] \/ probe'[m] = NoProbe
  BY <1>p DEF ProbeDone, TypeOK
<1>d. ASSUME ProbeDone(a), job' = job
      PROVE  /\ \A m \in Nodes : probe'[m].job = 0 \/ probe'[m].job = probe[m].job
             /\ \A m \in Nodes : Probing(m)' => Probing(m)
  BY <1>d, <1>p DEF Probing, NoProbe
<1>2. ASSUME ReduceConnected(a) PROVE BudgetParts'
  <2>1. CASE ~Accepted(a)
    BY <1>2, <1>c, <2>1 DEF ReduceConnected
  <2>2. CASE Accepted(a)
    <3>. DEFINE e == [a EXCEPT !.job = IF Active(n) THEN job[n].id ELSE 0]
    <3>1. /\ dial' = [dial EXCEPT ![n].state = "none"] /\ dial[n].state = "answered"
          /\ job' = IF Active(n) THEN [job EXCEPT ![n] = InPhase(@, "AwaitTerminal")] ELSE job
          /\ effects' = Append(effects, e) /\ tries' = [tries EXCEPT ![n] = 0]
          /\ probe' = probe
      BY <1>2, <2>2 DEF ReduceConnected, Push, Accepted
    <3>2. e \in Message /\ e.node = n /\ e.type \in Releases
      <4>1. a.type = "Connected"
        BY <1>2 DEF ReduceConnected
      <4>. QED BY <1>1, <1>f, <4>1 DEF Message, Releases
    <3>3. JobsEnd
      <4>1. "AwaitTerminal" \in Phases
        BY DEF Phases
      <4>. QED BY <1>1, <3>1, <4>1, PhaseEnds, JobsSame
    <3>. HIDE DEF e
    <3>. QED BY <1>0, <1>1, <3>1, <3>2, <3>3, AcceptedBudget
  <2>. QED BY <2>1, <2>2
<1>3. ASSUME NEW fatal \in BOOLEAN, ReduceConnectFailed(a, fatal), tries' = tries
      PROVE  BudgetParts'
  <2>1. CASE ~Accepted(a)
    BY <1>3, <1>c, <2>1 DEF ReduceConnectFailed
  <2>2. CASE Accepted(a)
    <3>. DEFINE retry == ~fatal /\ MayRetry(n)
                type == CASE ~Active(n) -> "ConnectFailed"
                          [] Active(n) /\ retry -> "FailedWillRetry"
                          [] OTHER -> "FailedForGood"
                b == About(type, n, job[n].id)
                e == [b EXCEPT !.dial = a.dial]
    <3>1. /\ dial' = [dial EXCEPT ![n].state = "none"] /\ dial[n].state = "answered"
          /\ job' = IF Active(n) /\ retry THEN [job EXCEPT ![n] = InPhase(@, "Queued")] ELSE job
          /\ effects' = Append(effects, e) /\ probe' = probe
      BY <1>3, <2>2 DEF ReduceConnectFailed, Push, Accepted
    <3>2. type \in {"ConnectFailed", "FailedWillRetry", "FailedForGood"}
      BY Zenon
    <3>3. Active(n) /\ job[n].attempt = MaxAttempts => type = "FailedForGood"
      <4>. SUFFICES ASSUME Active(n), job[n].attempt = MaxAttempts PROVE type = "FailedForGood"
        OBVIOUS
      <4>1. ~MayRetry(n)
        BY Constants DEF MayRetry
      <4>. QED BY <4>1, Zenon
    <3>4. JobsEnd
      <4>1. "Queued" \in Phases
        BY DEF Phases
      <4>. QED BY <1>1, <3>1, <4>1, PhaseEnds, JobsSame
    <3>. HIDE DEF retry, type
    <3>5. e \in Message /\ e.node = n /\ e.type = type
      <4>1. b \in Message /\ b.node = n /\ b.type = type
        BY <1>1, <1>f, <3>2, MessageTyped DEF About
      <4>. HIDE DEF b
      <4>. QED BY <1>1, <4>1 DEF Message
    <3>6. e.type \in Releases
      BY <3>2, <3>5 DEF Releases
    <3>. HIDE DEF b, e
    <3>. QED BY <1>0, <1>1, <1>3, <3>1, <3>3, <3>4, <3>5, <3>6, AcceptedBudget
  <2>. QED BY <2>1, <2>2
<1>4. ASSUME ReduceSnapshotted(a), tries' = tries PROVE BudgetParts'
  <2>1. JobsEnd
    <3>1. \/ job' = job
          \/ Active(n) /\ job' = [job EXCEPT ![n] = InPhase(@, "GracePeriod")]
      BY <1>4 DEF ReduceSnapshotted, Current
    <3>2. "GracePeriod" \in Phases
      BY DEF Phases
    <3>. QED BY <1>1, <3>1, <3>2, PhaseEnds, JobsSame
  <2>2. UNCHANGED <<probe, dial, effects>>
    BY <1>4 DEF ReduceSnapshotted
  <2>3. \A m \in Nodes : Probing(m)' => Probing(m)
    BY <2>1, <2>2 DEF Probing, JobsEnd
  <2>. QED BY <1>0, <1>4, <2>1, <2>2, <2>3, CalmKeeps
<1>5. ASSUME ReduceGraceRecovered(a), tries' = tries PROVE BudgetParts'
  <2>1. /\ job' = job /\ dial' = dial /\ ProbeDone(a) /\ a.type = "GraceRecovered"
        /\ effects' = effects \/ effects' = Append(effects, a)
    BY <1>5 DEF ReduceGraceRecovered, Push
  <2>. QED BY <1>0, <1>1, <1>5, <1>d, <2>1, JobsSame, CalmKeeps
<1>6. ASSUME ReduceGraceExpired(a), tries' = tries PROVE BudgetParts'
  <2>0. dial' = dial /\ ProbeDone(a) /\ a.type = "GraceExpired"
    BY <1>6 DEF ReduceGraceExpired
  <2>1. CASE Current(n, a.job)
    <3>1. /\ job' = [job EXCEPT ![n] = Dialling(@)] /\ effects' = Append(effects, a)
          /\ Active(n) /\ a.job = job[n].id
      BY <1>6, <2>1 DEF ReduceGraceExpired, Push, Current
    <3>. QED BY <1>0, <1>1, <1>6, <2>0, <3>1, ExpiredBudget
  <2>2. CASE ~Current(n, a.job)
    <3>1. job' = job /\ effects' = effects
      BY <1>6, <2>2 DEF ReduceGraceExpired
    <3>. QED BY <1>0, <1>6, <1>d, <2>0, <3>1, JobsSame, CalmKeeps
  <2>. QED BY <2>1, <2>2
<1>. QED BY <1>2, <1>3, <1>4, <1>5, <1>6 DEF Reduce

(* Effects are applied from the head of the queue.                          *)
LEMMA AppliedQueue ==
  ASSUME TypeOK, BudgetParts, effects # <<>>, effects' = Tail(effects),
         applying' = (Tail(effects) # <<>>)
  PROVE  /\ TurnInv'
         /\ \A m \in Nodes : \A types :
              /\ Shrinks(Of(effects, m, types), Of(effects', m, types))
              /\ \A i \in Of(effects', m, types) :
                   i + 1 \in Of(effects, m, types) /\ effects'[i] = effects[i + 1]
         /\ \A i \in 1..Len(effects') : i + 1 \in 1..Len(effects) /\ effects'[i] = effects[i + 1]
<1>q. effects \in Seq(Message)
  BY QueueElements
<1>1. \A i \in 1..Len(effects') : i + 1 \in 1..Len(effects) /\ effects'[i] = effects[i + 1]
  BY <1>q, TailAt
<1>2. TurnInv'
  <2>. SUFFICES ASSUME NEW i \in 1..Len(effects')
       PROVE  /\ effects'[i].type = "StartPipeline" =>
                   applying' /\ \A k \in 1..Len(effects') : effects'[k].type = "StartPipeline"
              /\ effects'[i].type = "RetryNodeConnect" => applying' /\ Len(effects') = 1
    BY DEF TurnInv
  <2>1. effects' # <<>> /\ Len(effects) > 1
    BY <1>q, TailAt
  <2>2. effects'[i].type # "RetryNodeConnect"
    BY <1>1, <2>1 DEF BudgetParts, TurnInv
  <2>3. effects'[i].type = "StartPipeline" =>
          \A k \in 1..Len(effects') : effects'[k].type = "StartPipeline"
    BY <1>1 DEF BudgetParts, TurnInv
  <2>. QED BY <2>1, <2>2, <2>3
<1>3. ASSUME NEW m \in Nodes, NEW types
      PROVE  /\ Shrinks(Of(effects, m, types), Of(effects', m, types))
             /\ \A i \in Of(effects', m, types) :
                  i + 1 \in Of(effects, m, types) /\ effects'[i] = effects[i + 1]
  BY <1>q, OfTail DEF Shrinks
<1>. QED BY <1>1, <1>2, <1>3

LEMMA AppliedTags ==
  ASSUME TypeOK, BudgetParts, effects # <<>>, effects' = Tail(effects),
         applying' = (Tail(effects) # <<>>), results' = results, probe' = probe, JobsEnd
  PROVE  /\ TagInv' /\ ProbeInv'
<1>j. \A m \in Nodes : job'[m].id = job[m].id
  BY DEF JobsEnd
<1>1. TagInv'
  <2>1. \A i \in 1..Len(effects') : i + 1 \in 1..Len(effects) /\ effects'[i] = effects[i + 1]
    BY AppliedQueue
  <2>2. \A k \in 1..Len(effects) :
          /\ effects[k].node \in Nodes
          /\ effects[k].type = "GraceExpired" => effects[k].job = job[effects[k].node].id
    BY QueueElements DEF BudgetParts, TagInv
  <2>3. \A i \in 1..Len(results) :
          results[i].type = "GraceExpired" => results[i].job <= job'[results[i].node].id
    BY <1>j, QueueElements DEF BudgetParts, TagInv
  <2>4. \A i \in 1..Len(effects') :
          effects'[i].type = "GraceExpired" => effects'[i].job = job'[effects'[i].node].id
    <3>. SUFFICES ASSUME NEW i \in 1..Len(effects'), effects'[i].type = "GraceExpired"
         PROVE  effects'[i].job = job'[effects'[i].node].id
      OBVIOUS
    <3>1. i + 1 \in 1..Len(effects) /\ effects'[i] = effects[i + 1]
      BY <2>1
    <3>. QED BY <1>j, <2>2, <3>1
  <2>5. \A m \in Nodes : probe'[m].job <= job'[m].id
    BY <1>j DEF BudgetParts, TagInv
  <2>. QED BY <2>3, <2>4, <2>5 DEF TagInv
<1>2. ProbeInv'
  <2>1. \A m \in Nodes : Answers(m)' = Answers(m) /\ (Probing(m)' => Probing(m))
    BY <1>j DEF Answers, Probing
  <2>2. \A m \in Nodes : Shrinks(Expired(m), Expired(m)')
    BY AppliedQueue DEF Expired
  <2>. QED BY <2>1, <2>2, ShrinksRefl, ProbeKeeps DEF BudgetParts
<1>. QED BY <1>1, <1>2

(* An effect that neither dials nor gives the chain back.                   *)
LEMMA AppliedKeeps ==
  ASSUME TypeOK, BudgetParts, effects # <<>>, effects' = Tail(effects),
         applying' = (Tail(effects) # <<>>), JobsEnd,
         UNCHANGED <<results, probe, dial, chain, tries>>
  PROVE  BudgetParts'
<1>1. TurnInv' /\ TagInv' /\ ProbeInv'
  BY AppliedQueue, AppliedTags
<1>2. ChainInv'
  BY AppliedQueue, ChainKeeps DEF BudgetParts
<1>3. BudgetInv'
  <2>1. \A m \in Nodes : \A i \in Of(effects, m, Releases)' :
          \E k \in Of(effects, m, Releases) : effects'[i].type = effects[k].type
    BY AppliedQueue
  <2>2. \A m \in Nodes : Of(effects, m, Cascades) = {} => Of(effects, m, Cascades)' = {}
    BY AppliedQueue DEF Shrinks
  <2>. QED BY <2>1, <2>2, BudgetKeeps DEF BudgetParts
<1>. QED BY <1>1, <1>2, <1>3 DEF BudgetParts

(* The answer of a dial has been applied: the chain is free again.          *)
LEMMA ReleaseBudget ==
  ASSUME TypeOK, BudgetParts, effects # <<>>, effects' = Tail(effects),
         applying' = (Tail(effects) # <<>>), JobsEnd,
         UNCHANGED <<results, probe, dial, tries>>,
         NEW n \in Nodes, Head(effects).node = n, Head(effects).type \in Releases,
         chain' = (IF chain = n THEN NoNode ELSE chain),
         Head(effects).type = "FailedForGood" => ~Active(n)'
  PROVE  BudgetParts'
<1>q. effects \in Seq(Message) /\ 1 \in 1..Len(effects) /\ Head(effects) = effects[1]
  BY QueueElements, TailAt
<1>w. 1 \in Of(effects, n, Releases)
  BY <1>q DEF Of
<1>c. chain = n /\ chain' = NoNode /\ n # NoNode
  BY <1>w, Constants DEF BudgetParts, ChainInv
<1>1. TurnInv' /\ TagInv' /\ ProbeInv'
  BY AppliedQueue, AppliedTags
<1>2. \A m \in Nodes : dial[m].state = "none" /\ Of(effects', m, Releases) = {}
  <2>1. \A m \in Nodes \ {n} : dial[m].state = "none" /\ Of(effects, m, Releases) = {}
    BY <1>c DEF BudgetParts, ChainInv
  <2>2. dial[n].state = "none" /\ AtMostOne(Of(effects, n, Releases))
    BY <1>w DEF BudgetParts, ChainInv
  <2>3. Of(effects', n, Releases) = {}
    BY <1>q, <2>2, OfTail
  <2>. QED BY <2>1, <2>2, <2>3, AppliedQueue DEF Shrinks
<1>3. ChainInv'
  BY <1>2 DEF ChainInv, AtMostOne
<1>4. BudgetInv'
  <2>. SUFFICES ASSUME NEW m \in Nodes
       PROVE  /\ tries'[m] <= MaxAttempts
              /\ Active(m)' /\ job'[m].attempt < MaxAttempts =>
                   tries'[m] + Waiting(m)' <= job'[m].attempt
              /\ Active(m)' => tries'[m] # MaxAttempts
    BY DEF BudgetInv
  <2>1. tries[m] \in Nat /\ job[m].attempt \in Nat
    BY CounterTypes
  <2>2. Waiting(m)' <= Waiting(m) /\ Waiting(m) \in {0, 1} /\ Waiting(m)' \in {0, 1}
    BY AppliedQueue DEF Waiting, Shrinks
  <2>3. Active(m)' => Active(m) /\ job'[m].attempt = job[m].attempt
    BY DEF JobsEnd
  <2>b. /\ tries' = tries /\ tries[m] <= MaxAttempts
        /\ Active(m) /\ job[m].attempt < MaxAttempts => tries[m] + Waiting(m) <= job[m].attempt
        /\ Active(m) /\ tries[m] = MaxAttempts =>
             /\ chain = m
             /\ \A i \in Of(effects, m, Releases) : effects[i].type = "FailedForGood"
    BY DEF BudgetParts, BudgetInv
  <2>4. Active(m)' => tries[m] # MaxAttempts
    BY <1>c, <1>q, <1>w, <2>3, <2>b
  <2>. QED BY <2>1, <2>2, <2>3, <2>4, <2>b
<1>. QED BY <1>1, <1>3, <1>4 DEF BudgetParts

(* A job's dial.                                                            *)
LEMMA CascadeBudget ==
  ASSUME TypeOK, BudgetParts, effects # <<>>, effects' = Tail(effects),
         applying' = (Tail(effects) # <<>>), UNCHANGED <<results, probe, job>>,
         NEW n \in Nodes, Head(effects).node = n, Head(effects).type \in Cascades,
         MayDial(n), StartDial(n),
         tries' = (IF Active(n) THEN [tries EXCEPT ![n] = @ + 1] ELSE tries)
  PROVE  BudgetParts'
<1>q. effects \in Seq(Message) /\ 1 \in 1..Len(effects) /\ Head(effects) = effects[1]
  BY QueueElements, TailAt
<1>1. TurnInv' /\ TagInv' /\ ProbeInv'
  BY JobsSame, AppliedQueue, AppliedTags
<1>2. /\ ChainInv' /\ chain' = n
      /\ \A m \in Nodes : Of(effects, m, Releases) = {} /\ Of(effects', m, Releases) = {}
  BY AppliedQueue, StartDialChain DEF BudgetParts, Shrinks
<1>3. Of(effects', n, Cascades) = {}
  <2>1. AtMostOne(Of(effects, n, Cascades))
    <3>1. AtMostOne(Of(effects, n, {"GraceExpired"}))
      BY DEF BudgetParts, ProbeInv, Expired
    <3>2. \A i \in 1..Len(effects) : effects[i].type = "RetryNodeConnect" => Len(effects) = 1
      BY DEF BudgetParts, TurnInv
    <3>3. CASE Len(effects) = 1
      BY <3>3 DEF AtMostOne, Of
    <3>4. CASE Len(effects) # 1
      <4>1. Of(effects, n, Cascades) = Of(effects, n, {"GraceExpired"})
        BY <3>2, <3>4 DEF Of, Cascades
      <4>. QED BY <3>1, <4>1
    <3>. QED BY <3>3, <3>4
  <2>. QED BY <1>q, <2>1, OfTail
<1>4. BudgetInv'
  <2>. SUFFICES ASSUME NEW m \in Nodes
       PROVE  /\ tries'[m] <= MaxAttempts
              /\ Active(m)' /\ job'[m].attempt < MaxAttempts =>
                   tries'[m] + Waiting(m)' <= job'[m].attempt
              /\ Active(m)' /\ tries'[m] = MaxAttempts =>
                   /\ chain' = m
                   /\ \A i \in Of(effects, m, Releases)' : effects'[i].type = "FailedForGood"
    BY DEF BudgetInv
  <2>1. tries[m] \in Nat /\ job[m].attempt \in Nat /\ MaxAttempts \in Nat
    BY CounterTypes
  <2>2. Waiting(m)' <= Waiting(m) /\ Waiting(m) \in {0, 1} /\ Waiting(m)' \in {0, 1}
    BY AppliedQueue DEF Waiting, Shrinks
  <2>3. (Active(m)' <=> Active(m)) /\ job' = job
    BY DEF Active
  <2>b. /\ tries[m] <= MaxAttempts
        /\ Active(m) /\ job[m].attempt < MaxAttempts => tries[m] + Waiting(m) <= job[m].attempt
        /\ Active(m) => tries[m] # MaxAttempts
    BY Constants DEF BudgetParts, BudgetInv, MayDial
  <2>4. CASE m = n /\ Active(n)
    <3>1. tries'[m] = tries[m] + 1
      BY <2>4 DEF TypeOK
    <3>2. 1 \in Of(effects, n, Cascades)
      BY <1>q DEF Of
    <3>3. Waiting(m) = 1 /\ Waiting(m)' = 0
      BY <1>3, <2>4, <3>2 DEF Waiting
    <3>. QED BY <1>2, <2>1, <2>3, <2>4, <2>b, <3>1, <3>3
  <2>5. CASE ~(m = n /\ Active(n))
    <3>1. tries'[m] = tries[m]
      BY <2>5 DEF TypeOK
    <3>. QED BY <2>1, <2>2, <2>3, <2>b, <3>1
  <2>. QED BY <2>4, <2>5
<1>. QED BY <1>1, <1>2, <1>4 DEF BudgetParts

(* A job starts with nothing of an earlier one left.                        *)
LEMMA StartBudget ==
  ASSUME TypeOK, BudgetParts, effects # <<>>, effects' = Tail(effects),
         applying' = (Tail(effects) # <<>>), UNCHANGED <<results, dial, chain>>,
         NEW n \in Nodes, Head(effects).type = "StartPipeline", NEW needs \in Snapshots,
         job' = [job EXCEPT ![n] = [id |-> @.id + 1, status |-> "Snapshot",
                                    attempt |-> 0, ended |-> FALSE,
                                    needs |-> needs, swept |-> FALSE]],
         probe' = [probe EXCEPT ![n] = [job |-> job[n].id + 1, conn |-> conn[n],
                                        state |-> "listing"]],
         tries' = [tries EXCEPT ![n] = 0]
  PROVE  BudgetParts'
<1>q. effects \in Seq(Message) /\ 1 \in 1..Len(effects) /\ Head(effects) = effects[1]
  BY QueueElements, TailAt
<1>t. \A i \in 1..Len(effects) : effects[i].type = "StartPipeline"
  BY <1>q DEF BudgetParts, TurnInv
<1>s. \A i \in 1..Len(effects') : effects'[i].type = "StartPipeline"
  <2>1. \A i \in 1..Len(effects') : i + 1 \in 1..Len(effects) /\ effects'[i] = effects[i + 1]
    BY AppliedQueue
  <2>. QED BY <1>t, <2>1
<1>o. \A m \in Nodes : /\ Of(effects', m, Releases) = {}
                       /\ Of(effects', m, Cascades) = {} /\ Of(effects', m, {"GraceExpired"}) = {}
  BY <1>s DEF Of, Releases, Cascades
<1>j. /\ job'[n].id = job[n].id + 1 /\ job'[n].attempt = 0 /\ job[n].id \in Nat
      /\ \A m \in Nodes \ {n} : job'[m] = job[m]
      /\ \A m \in Nodes : job[m].id \in Nat
  BY CounterTypes DEF TypeOK
<1>p. /\ probe'[n].job = job[n].id + 1
      /\ \A m \in Nodes \ {n} : probe'[m] = probe[m]
  BY DEF TypeOK
<1>1. TurnInv'
  BY AppliedQueue
<1>2. TagInv'
  <2>1. \A m \in Nodes : probe'[m].job <= job'[m].id
    BY <1>j, <1>p DEF BudgetParts, TagInv
  <2>2. \A i \in 1..Len(results) : /\ results[i] \in Message /\ results[i].node \in Nodes
                                   /\ results[i].type = "GraceExpired" =>
                                        results[i].job <= job[results[i].node].id
    BY QueueElements DEF BudgetParts, TagInv
  <2>3. \A i \in 1..Len(results) : results[i].job \in Nat
    BY <2>2 DEF Message
  <2>4. \A m \in Nodes : job'[m].id >= job[m].id /\ job'[m].id \in Nat
    BY <1>j
  <2>5. \A i \in 1..Len(results) :
          results[i].type = "GraceExpired" => results[i].job <= job'[results[i].node].id
    BY <1>j, <2>2, <2>3, <2>4
  <2>6. \A i \in 1..Len(effects') : effects'[i].type # "GraceExpired"
    BY <1>s
  <2>. QED BY <2>1, <2>5, <2>6 DEF TagInv
<1>3. ChainInv'
  BY <1>o DEF BudgetParts, ChainInv, AtMostOne
<1>4. ProbeInv'
  <2>1. Answers(n)' = {}
    <3>1. \A i \in 1..Len(results) :
            results[i].node = n /\ results[i].type = "GraceExpired" => results[i].job <= job[n].id
      BY DEF BudgetParts, TagInv
    <3>2. \A i \in 1..Len(results) : results[i].job \in Nat
      BY QueueElements DEF Message
    <3>. QED BY <1>j, <3>1, <3>2 DEF Answers, Of
  <2>2. \A m \in Nodes : Expired(m)' = {}
    BY <1>o DEF Expired
  <2>3. ASSUME NEW m \in Nodes \ {n}
        PROVE  Answers(m)' = Answers(m) /\ (Probing(m)' => Probing(m))
    BY <1>j, <1>p DEF Answers, Probing
  <2>. QED BY <2>1, <2>2, <2>3 DEF BudgetParts, ProbeInv, AtMostOne
<1>5. BudgetInv'
  <2>. SUFFICES ASSUME NEW m \in Nodes
       PROVE  /\ tries'[m] <= MaxAttempts
              /\ Active(m)' /\ job'[m].attempt < MaxAttempts =>
                   tries'[m] + Waiting(m)' <= job'[m].attempt
              /\ Active(m)' /\ tries'[m] = MaxAttempts =>
                   /\ chain' = m
                   /\ \A i \in Of(effects, m, Releases)' : effects'[i].type = "FailedForGood"
    BY DEF BudgetInv
  <2>1. /\ tries[m] \in Nat /\ job[m].attempt \in Nat /\ MaxAttempts \in Nat /\ MaxAttempts > 0
    BY CounterTypes
  <2>2. Waiting(m)' = 0 /\ Waiting(m) \in {0, 1}
    BY <1>o DEF Waiting
  <2>3. CASE m = n
    <3>1. tries'[m] = 0
      BY <2>3 DEF TypeOK
    <3>2. job'[m].attempt = 0
      BY <1>j, <2>3
    <3>3. tries'[m] <= MaxAttempts /\ tries'[m] # MaxAttempts
      BY <2>1, <3>1
    <3>4. tries'[m] + Waiting(m)' <= job'[m].attempt
      BY <2>2, <3>1, <3>2
    <3>. QED BY <3>3, <3>4
  <2>4. CASE m # n
    <3>1. tries'[m] = tries[m]
      BY <2>4 DEF TypeOK
    <3>2. (Active(m)' <=> Active(m)) /\ job'[m].attempt = job[m].attempt
      BY <1>j, <2>4 DEF Active
    <3>3. /\ tries[m] <= MaxAttempts
          /\ Active(m) /\ job[m].attempt < MaxAttempts => tries[m] + Waiting(m) <= job[m].attempt
          /\ Active(m) /\ tries[m] = MaxAttempts => chain = m
      BY DEF BudgetParts, BudgetInv
    <3>. QED BY <1>o, <2>1, <2>2, <3>1, <3>2, <3>3
  <2>. QED BY <2>3, <2>4
<1>. QED BY <1>1, <1>2, <1>3, <1>4, <1>5 DEF BudgetParts

LEMMA ApplyBudget == TypeOK /\ BudgetParts /\ Apply => BudgetParts'
<1>. SUFFICES ASSUME TypeOK, BudgetParts, Apply PROVE BudgetParts'
  OBVIOUS
<1>. DEFINE e == Head(effects)
            n == e.node
<1>0. /\ effects # <<>> /\ effects' = Tail(effects) /\ applying' = (Tail(effects) # <<>>)
      /\ results' = results
  BY DEF Apply
<1>1. n \in Nodes
  <2>1. e \in Message
    BY <1>0, QueueTypes DEF TypeOK
  <2>. QED BY <2>1 DEF Message
<1>t. "Failed" \in Terminal /\ "Done" \in Terminal
  BY DEF Terminal
<1>2. ASSUME ApplyLinkDown(e) PROVE BudgetParts'
  <2>1. UNCHANGED <<job, probe, dial, chain, tries>>
    BY <1>2 DEF ApplyLinkDown, workers
  <2>. QED BY <1>0, <2>1, JobsSame, AppliedKeeps
<1>3. ASSUME ApplyStart(e) PROVE BudgetParts'
  <2>0. e.type = "StartPipeline" /\ UNCHANGED <<dial, chain>>
    BY <1>3 DEF ApplyStart
  <2>1. CASE UNCHANGED <<job, probe, tries>>
    BY <1>0, <2>0, <2>1, JobsSame, AppliedKeeps
  <2>2. CASE ComeBack(n) /\ UNCHANGED <<probe, tries>>
    <3>1. job' = job \/ Finish(n, "Failed")
      BY <2>2 DEF ComeBack
    <3>2. JobsEnd
      BY <1>1, <1>t, <3>1, JobsSame, FinishEnds
    <3>. QED BY <1>0, <2>0, <2>2, <3>2, AppliedKeeps
  <2>3. ASSUME NEW needs \in Snapshots,
               job' = [job EXCEPT ![n] = [id |-> @.id + 1, status |-> "Snapshot",
                                          attempt |-> 0, ended |-> FALSE,
                                          needs |-> needs, swept |-> FALSE]],
               probe' = [probe EXCEPT ![n] = [job |-> job[n].id + 1, conn |-> conn[n],
                                              state |-> "listing"]],
               tries' = [tries EXCEPT ![n] = 0]
        PROVE  BudgetParts'
    BY <1>0, <1>1, <2>0, <2>3, StartBudget
  <2>. QED BY <1>3, <2>1, <2>2, <2>3 DEF ApplyStart
<1>4. ASSUME ApplyCascade(e) PROVE BudgetParts'
  <2>0. UNCHANGED <<job, probe>> /\ e.type \in Cascades
    BY <1>4 DEF ApplyCascade, Cascades
  <2>1. CASE MayDial(n)
    <3>1. StartDial(n) /\ tries' = (IF Active(n) THEN [tries EXCEPT ![n] = @ + 1] ELSE tries)
      BY <1>4, <2>1 DEF ApplyCascade
    <3>. QED BY <1>0, <1>1, <2>0, <2>1, <3>1, CascadeBudget
  <2>2. CASE ~MayDial(n)
    <3>1. UNCHANGED <<dial, chain, tries>>
      BY <1>4, <2>2 DEF ApplyCascade
    <3>. QED BY <1>0, <2>0, <3>1, JobsSame, AppliedKeeps
  <2>. QED BY <2>1, <2>2
<1>5. ASSUME ApplyConnected(e) PROVE BudgetParts'
  <2>1. \/ job' = job
        \/ Active(n) /\ \E asked : Restore(n, 1, asked)
    BY <1>5 DEF ApplyConnected
  <2>2. JobsEnd
    BY <1>1, <2>1, RestoreEnds, JobsSame
  <2>3. /\ UNCHANGED <<probe, dial, tries>> /\ chain' = (IF chain = n THEN NoNode ELSE chain)
        /\ e.type = "Connected"
    BY <1>5 DEF ApplyConnected
  <2>4. e.type \in Releases /\ e.type # "FailedForGood"
    BY <2>3 DEF Releases
  <2>. QED BY <1>0, <1>1, <2>2, <2>3, <2>4, ReleaseBudget
<1>6. ASSUME ApplyConnectFailed(e) PROVE BudgetParts'
  <2>. PICK k \in Nodes : k = n
    BY <1>1
  <2>1. /\ UNCHANGED <<probe, dial, tries>> /\ chain' = (IF chain = k THEN NoNode ELSE chain)
        /\ e.type \in Releases
        /\ IF e.type = "FailedForGood" THEN Finish(k, "Failed") ELSE job' = job
    BY <1>6 DEF ApplyConnectFailed, workers, Releases
  <2>2. JobsEnd /\ (e.type = "FailedForGood" => ~Active(k)')
    <3>1. CASE e.type = "FailedForGood"
      <4>1. Finish(k, "Failed")
        BY <2>1, <3>1
      <4>. QED BY <1>t, <4>1, FinishEnds
    <3>2. CASE e.type # "FailedForGood"
      <4>1. job' = job
        BY <2>1, <3>2
      <4>. QED BY <3>2, <4>1, JobsSame
    <3>. QED BY <3>1, <3>2
  <2>. QED BY <1>0, <2>1, <2>2, ReleaseBudget
<1>7. ASSUME ApplyRecovered(e) PROVE BudgetParts'
  <2>1. Finish(n, "Done") /\ UNCHANGED <<probe, dial, chain, tries>>
    BY <1>7 DEF ApplyRecovered, workers
  <2>2. JobsEnd
    BY <1>1, <1>t, <2>1, FinishEnds
  <2>. QED BY <1>0, <2>1, <2>2, AppliedKeeps
<1>. QED BY <1>2, <1>3, <1>4, <1>5, <1>6, <1>7 DEF Apply

LEMMA BudgetInit == Init => BudgetParts
<1>. SUFFICES ASSUME Init PROVE BudgetParts
  OBVIOUS
<1>1. effects = <<>> /\ results = <<>> /\ Len(effects) = 0 /\ Len(results) = 0
  BY DEF Init
<1>2. \A m, types : Of(effects, m, types) = {} /\ Of(results, m, types) = {}
  BY <1>1, OfEmpty
<1>3. \A m \in Nodes : /\ dial[m].state = "none" /\ probe[m].job = 0 /\ probe[m].state = "none"
                       /\ job[m].id = 0 /\ ~Active(m) /\ tries[m] = 0
  BY DEF Init, NoProbe, Active
<1>4. TurnInv /\ TagInv
  BY <1>1, <1>3 DEF TurnInv, TagInv
<1>5. ChainInv
  BY <1>2, <1>3 DEF ChainInv, AtMostOne
<1>6. ProbeInv
  BY <1>2, <1>3 DEF ProbeInv, Probing, Answers, Expired, AtMostOne
<1>7. BudgetInv
  BY <1>3, Constants DEF BudgetInv
<1>. QED BY <1>4, <1>5, <1>6, <1>7 DEF BudgetParts

LEMMA BudgetStep == TypeOK /\ JobInv /\ BudgetParts /\ [Next]_vars => BudgetParts'
<1>. SUFFICES ASSUME TypeOK, JobInv, BudgetParts, [Next]_vars PROVE BudgetParts'
  OBVIOUS
<1>1. CASE UNCHANGED vars
  <2>1. UNCHANGED <<effects, applying, results, chain, tries, dial, probe, job>>
    BY <1>1 DEF vars, workers
  <2>2. \A m \in Nodes : Probing(m)' => Probing(m)
    BY <2>1 DEF Probing
  <2>. QED BY <2>1, <2>2, JobsSame, StillKeeps
<1>. QED BY <1>1, StillSteps, WorkersBudget, TurnsBudget, RetryBudget, UserBudget, ReduceBudget,
            ApplyBudget DEF Next

(* The pipeline dials at most max_attempts times for a job without a dial   *)
(* that connects, for every limit and however timers, probes and the user's *)
(* own connects overlap (begin_ssh_attempt, schedule_retry): what keeps it  *)
(* is that the chain is not free between the last dial and its answer.      *)
THEOREM DialsStayInBudget == Spec => []DialsWithinBudget
<1>1. Init => TypeOK /\ JobInv /\ BudgetParts
  BY TypeInit, JobInit, BudgetInit
<1>2. TypeOK /\ JobInv /\ BudgetParts /\ [Next]_vars => (TypeOK /\ JobInv /\ BudgetParts)'
  BY TypeStep, JobStep, BudgetStep
<1>3. BudgetParts => DialsWithinBudget
  BY DEF BudgetParts, BudgetInv, DialsWithinBudget
<1>. QED BY <1>1, <1>2, <1>3, PTL DEF Spec
===============================================================================
