----------------------------- MODULE AtomicApply -----------------------------
(***************************************************************************)
(* What an apply of cloud sync promises (cloud-sync-v3.md, "Coordinated    *)
(* Apply and Recovery"): the configuration of all stores and the baseline  *)
(* the next sync compares it with change together or not at all, whatever  *)
(* fails on the way.  CausalSync takes an apply for one such step.         *)
(***************************************************************************)
EXTENDS Naturals

CONSTANTS Stores, Kinds

VARIABLES
  content,    (* what each store holds                                      *)
  refs,       (* the protected slot each kind of credential is kept in      *)
  baseline,   (* the contents the last sync left, or captured               *)
  view,       (* the contents the last plan was made from                   *)
  edits       (* the number of edits                                        *)

vars == <<content, refs, baseline, view, edits>>

(* The user changes one store, or one credential.  While an apply waits to  *)
(* be taken back, the edit is lost with it.                                 *)
Edit ==
  /\ edits' = edits + 1
  /\ \E s \in Stores :
       /\ content'[s] >= content[s]
       /\ content' = [content EXCEPT ![s] = content'[s]]
       /\ \/ refs' = refs
          \/ s = "connections" /\ \E k \in Kinds : refs' = [refs EXCEPT ![k] = refs'[k]]
  /\ UNCHANGED <<baseline, view>>

Plan ==
  /\ view' = content
  /\ UNCHANGED <<content, refs, baseline, edits>>

(* An apply that is not going to be done keeps what its plan captured.      *)
Capture ==
  /\ baseline' = view
  /\ UNCHANGED <<content, refs, view, edits>>

(* A merge that changes nothing.                                            *)
Settle ==
  /\ baseline' = content
  /\ UNCHANGED <<content, refs, view, edits>>

Commit ==
  /\ \A s, t \in Stores : content'[s] = content'[t] /\ content'[s] > content[t]
  /\ DOMAIN refs' = Kinds
  /\ baseline' = content'
  /\ UNCHANGED <<view, edits>>

Next == Edit \/ Plan \/ Capture \/ Settle \/ Commit

Init ==
  /\ content = [s \in Stores |-> 0]
  /\ DOMAIN refs = Kinds
  /\ baseline = content /\ view = content /\ edits = 0

Spec == Init /\ [][Next]_vars
=============================================================================
