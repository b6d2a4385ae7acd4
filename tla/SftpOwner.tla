----------------------------- MODULE SftpOwner -----------------------------
(***************************************************************************)
(* What the shared SFTP slot of a connection promises to the holders of a  *)
(* capability (NodeRouter::acquire_existing_sftp_generation): a generation *)
(* names at most one channel, for good, and only the current generation is *)
(* given a channel.  Nobody can tell from this how many tasks open,        *)
(* publish, wait for and invalidate channels underneath.                   *)
(***************************************************************************)
EXTENDS Naturals

CONSTANT Sessions

VARIABLES
  current,   (* the current owner generation                               *)
  owners     (* the pairs of a generation and its channel handed out so far *)

TypeOK ==
  /\ current \in Nat
  /\ owners \in SUBSET [gen : Nat, session : Sessions]

Init == current = 0 /\ owners = {}

(* The current generation gets its channel; later grants repeat it.         *)
Grant(s) ==
  /\ \A o \in owners : o.gen = current => o.session = s
  /\ owners' = owners \cup {[gen |-> current, session |-> s]}
  /\ UNCHANGED current

(* The channel, if there is one, is given up.                               *)
Invalidate ==
  /\ current' = current + 1
  /\ UNCHANGED owners

Next == Invalidate \/ \E s \in Sessions : Grant(s)

Spec == Init /\ [][Next]_<<current, owners>>
=============================================================================
