---------------------------- MODULE MCCausalSync ----------------------------
(* Instances of CausalSync for TLC.                                         *)
EXTENDS CausalSync, TLC

CONSTANTS d1, d2, n1, n2, n3

(* One device has the record and the other joins with nothing; it may get a *)
(* default of its own by an edit before its first sync.                     *)
Joining == {(d1 :> n1) @@ (d2 :> Absent)}

(* Each device comes with a default of its own.                             *)
Defaults == {(d1 :> n1) @@ (d2 :> n2)}

(* Every device has the desktop and a command.                              *)
Both == [d \in Devices |-> {"desktop", "command"}]

Commands == [d \in Devices |-> {"command"}]
=============================================================================
