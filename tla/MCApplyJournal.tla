--------------------------- MODULE MCApplyJournal ---------------------------
(* Instances of ApplyJournal for TLC.                                       *)
EXTENDS ApplyJournal

(* A plan that replaces every credential, and one that drops those of a     *)
(* connection and keeps its key.                                            *)
Replace == [k \in Kinds |-> "replace"]
Drop    == [k \in Kinds |-> IF k = "managed" THEN "keep" ELSE "drop"]

TwoPlans == {Replace, Drop}
=============================================================================
