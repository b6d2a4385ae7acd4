---------------------------- MODULE MCNodeEvents ----------------------------
(* Instances of NodeEvents for TLC.                                         *)
EXTENDS NodeEvents

CONSTANTS n1, n2, t1, t2

MixedPrograms == {"mark", "markLost", "idle", "grace", "acquire"}
=============================================================================
