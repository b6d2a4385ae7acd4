---------------------------- MODULE MCSharedSftp ----------------------------
(* Instances of SharedSftp for TLC.                                         *)
EXTENDS SharedSftp, TLC

CONSTANTS t1, t2, t3, s1, s2, s3

ReconnectPrograms == {"browse", "recover", "reconnect"}

Symmetric == Permutations(Tasks) \cup Permutations(Sessions)
=============================================================================
