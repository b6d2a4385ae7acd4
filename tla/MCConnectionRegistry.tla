------------------------ MODULE MCConnectionRegistry ------------------------
(* Instances of ConnectionRegistry for TLC.                                 *)
EXTENDS ConnectionRegistry, TLC

CONSTANTS c1, c2, c3, k1, u1, u2, w1, w2, r1

TimerClients     == {"node", "attach", "release", "keepAlive", "timeout", "linkDown"}
TunnelClients    == {"node", "dedicated", "release", "retire"}
DedicatedClients == {"node", "dedicated", "release"}

(* Consumers and workers are interchangeable; connections are not where a   *)
(* tunnel tells a parent from its child.                                    *)
SymUsers == Permutations(Consumers) \cup Permutations(Workers)
=============================================================================
