--------------------------- MODULE MCReconnectPipeline ---------------------------
(* Instances of ReconnectPipeline for TLC: a job that has nothing to restore, *)
(* or everything there is.                                                    *)
EXTENDS ReconnectPipeline

TwoSnapshots == {{}, {"forwards", "transfers", "ide"}}
================================================================================
