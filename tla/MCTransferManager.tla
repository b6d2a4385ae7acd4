-------------------------- MODULE MCTransferManager --------------------------
(* Instances of TransferManager for TLC.                                    *)
EXTENDS TransferManager

CONSTANTS t1, t2, i1, i2
=============================================================================
