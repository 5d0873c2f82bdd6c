-------------------------- MODULE MCTransferLedger --------------------------
(* Model-checking instance of TransferLedger; constants in the .cfg.       *)
EXTENDS TransferLedger
=============================================================================
