------------------------- MODULE MCSequenceClient -------------------------
(* Model-checking instance of SequenceClient; constants are in the .cfg.   *)
EXTENDS SequenceClient
=============================================================================
