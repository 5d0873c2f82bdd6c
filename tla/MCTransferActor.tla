-------------------------- MODULE MCTransferActor --------------------------
(* Model-checking instance of TransferActor: two tasks sharing one actor,  *)
(* three validators with a quorum of two; the constants are fixed in       *)
(* TransferActor.cfg and TransferRace.cfg.                                 *)
EXTENDS TransferActor
=============================================================================
