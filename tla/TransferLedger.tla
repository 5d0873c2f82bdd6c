--------------------------- MODULE TransferLedger ---------------------------
(***************************************************************************)
(* TransferActor implements MoneyLedger: the section's history is the      *)
(* abstract history, and the actor's balance and debit counter are the     *)
(* abstract actor's.  Every step that registers a debit at the section is *)
(* an abstract Debit; every step that moves the actor's counter (a commit  *)
(* in send_money, or get_history catching up) is an abstract Learn; every *)
(* other step leaves the mapped state unchanged.                           *)
(***************************************************************************)
EXTENDS TransferActor

Ledger == INSTANCE MoneyLedger WITH hist <- netHist, lbal <- balance,
                                    lctr <- debitCtr

\* The actor's balance and counter only ever move to a balance the section
\* had at that counter, and the section only appends covered debits: a
\* debit committed locally by send_money (lines 171-177) or adopted by
\* get_history (line 126) is one the section registered, with its amount,
\* at that counter, whatever the interleaving of tasks and shares.
LedgerRefinement == Ledger!Spec
=============================================================================
