---------------------------- MODULE MoneyLedger ----------------------------
(***************************************************************************)
(* What the transfer protocol promises one identity, abstractly (spec 3,   *)
(* 4.1, 5): the section's ledger is a history of balances, each debit      *)
(* covered by the balance before it and appended atomically; the client's  *)
(* actor knows a prefix of that history and only ever learns more of it,   *)
(* its balance being the section's balance after the debits it knows.      *)
(***************************************************************************)
EXTENDS Naturals, Sequences

CONSTANTS Amounts, InitialBalance

VARIABLES
    hist,   \* hist[i]: the section's balance after i - 1 debits
    lbal,   \* the actor's balance
    lctr    \* the number of debits the actor knows

ledgerVars == <<hist, lbal, lctr>>

Init ==
    /\ hist = <<InitialBalance>>
    /\ lbal = InitialBalance
    /\ lctr = 0

\* The section registers a debit of a, which the current balance covers.
Debit(a) ==
    /\ a <= hist[Len(hist)]
    /\ hist' = Append(hist, hist[Len(hist)] - a)
    /\ UNCHANGED <<lbal, lctr>>

\* The actor learns the next k debits at once.
Learn(k) ==
    /\ lctr + k < Len(hist)
    /\ lctr' = lctr + k
    /\ lbal' = hist[lctr + k + 1]
    /\ UNCHANGED hist

Next ==
    \/ \E a \in Amounts : Debit(a)
    \/ \E k \in 1..(Len(hist) - 1) : Learn(k)

Spec == Init /\ [][Next]_ledgerVars
=============================================================================
