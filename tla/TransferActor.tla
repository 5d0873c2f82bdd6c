--------------------------- MODULE TransferActor ---------------------------
(***************************************************************************)
(* The client's Transfer Actor protocol (balance_management.rs).           *)
(*                                                                         *)
(* Several tasks (clones of one Client sharing its `transfer_actor`        *)
(* mutex) run `send_money` concurrently, while the connection listener     *)
(* feeds validator shares to `handle_validation_event`.  Every action that *)
(* touches the actor is one critical section of `transfer_actor.lock()`:   *)
(* `send_money` takes that lock four separate times, so other tasks'       *)
(* sections interleave between its steps.                                  *)
(*                                                                         *)
(* The actor itself (safe_transfers::Actor: transfer, receive, register,   *)
(* apply) and the network side (validators, the section's ledger) are not *)
(* in this repository; they are modelled from the spec (sections 4.1, 4.2, *)
(* 5, 6) at their interface.                                               *)
(***************************************************************************)
EXTENDS Naturals, FiniteSets, Sequences

CONSTANTS
    Tasks,           \* concurrent callers of send_money on one identity
    Validators,      \* the section's validators (elders)
    Quorum,          \* number of distinct shares that make a proof
    Amounts,         \* amounts a caller may send (0 included: spec 9)
    InitialBalance,  \* balance of the identity on the network
    MaxAttempts,     \* bound: send_money calls per task
    None             \* "no transfer" (a model value)

ASSUME QuorumAssumption ==
    /\ Quorum \in Nat \ {0}
    /\ 2 * Quorum > Cardinality(Validators)
    /\ IsFiniteSet(Validators)
ASSUME ConstAssumption ==
    /\ Amounts \subseteq Nat /\ Amounts # {}
    /\ InitialBalance \in Nat
    /\ MaxAttempts \in Nat

\* A signed transfer.  Its content beyond counter and amount (recipient,
\* signature) is abstracted to the task and attempt that built it: two
\* transfers built by different calls are different transfers.
Transfer == [ctr : Nat, amt : Amounts, by : Tasks, att : Nat]

ASSUME NoneAssumption == None \notin Transfer

VARIABLES
    \* --- the actor's Ledger State (behind transfer_actor's mutex) ---
    balance,      \* actor.balance()
    debitCtr,     \* next debit counter the actor will use
    open,         \* the initiated, not yet registered transfer, or None
    seen,         \* validators whose share for `open` was accumulated
    emitted,      \* a proof for `open` has been emitted
    \* --- network ---
    netBalance,   \* the identity's balance at the section
    netCtr,       \* number of debits the section registered
    netHist,      \* netHist[i]: the section's balance after i - 1 debits
    registered,   \* the transfers the section registered
    signed,       \* signed[v]: transfers validator v validated
    msgs,         \* ValidateTransfer commands delivered to the section
    proofs,       \* proofs handle_validation_event handed to waiters
    \* --- the tasks running send_money ---
    pc, amount, st, prf, res, att

actorVars == <<balance, debitCtr, open, seen, emitted>>
netVars == <<netBalance, netCtr, netHist, registered, signed, msgs>>
taskVars == <<pc, amount, st, prf, res, att>>
vars == <<actorVars, netVars, proofs, taskVars>>

PC == {"idle", "transfer", "initiate", "validate", "await", "register",
       "commit"}
Result == {"none", "ok", "err"}

\* The section's history is a sequence of balances.
HistTypeOK == netHist \in Seq(Nat)

TypeOK ==
    /\ balance \in Nat
    /\ debitCtr \in Nat
    /\ open \in Transfer \cup {None}
    /\ seen \subseteq Validators
    /\ emitted \in BOOLEAN
    /\ netBalance \in Nat
    /\ netCtr \in Nat
    /\ HistTypeOK
    /\ registered \subseteq Transfer
    /\ signed \in [Validators -> SUBSET Transfer]
    /\ msgs \subseteq Transfer
    /\ proofs \subseteq Transfer
    /\ pc \in [Tasks -> PC]
    /\ amount \in [Tasks -> Amounts]
    /\ st \in [Tasks -> Transfer \cup {None}]
    /\ prf \in [Tasks -> Transfer \cup {None}]
    /\ res \in [Tasks -> Result]
    /\ att \in [Tasks -> Nat]

Init ==
    /\ balance = InitialBalance
    /\ debitCtr = 0
    /\ open = None
    /\ seen = {}
    /\ emitted = FALSE
    /\ netBalance = InitialBalance
    /\ netCtr = 0
    /\ netHist = <<InitialBalance>>
    /\ registered = {}
    /\ signed = [v \in Validators |-> {}]
    /\ msgs = {}
    /\ proofs = {}
    /\ pc = [t \in Tasks |-> "idle"]
    /\ amount = [t \in Tasks |-> CHOOSE a \in Amounts : TRUE]
    /\ st = [t \in Tasks |-> None]
    /\ prf = [t \in Tasks |-> None]
    /\ res = [t \in Tasks |-> "none"]
    /\ att = [t \in Tasks |-> 0]
-----------------------------------------------------------------------------
(***************************************************************************)
(* The section's side of the protocol (spec 6).                            *)
(***************************************************************************)

\* A validator validates a transfer it received when it is the next debit
\* of the identity, is covered by the balance, and the validator has not
\* validated another transfer with that counter (replay protection).
ValidatorSign(v, m) ==
    /\ m \in msgs
    /\ m.ctr = netCtr
    /\ m.amt <= netBalance
    /\ \A s \in signed[v] : s.ctr # m.ctr
    /\ signed' = [signed EXCEPT ![v] = @ \cup {m}]
    /\ UNCHANGED <<actorVars, netBalance, netCtr, netHist, registered, msgs,
                   proofs, taskVars>>

\* RegisterTransfer(proof) at the section: applied when it is the next
\* debit, ignored otherwise (the command itself gets no error back).
NetRegister(p) ==
    IF p.ctr = netCtr
    THEN /\ registered' = registered \cup {p}
         /\ netCtr' = netCtr + 1
         /\ netBalance' = netBalance - p.amt
         /\ netHist' = Append(netHist, netBalance - p.amt)
    ELSE UNCHANGED <<registered, netCtr, netBalance, netHist>>
-----------------------------------------------------------------------------
(***************************************************************************)
(* The actor's operations (safe_transfers::Actor, from spec 4.1 and 4.2).  *)
(***************************************************************************)

\* get_history: the actor catches up with the debits the section
\* registered; an initiated transfer the section already passed is closed.
SyncHistory ==
    IF netCtr > debitCtr
    THEN /\ balance' = netBalance
         /\ debitCtr' = netCtr
         /\ IF open # None /\ open.ctr < netCtr
            THEN /\ open' = None /\ seen' = {} /\ emitted' = FALSE
            ELSE UNCHANGED <<open, seen, emitted>>
    ELSE UNCHANGED actorVars

\* apply(TransferInitiated(t)): t becomes the open transfer, with no
\* shares accumulated.
ApplyInitiated(t) ==
    /\ open' = t
    /\ seen' = {}
    /\ emitted' = FALSE

\* register(proof) returns an event only for the open transfer at the
\* actor's debit counter; apply(TransferRegistrationSent) debits it.
CanRegister(p) == open = p /\ p.ctr = debitCtr
ApplyRegistered(p) ==
    /\ balance' = balance - p.amt
    /\ debitCtr' = debitCtr + 1
    /\ open' = None
    /\ seen' = {}
    /\ emitted' = FALSE
-----------------------------------------------------------------------------
(***************************************************************************)
(* handle_validation_event (lines 37-69), under the actor's lock.          *)
(* actor.receive(share) yields Ok(None) for a share of another transfer    *)
(* id, Err("Already received validation") for a validator already seen and *)
(* Err for a share of a conflicting transfer with the open id: none of     *)
(* these changes state.  Otherwise the share is applied, and when it       *)
(* completes a quorum of a transfer not yet proven the proof is returned   *)
(* to the task awaiting that id.                                           *)
(***************************************************************************)
\* Mutant of handle_validation_event: the proof is combined one share
\* short of the quorum.
HandleValidationEarly(v, tr) ==
    /\ tr \in signed[v]
    /\ open # None
    /\ tr = open
    /\ v \notin seen
    /\ seen' = seen \cup {v}
    /\ IF Cardinality(seen') >= Quorum - 1 /\ ~emitted
       THEN emitted' = TRUE /\ proofs' = proofs \cup {open}
       ELSE UNCHANGED <<emitted, proofs>>
    /\ UNCHANGED <<balance, debitCtr, open, netVars, taskVars>>

handle_validation_event(v, tr) ==
    /\ tr \in signed[v]
    /\ open # None
    /\ tr = open
    /\ v \notin seen
    /\ seen' = seen \cup {v}
    /\ IF Cardinality(seen') >= Quorum /\ ~emitted
       THEN emitted' = TRUE /\ proofs' = proofs \cup {open}
       ELSE UNCHANGED <<emitted, proofs>>
    /\ UNCHANGED <<balance, debitCtr, open, netVars, taskVars>>
-----------------------------------------------------------------------------
(***************************************************************************)
(* send_money (lines 122-180), one action per critical section or await.   *)
(***************************************************************************)
Finish(t, r) ==
    /\ pc' = [pc EXCEPT ![t] = "idle"]
    /\ res' = [res EXCEPT ![t] = r]

\* Line 126: get_history().await? -- fails, or syncs the actor.
SendMoneyStart(t, a) ==
    /\ pc[t] = "idle"
    /\ att[t] < MaxAttempts
    /\ att' = [att EXCEPT ![t] = @ + 1]
    /\ amount' = [amount EXCEPT ![t] = a]
    /\ \/ /\ Finish(t, "err")
          /\ UNCHANGED actorVars
       \/ /\ SyncHistory
          /\ pc' = [pc EXCEPT ![t] = "transfer"]
          /\ res' = [res EXCEPT ![t] = "none"]
    /\ UNCHANGED <<netVars, proofs, st, prf>>

\* actor.transfer(amount, to) refuses an amount above the balance, and a
\* new transfer while one is initiated and not registered (spec 4.1, 5).
TransferRefused(a) == a > balance \/ open # None

\* Lines 133-139: lock; actor.transfer(amount, to)?.
SendMoneyTransfer(t) ==
    /\ pc[t] = "transfer"
    /\ IF TransferRefused(amount[t])
       THEN /\ Finish(t, "err")
            /\ UNCHANGED st
       ELSE /\ st' = [st EXCEPT ![t] = [ctr |-> debitCtr, amt |-> amount[t],
                                        by |-> t, att |-> att[t]]]
            /\ pc' = [pc EXCEPT ![t] = "initiate"]
            /\ UNCHANGED res
    /\ UNCHANGED <<actorVars, netVars, proofs, amount, prf, att>>

\* Lines 149-154: lock again; apply(TransferInitiated(signed_transfer)).
SendMoneyInitiate(t) ==
    /\ pc[t] = "initiate"
    /\ ApplyInitiated(st[t])
    /\ pc' = [pc EXCEPT ![t] = "validate"]
    /\ UNCHANGED <<balance, debitCtr, netVars, proofs, amount, st, prf, res,
                   att>>

\* Lines 156-158: await_validation sends ValidateTransfer (which the
\* transport may fail to deliver) ...
AwaitValidationSend(t) ==
    /\ pc[t] = "validate"
    /\ \/ /\ Finish(t, "err")
          /\ UNCHANGED msgs
       \/ /\ msgs' = msgs \cup {st[t]}
          /\ pc' = [pc EXCEPT ![t] = "await"]
          /\ UNCHANGED res
    /\ UNCHANGED <<actorVars, netBalance, netCtr, netHist, registered, signed, proofs,
                   amount, st, prf, att>>

\* ... and waits for a proof with the transfer's id (actor, counter) ...
AwaitValidationReceive(t) ==
    /\ pc[t] = "await"
    /\ \E p \in proofs :
          /\ p.ctr = st[t].ctr
          /\ prf' = [prf EXCEPT ![t] = p]
    /\ pc' = [pc EXCEPT ![t] = "register"]
    /\ UNCHANGED <<actorVars, netVars, proofs, amount, st, res, att>>

\* ... or times out, leaving the transfer initiated.
AwaitValidationTimeout(t) ==
    /\ pc[t] = "await"
    /\ Finish(t, "err")
    /\ UNCHANGED <<actorVars, netVars, proofs, amount, st, prf, att>>

\* Mutant of SendMoneyRegister: the send's error is dropped
\* (`let _ = send_cmd(..).await;` without `?`), so the task commits locally
\* whatever became of the command.
SendMoneyRegisterIgnoringError(t) ==
    /\ pc[t] = "register"
    /\ \/ UNCHANGED <<registered, netCtr, netBalance, netHist>>
       \/ NetRegister(prf[t])
    /\ pc' = [pc EXCEPT ![t] = "commit"]
    /\ UNCHANGED <<actorVars, signed, msgs, proofs, amount, st, prf, res, att>>

\* Line 169: send_cmd(RegisterTransfer(proof)).await? -- lost, delivered,
\* or delivered with the acknowledgement lost.
SendMoneyRegister(t) ==
    /\ pc[t] = "register"
    /\ \/ /\ Finish(t, "err")
          /\ UNCHANGED <<registered, netCtr, netBalance, netHist>>
       \/ /\ NetRegister(prf[t])
          /\ pc' = [pc EXCEPT ![t] = "commit"]
          /\ UNCHANGED res
       \/ /\ NetRegister(prf[t])
          /\ Finish(t, "err")
    /\ UNCHANGED <<actorVars, signed, msgs, proofs, amount, st, prf, att>>

\* Mutant of SendMoneyCommit: the actor's refusal to register is ignored
\* (register's Option dropped) and the debit is applied anyway.
SendMoneyCommitUnchecked(t) ==
    /\ pc[t] = "commit"
    /\ ApplyRegistered(prf[t]) /\ Finish(t, "ok")
    /\ UNCHANGED <<netVars, proofs, amount, st, prf, att>>

\* Lines 171-179: lock; actor.register(proof)?.ok_or_else(..)?; apply.
SendMoneyCommit(t) ==
    /\ pc[t] = "commit"
    /\ IF CanRegister(prf[t])
       THEN ApplyRegistered(prf[t]) /\ Finish(t, "ok")
       ELSE UNCHANGED actorVars /\ Finish(t, "err")
    /\ UNCHANGED <<netVars, proofs, amount, st, prf, att>>
-----------------------------------------------------------------------------
Next ==
    \/ \E t \in Tasks :
          \/ \E a \in Amounts : SendMoneyStart(t, a)
          \/ SendMoneyTransfer(t)
          \/ SendMoneyInitiate(t)
          \/ AwaitValidationSend(t)
          \/ AwaitValidationReceive(t)
          \/ AwaitValidationTimeout(t)
          \/ SendMoneyRegister(t)
          \/ SendMoneyCommit(t)
    \/ \E v \in Validators, m \in msgs : ValidatorSign(v, m)
    \/ \E v \in Validators : \E tr \in signed[v] :
          handle_validation_event(v, tr)

Spec == Init /\ [][Next]_vars
-----------------------------------------------------------------------------
(***************************************************************************)
(* Properties.                                                             *)
(***************************************************************************)

\* The actor's ledger never runs ahead of the section's: it has registered
\* no more debits than the section, and once it has caught up its balance
\* is the section's.  Broken if send_money committed a debit locally that
\* the section did not register (lines 169-177), or committed one twice.
LocalLedgerNeverAhead ==
    /\ debitCtr <= netCtr
    /\ debitCtr = netCtr => balance = netBalance

\* A send_money call that returns Ok moved the caller's own transfer: its
\* signed transfer is registered at the section (spec 4.1, 8).
OkOnlyForOwnTransfer ==
    \A t \in Tasks : res[t] = "ok" => st[t] \in registered
=============================================================================
