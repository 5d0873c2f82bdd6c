------------------------ MODULE TransferActorProofs ------------------------
(***************************************************************************)
(* Proofs about TransferActor, for every value of the constants.           *)
(*                                                                         *)
(* TypeOK is not inductive: a debit subtracts an amount from a balance,    *)
(* and that stays a natural number only because                            *)
(*  - actor.transfer checked the amount against the balance when it built  *)
(*    the transfer, and the balance changes only when the debit counter    *)
(*    moves past that transfer (Covered);                                  *)
(*  - a validator signs a transfer only when the section's balance covers  *)
(*    it, and the section's balance changes only when its counter moves    *)
(*    past it (SignedCovered);                                             *)
(*  - every proof a task holds was signed by some validator (ProofSigned). *)
(***************************************************************************)
EXTENDS TransferActor, TLAPS

\* A transfer at counter c is covered by balance b if its amount is.
CoveredBy(x, c, b) == x.ctr <= c /\ (x.ctr = c => x.amt <= b)

\* Every transfer a task built, and the open one, are covered by the
\* actor's balance at the actor's counter.
Covered ==
    /\ open # None => CoveredBy(open, debitCtr, balance)
    /\ \A t \in Tasks : st[t] # None => CoveredBy(st[t], debitCtr, balance)

\* Every transfer a validator signed is covered by the section's balance.
SignedCovered ==
    \A v \in Validators : \A s \in signed[v] : CoveredBy(s, netCtr, netBalance)

\* Every proof was signed by a validator; so was every accumulated share.
ProofSigned ==
    /\ \A p \in proofs : \E v \in Validators : p \in signed[v]
    /\ \A v \in seen : open # None /\ open \in signed[v]
    /\ \A t \in Tasks : pc[t] \in {"register", "commit"} => prf[t] \in proofs

\* A task past actor.transfer holds the transfer it built.
Staged ==
    \A t \in Tasks :
        pc[t] \in {"initiate", "validate", "await", "register", "commit"}
            => st[t] # None

Core == TypeOK /\ Covered /\ SignedCovered /\ ProofSigned

IInv == Core /\ Staged

USE ConstAssumption, NoneAssumption, QuorumAssumption
-----------------------------------------------------------------------------
LEMMA InitIInv == Init => IInv
<1> SUFFICES ASSUME Init PROVE IInv
  OBVIOUS
<1>1. (CHOOSE a \in Amounts : TRUE) \in Amounts
  OBVIOUS
<1>4. HistTypeOK
  BY DEF Init, HistTypeOK
<1>2. TypeOK
  BY <1>1, <1>4 DEF Init, TypeOK, PC, Result
<1>3. Covered /\ SignedCovered /\ ProofSigned /\ Staged
  BY DEF Init, Covered, SignedCovered, ProofSigned, Staged
<1>. QED BY <1>2, <1>3 DEF IInv, Core

LEMMA StutterIInv == IInv /\ UNCHANGED vars => Core'
BY DEF IInv, Core, Staged, HistTypeOK, TypeOK, Covered, SignedCovered, ProofSigned, CoveredBy, vars,
       actorVars, netVars, taskVars

LEMMA ValidatorSignIInv ==
    ASSUME IInv, NEW v \in Validators, NEW m \in msgs, ValidatorSign(v, m), HistTypeOK'
    PROVE  Core'
<1>1. TypeOK'
  BY DEF IInv, Core, TypeOK, ValidatorSign, actorVars, taskVars
<1>2. SignedCovered'
  BY DEF IInv, Core, TypeOK, SignedCovered, ValidatorSign, CoveredBy
<1>3. ProofSigned'
  BY DEF IInv, Core, TypeOK, ProofSigned, ValidatorSign, actorVars, taskVars
<1>4. Covered'
  BY DEF IInv, Core, Covered, ValidatorSign, actorVars, taskVars
<1>. QED BY <1>1, <1>2, <1>3, <1>4 DEF IInv, Core
LEMMA HandleIInv ==
    ASSUME IInv, NEW v \in Validators, NEW tr \in signed[v],
           handle_validation_event(v, tr), HistTypeOK'
    PROVE  Core'
<1>1. TypeOK'
  BY DEF IInv, Core, TypeOK, handle_validation_event, netVars, taskVars
<1>2. ProofSigned'
  BY DEF IInv, Core, TypeOK, ProofSigned, handle_validation_event, netVars,
         taskVars
<1>3. Covered' /\ SignedCovered'
  BY DEF IInv, Core, Covered, SignedCovered, handle_validation_event, netVars,
         taskVars
<1>. QED BY <1>1, <1>2, <1>3 DEF IInv, Core

LEMMA StartIInv ==
    ASSUME IInv, NEW t \in Tasks, NEW a \in Amounts, SendMoneyStart(t, a), HistTypeOK'
    PROVE  Core'
<1>. USE DEF SendMoneyStart, Finish
<1>1. CASE UNCHANGED actorVars
  BY <1>1 DEF IInv, Core, TypeOK, Covered, SignedCovered, ProofSigned, CoveredBy,
              actorVars, netVars, PC, Result
<1>2. CASE SyncHistory /\ netCtr > debitCtr
  <2>1. balance' = netBalance /\ debitCtr' = netCtr
    BY <1>2 DEF SyncHistory
  <2>2. open' = None /\ seen' = {}
    <3>1. CASE open = None
      <4>1. seen = {}
        BY <3>1 DEF IInv, Core, ProofSigned
      <4>. QED BY <1>2, <3>1, <4>1 DEF SyncHistory
    <3>2. CASE open # None
      <4>1. open.ctr < netCtr
        BY <1>2, <3>2 DEF IInv, Core, TypeOK, Covered, CoveredBy, Transfer
      <4>. QED BY <1>2, <3>2, <4>1 DEF SyncHistory
    <3>. QED BY <3>1, <3>2
  <2>3. emitted' \in BOOLEAN
    BY <1>2 DEF SyncHistory, IInv, Core, TypeOK
  <2>4. pc' \in [Tasks -> PC] /\ res' \in [Tasks -> Result]
    BY DEF IInv, Core, TypeOK, PC, Result
  <2>5. TypeOK'
    BY <2>1, <2>2, <2>3, <2>4 DEF IInv, Core, TypeOK, netVars
  <2>6. Covered'
    <3>1. \A u \in Tasks : st[u] # None => st[u].ctr < netCtr
      BY <1>2 DEF IInv, Core, TypeOK, Covered, CoveredBy, Transfer
    <3>. QED BY <2>1, <2>2, <3>1 DEF IInv, Core, TypeOK, Transfer, Covered,
                                     CoveredBy
  <2>7. SignedCovered' /\ ProofSigned'
    BY <2>2 DEF IInv, Core, TypeOK, SignedCovered, ProofSigned, netVars
  <2>. QED BY <2>5, <2>6, <2>7 DEF IInv, Core
<1>3. CASE SyncHistory /\ ~(netCtr > debitCtr)
  <2>1. UNCHANGED actorVars
    BY <1>3 DEF SyncHistory
  <2>. QED
    BY <1>3, <2>1 DEF IInv, Core, TypeOK, Covered, SignedCovered, ProofSigned,
                      CoveredBy, actorVars, netVars, PC, Result
<1>. QED BY <1>1, <1>2, <1>3

LEMMA TransferIInv ==
    ASSUME IInv, NEW t \in Tasks, SendMoneyTransfer(t), HistTypeOK'
    PROVE  Core'
<1>. USE DEF SendMoneyTransfer, Finish
<1>1. CASE TransferRefused(amount[t])
  BY <1>1 DEF IInv, Core, TypeOK, Covered, SignedCovered, ProofSigned,
              actorVars, netVars, PC, Result
<1>2. CASE ~TransferRefused(amount[t])
  <2>1. amount[t] <= balance
    <3>1. amount[t] \in Nat /\ balance \in Nat
      BY DEF IInv, Core, TypeOK
    <3>2. ~(amount[t] > balance)
      BY <1>2 DEF TransferRefused
    <3>. QED BY <3>1, <3>2
  <2>2. [ctr |-> debitCtr, amt |-> amount[t], by |-> t, att |-> att[t]]
           \in Transfer
    BY DEF IInv, Core, TypeOK, Transfer
  <2>3. TypeOK'
    BY <1>2, <2>2 DEF IInv, Core, TypeOK, actorVars, netVars, PC
  <2>4. Covered'
    BY <1>2, <2>1 DEF IInv, Core, TypeOK, Covered, CoveredBy, actorVars
  <2>5. SignedCovered' /\ ProofSigned'
    BY <1>2 DEF IInv, Core, TypeOK, SignedCovered, ProofSigned, actorVars, netVars
  <2>. QED BY <2>3, <2>4, <2>5 DEF IInv, Core
<1>. QED BY <1>1, <1>2

LEMMA InitiateIInv ==
    ASSUME IInv, NEW t \in Tasks, SendMoneyInitiate(t), HistTypeOK'
    PROVE  Core'
<1>. USE DEF SendMoneyInitiate, ApplyInitiated
<1>. QED
  BY DEF IInv, Core, TypeOK, Covered, SignedCovered, ProofSigned, netVars, PC

LEMMA AwaitIInv ==
    ASSUME IInv, NEW t \in Tasks,
           AwaitValidationSend(t) \/ AwaitValidationReceive(t)
             \/ AwaitValidationTimeout(t), HistTypeOK'
    PROVE  Core'
<1>. USE DEF Finish
<1>1. CASE AwaitValidationSend(t)
  <2>1. st[t] \in Transfer
    BY <1>1 DEF AwaitValidationSend, IInv, Core, TypeOK, Staged
  <2>. QED
    BY <1>1, <2>1 DEF AwaitValidationSend, IInv, Core, TypeOK, Covered,
                      SignedCovered, ProofSigned, actorVars, PC, Result
<1>2. CASE AwaitValidationReceive(t)
  BY <1>2 DEF AwaitValidationReceive, IInv, Core, TypeOK, Covered, SignedCovered,
              ProofSigned, actorVars, netVars, PC
<1>3. CASE AwaitValidationTimeout(t)
  BY <1>3 DEF AwaitValidationTimeout, IInv, Core, TypeOK, Covered, SignedCovered,
              ProofSigned, actorVars, netVars, PC, Result
<1>. QED BY <1>1, <1>2, <1>3

LEMMA RegisterIInv ==
    ASSUME IInv, NEW t \in Tasks, SendMoneyRegister(t), HistTypeOK'
    PROVE  Core'
<1>. USE DEF SendMoneyRegister, Finish
<1>1. UNCHANGED <<registered, netCtr, netBalance, netHist>> \/ NetRegister(prf[t])
  OBVIOUS
<1>2. SignedCovered' /\ netBalance' \in Nat /\ netCtr' \in Nat
      /\ registered' \subseteq Transfer
  <2>1. CASE UNCHANGED <<registered, netCtr, netBalance, netHist>>
    BY <2>1 DEF IInv, Core, TypeOK, SignedCovered
  <2>2. CASE NetRegister(prf[t]) /\ prf[t].ctr = netCtr
    <3>1. prf[t] \in proofs
      BY DEF IInv, Core, ProofSigned
    <3>2. PICK v \in Validators : prf[t] \in signed[v]
      BY <3>1 DEF IInv, Core, ProofSigned
    <3>3. prf[t] \in Transfer /\ prf[t].amt <= netBalance
      BY <2>2, <3>2 DEF IInv, Core, TypeOK, SignedCovered, CoveredBy
    <3>4. prf[t].amt \in Nat
      BY <3>3 DEF Transfer
    <3>. QED
      BY <2>2, <3>3, <3>4 DEF NetRegister, IInv, Core, TypeOK, SignedCovered,
                              CoveredBy, Transfer
  <2>3. CASE NetRegister(prf[t]) /\ prf[t].ctr # netCtr
    BY <2>3 DEF NetRegister, IInv, Core, TypeOK, SignedCovered
  <2>. QED BY <1>1, <2>1, <2>2, <2>3
<1>3. TypeOK'
  BY <1>2 DEF IInv, Core, TypeOK, actorVars, PC, Result
<1>4. Covered' /\ ProofSigned'
  BY DEF IInv, Core, TypeOK, Covered, ProofSigned, actorVars
<1>. QED BY <1>2, <1>3, <1>4 DEF IInv, Core

LEMMA CommitIInv ==
    ASSUME IInv, NEW t \in Tasks, SendMoneyCommit(t), HistTypeOK'
    PROVE  Core'
<1>. USE DEF SendMoneyCommit, Finish
<1>1. CASE CanRegister(prf[t])
  <2>1. open = prf[t] /\ open # None /\ open.ctr = debitCtr
    BY <1>1 DEF CanRegister, IInv, Core, ProofSigned, TypeOK, NoneAssumption
  <2>2. open \in Transfer /\ open.amt <= balance
    BY <2>1 DEF IInv, Core, TypeOK, Covered, CoveredBy
  <2>3. balance' = balance - open.amt /\ debitCtr' = debitCtr + 1
        /\ open' = None /\ seen' = {} /\ emitted' = FALSE
    BY <1>1, <2>1 DEF ApplyRegistered
  <2>4. balance' \in Nat /\ debitCtr' \in Nat
    <3>1. open.amt \in Nat /\ balance \in Nat /\ debitCtr \in Nat
      BY <2>2 DEF IInv, Core, TypeOK, Transfer
    <3>. QED BY <2>2, <2>3, <3>1
  <2>7. TypeOK'
    BY <2>3, <2>4 DEF IInv, Core, TypeOK, netVars, PC, Result
  <2>5. Covered'
    BY <2>3 DEF IInv, Core, TypeOK, Covered, CoveredBy, Transfer
  <2>6. SignedCovered' /\ ProofSigned'
    BY <2>3 DEF IInv, Core, TypeOK, SignedCovered, ProofSigned, netVars
  <2>. QED BY <2>7, <2>5, <2>6 DEF IInv, Core
<1>2. CASE ~CanRegister(prf[t])
  BY <1>2 DEF IInv, Core, TypeOK, Covered, SignedCovered, ProofSigned, actorVars,
              netVars, PC, Result
<1>. QED BY <1>1, <1>2

LEMMA HistTypeStep ==
    ASSUME IInv, [Next]_vars
    PROVE  HistTypeOK'
<1>1. netHist \in Seq(Nat) /\ netBalance \in Nat
  BY DEF IInv, Core, TypeOK, HistTypeOK
<1>2. CASE \E t \in Tasks : SendMoneyRegister(t) /\ NetRegister(prf[t])
  <2>1. PICK t \in Tasks : SendMoneyRegister(t) /\ NetRegister(prf[t])
    BY <1>2
  <2>2. CASE prf[t].ctr = netCtr
    <3>1. prf[t] \in proofs /\ prf[t] \in Transfer
      BY <2>1 DEF SendMoneyRegister, IInv, Core, ProofSigned, TypeOK
    <3>2. PICK v \in Validators : prf[t] \in signed[v]
      BY <3>1 DEF IInv, Core, ProofSigned
    <3>3. prf[t].amt <= netBalance /\ prf[t].amt \in Nat
      BY <2>2, <3>1, <3>2 DEF IInv, Core, SignedCovered, CoveredBy, Transfer
    <3>4. netBalance - prf[t].amt \in Nat
      BY <1>1, <3>3
    <3>. QED BY <1>1, <2>1, <2>2, <3>4 DEF NetRegister, HistTypeOK
  <2>3. CASE prf[t].ctr # netCtr
    BY <1>1, <2>1, <2>3 DEF NetRegister, HistTypeOK
  <2>. QED BY <2>2, <2>3
<1>3. CASE ~\E t \in Tasks : SendMoneyRegister(t) /\ NetRegister(prf[t])
  <2>1. netHist' = netHist
    BY <1>3 DEF Next, vars, netVars, SendMoneyStart, SendMoneyTransfer,
                SendMoneyInitiate, AwaitValidationSend, AwaitValidationReceive,
                AwaitValidationTimeout, SendMoneyRegister, SendMoneyCommit,
                ValidatorSign, handle_validation_event
  <2>. QED BY <1>1, <2>1 DEF HistTypeOK
<1>. QED BY <1>2, <1>3

LEMMA StagedStep ==
    ASSUME IInv, [Next]_vars
    PROVE  Staged'
<1>. DEFINE Busy == {"initiate", "validate", "await", "register", "commit"}
<1>1. CASE \E t \in Tasks :
          \/ \E a \in Amounts : SendMoneyStart(t, a)
          \/ SendMoneyTransfer(t)
          \/ SendMoneyInitiate(t)
          \/ AwaitValidationSend(t)
          \/ AwaitValidationReceive(t)
          \/ AwaitValidationTimeout(t)
          \/ SendMoneyRegister(t)
          \/ SendMoneyCommit(t)
  <2>1. PICK t \in Tasks :
          \/ \E a \in Amounts : SendMoneyStart(t, a)
          \/ SendMoneyTransfer(t)
          \/ SendMoneyInitiate(t)
          \/ AwaitValidationSend(t)
          \/ AwaitValidationReceive(t)
          \/ AwaitValidationTimeout(t)
          \/ SendMoneyRegister(t)
          \/ SendMoneyCommit(t)
    BY <1>1
  <2>2. \A u \in Tasks \ {t} : pc'[u] = pc[u] /\ st'[u] = st[u]
    BY <2>1 DEF SendMoneyStart, SendMoneyTransfer, SendMoneyInitiate,
                AwaitValidationSend, AwaitValidationReceive,
                AwaitValidationTimeout, SendMoneyRegister, SendMoneyCommit,
                Finish, IInv, Core, TypeOK
  <2>3. pc'[t] \in Busy => st'[t] # None
    BY <2>1 DEF SendMoneyStart, SendMoneyTransfer, SendMoneyInitiate,
                AwaitValidationSend, AwaitValidationReceive,
                AwaitValidationTimeout, SendMoneyRegister, SendMoneyCommit,
                Finish, IInv, Core, TypeOK, Staged, NoneAssumption, Transfer
  <2>. QED BY <2>2, <2>3 DEF IInv, Core, Staged
<1>2. CASE \/ \E v \in Validators, m \in msgs : ValidatorSign(v, m)
           \/ \E v \in Validators : \E tr \in signed[v] :
                 handle_validation_event(v, tr)
           \/ UNCHANGED vars
  BY <1>2 DEF ValidatorSign, handle_validation_event, IInv, Core, Staged,
              taskVars, vars
<1>. QED BY <1>1, <1>2 DEF Next

LEMMA NextIInv == IInv /\ [Next]_vars => IInv'
<1> SUFFICES ASSUME IInv, [Next]_vars, HistTypeOK' PROVE Core'
  BY StagedStep, HistTypeStep DEF IInv, Core
<1>1. CASE \E t \in Tasks :
          \/ \E a \in Amounts : SendMoneyStart(t, a)
          \/ SendMoneyTransfer(t)
          \/ SendMoneyInitiate(t)
          \/ AwaitValidationSend(t)
          \/ AwaitValidationReceive(t)
          \/ AwaitValidationTimeout(t)
          \/ SendMoneyRegister(t)
          \/ SendMoneyCommit(t)
  BY <1>1, StartIInv, TransferIInv, InitiateIInv, AwaitIInv, RegisterIInv,
     CommitIInv
<1>2. CASE \E v \in Validators, m \in msgs : ValidatorSign(v, m)
  BY <1>2, ValidatorSignIInv
<1>3. CASE \E v \in Validators : \E tr \in signed[v] :
             handle_validation_event(v, tr)
  BY <1>3, HandleIInv
<1>4. CASE UNCHANGED vars
  BY <1>4, StutterIInv
<1>. QED BY <1>1, <1>2, <1>3, <1>4 DEF Next

\* The type invariant holds in every reachable state, whatever the number
\* of tasks, validators, quorum size, amounts and balance: in particular
\* the actor's and the section's balances never go below zero, because
\* send_money's commit (lines 171-177) only debits a transfer that
\* actor.transfer checked against the balance (lines 133-139) at the same
\* debit counter, and the section only registers a transfer a validator
\* checked.
THEOREM TypeCorrect == Spec => []TypeOK
<1>1. Init => IInv
  BY InitIInv
<1>2. IInv /\ [Next]_vars => IInv'
  BY NextIInv
<1>3. IInv => TypeOK
  BY DEF IInv, Core
<1>. QED BY <1>1, <1>2, <1>3, PTL DEF Spec

=============================================================================
