------------------------ MODULE TransferLedgerProofs ------------------------
(***************************************************************************)
(* Proofs that the actor's ledger never runs ahead of the section's, and   *)
(* that TransferActor implements MoneyLedger, for every value of the       *)
(* constants.                                                              *)
(*                                                                         *)
(* A send_money commit debits the actor with the amount of the proof the   *)
(* task holds.  That is the amount the section registered at that counter *)
(* only because no two proofs share a counter: each proof was combined     *)
(* from a quorum of shares, two quorums share a validator, and a validator *)
(* signs one transfer per counter.  The race of send_money (two tasks      *)
(* building transfers at one counter) makes two candidate transfers; the  *)
(* quorum lets at most one of them become a proof.                         *)
(***************************************************************************)
EXTENDS TransferLedger, TransferActorProofs, FiniteSetTheorems

\* The section's history ends with its balance, and the actor's balance
\* is the section's balance after the debits the actor knows.
HistInv ==
    /\ Len(netHist) = netCtr + 1
    /\ netHist[netCtr + 1] = netBalance
    /\ debitCtr <= netCtr
    /\ balance = netHist[debitCtr + 1]

\* Every registered transfer is a proof and is the step of the history at
\* its counter; every counter the section passed has a registered transfer.
RegisteredInv ==
    /\ registered \subseteq proofs
    /\ \A r \in registered :
          /\ r.ctr < netCtr
          /\ netHist[r.ctr + 2] = netHist[r.ctr + 1] - r.amt
    /\ \A c \in 0..(netCtr - 1) : \E r \in registered : r.ctr = c

\* Every proof carries the shares of a quorum of validators.
QuorumSigned ==
    \A p \in proofs :
        \E S \in SUBSET Validators :
            /\ Cardinality(S) >= Quorum
            /\ \A v \in S : p \in signed[v]

\* A validator signs at most one transfer per counter.
OneSignPerCtr ==
    \A v \in Validators : \A s1, s2 \in signed[v] :
        s1.ctr = s2.ctr => s1 = s2

\* A task commits only after the section passed its proof's counter.
CommitAfterRegister ==
    \A t \in Tasks : pc[t] = "commit" => prf[t].ctr < netCtr

LInv ==
    /\ IInv
    /\ HistInv
    /\ RegisteredInv
    /\ QuorumSigned
    /\ OneSignPerCtr
    /\ CommitAfterRegister

\* The part of LInv beyond IInv.
LRest ==
    HistInv /\ RegisteredInv /\ QuorumSigned /\ OneSignPerCtr
    /\ CommitAfterRegister

USE ConstAssumption, NoneAssumption, QuorumAssumption
-----------------------------------------------------------------------------
\* Two proofs at one counter are the same transfer: their quorums share a
\* validator, who signed both.
LEMMA ProofsUnique ==
    ASSUME TypeOK, QuorumSigned, OneSignPerCtr,
           NEW p \in proofs, NEW q \in proofs, p.ctr = q.ctr
    PROVE  p = q
<1>1. PICK S \in SUBSET Validators :
          Cardinality(S) >= Quorum /\ \A v \in S : p \in signed[v]
  BY DEF QuorumSigned
<1>2. PICK T \in SUBSET Validators :
          Cardinality(T) >= Quorum /\ \A v \in T : q \in signed[v]
  BY DEF QuorumSigned
<1>3. Cardinality(S) \in Nat /\ Cardinality(T) \in Nat
      /\ Cardinality(Validators) \in Nat
  BY FS_Subset, FS_CardinalityType
<1>4. Cardinality(S) + Cardinality(T) > Cardinality(Validators)
  BY <1>1, <1>2, <1>3
<1>5. S \cap T # {}
  BY <1>4, FS_MajoritiesIntersect
<1>6. PICK v \in S \cap T : TRUE
  BY <1>5
<1>. QED BY <1>1, <1>2, <1>6 DEF OneSignPerCtr

LEMMA ValidatorSignRest ==
    ASSUME LInv, NEW v \in Validators, NEW m \in msgs, ValidatorSign(v, m)
    PROVE  LRest'
<1>. USE DEF ValidatorSign
<1>1. HistInv' /\ RegisteredInv' /\ CommitAfterRegister'
  BY DEF LInv, HistInv, RegisteredInv, CommitAfterRegister, actorVars,
         taskVars
<1>2. QuorumSigned'
  BY DEF LInv, QuorumSigned
<1>3. OneSignPerCtr'
  BY DEF LInv, OneSignPerCtr
<1>. QED BY <1>1, <1>2, <1>3 DEF LRest

LEMMA HandleRest ==
    ASSUME LInv, NEW v \in Validators, NEW tr \in signed[v],
           handle_validation_event(v, tr)
    PROVE  LRest'
<1>. USE DEF handle_validation_event
<1>1. HistInv' /\ OneSignPerCtr' /\ CommitAfterRegister'
  BY DEF LInv, HistInv, OneSignPerCtr, CommitAfterRegister, netVars, taskVars
<1>2. RegisteredInv'
  BY DEF LInv, RegisteredInv, netVars
<1>3. QuorumSigned'
  <2>1. CASE Cardinality(seen') >= Quorum /\ ~emitted
    <3>1. seen' \in SUBSET Validators /\ \A u \in seen' : open \in signed[u]
      BY DEF LInv, IInv, Core, TypeOK, ProofSigned
    <3>2. proofs' = proofs \cup {open}
      BY <2>1
    <3>. QED BY <2>1, <3>1, <3>2 DEF LInv, QuorumSigned, netVars
  <2>2. CASE ~(Cardinality(seen') >= Quorum /\ ~emitted)
    BY <2>2 DEF LInv, QuorumSigned, netVars
  <2>. QED BY <2>1, <2>2
<1>. QED BY <1>1, <1>2, <1>3 DEF LRest

\* Steps of a task that touch neither the section, the signatures nor the
\* proofs, and leave no task at "commit" that was not there.
LEMMA NetUnchangedRest ==
    ASSUME LInv, UNCHANGED <<netVars, proofs, prf>>,
           NEW t \in Tasks, pc' = [pc EXCEPT ![t] = pc'[t]], pc'[t] # "commit",
           HistInv'
    PROVE  LRest'
<1>1. RegisteredInv' /\ QuorumSigned' /\ OneSignPerCtr'
  BY DEF LInv, RegisteredInv, QuorumSigned, OneSignPerCtr, netVars
<1>2. CommitAfterRegister'
  BY DEF LInv, IInv, Core, TypeOK, CommitAfterRegister, netVars
<1>. QED BY <1>1, <1>2 DEF LRest

LEMMA StartRest ==
    ASSUME LInv, NEW t \in Tasks, NEW a \in Amounts, SendMoneyStart(t, a)
    PROVE  LRest'
<1>. USE DEF SendMoneyStart, Finish
<1>1. HistInv'
  <2>1. CASE UNCHANGED actorVars
    BY <2>1 DEF LInv, HistInv, actorVars, netVars
  <2>2. CASE SyncHistory /\ netCtr > debitCtr
    <3>1. balance' = netBalance /\ debitCtr' = netCtr
      BY <2>2 DEF SyncHistory
    <3>2. netCtr \in Nat /\ netHist' = netHist /\ netCtr' = netCtr
          /\ netBalance' = netBalance
      BY DEF LInv, IInv, Core, TypeOK, netVars
    <3>. QED BY <3>1, <3>2 DEF LInv, HistInv
  <2>3. CASE SyncHistory /\ ~(netCtr > debitCtr)
    BY <2>3 DEF SyncHistory, LInv, HistInv, actorVars, netVars
  <2>. QED BY <2>1, <2>2, <2>3
<1>2. pc'[t] # "commit" /\ pc' = [pc EXCEPT ![t] = pc'[t]]
  BY DEF LInv, IInv, Core, TypeOK
<1>3. UNCHANGED <<netVars, proofs, prf>>
  OBVIOUS
<1>. QED BY <1>1, <1>2, <1>3, NetUnchangedRest

LEMMA TransferRest ==
    ASSUME LInv, NEW t \in Tasks, SendMoneyTransfer(t)
    PROVE  LRest'
<1>. USE DEF SendMoneyTransfer, Finish
<1>1. HistInv'
  BY DEF LInv, HistInv, actorVars, netVars
<1>2. pc'[t] # "commit" /\ pc' = [pc EXCEPT ![t] = pc'[t]]
  BY DEF LInv, IInv, Core, TypeOK
<1>. QED BY <1>1, <1>2, NetUnchangedRest

LEMMA InitiateRest ==
    ASSUME LInv, NEW t \in Tasks, SendMoneyInitiate(t)
    PROVE  LRest'
<1>. USE DEF SendMoneyInitiate
<1>1. HistInv'
  BY DEF LInv, HistInv, netVars
<1>2. pc'[t] # "commit" /\ pc' = [pc EXCEPT ![t] = pc'[t]]
  BY DEF LInv, IInv, Core, TypeOK
<1>. QED BY <1>1, <1>2, NetUnchangedRest

LEMMA AwaitRest ==
    ASSUME LInv, NEW t \in Tasks,
           AwaitValidationSend(t) \/ AwaitValidationReceive(t)
             \/ AwaitValidationTimeout(t)
    PROVE  LRest'
<1>. USE DEF Finish
<1>1. CASE AwaitValidationSend(t)
  <2>1. RegisteredInv' /\ QuorumSigned' /\ OneSignPerCtr' /\ HistInv'
    BY <1>1 DEF AwaitValidationSend, LInv, HistInv, RegisteredInv,
                QuorumSigned, OneSignPerCtr, actorVars
  <2>2. CommitAfterRegister'
    BY <1>1 DEF AwaitValidationSend, LInv, IInv, Core, TypeOK,
                CommitAfterRegister
  <2>. QED BY <2>1, <2>2 DEF LRest
<1>2. CASE AwaitValidationReceive(t)
  <2>1. RegisteredInv' /\ QuorumSigned' /\ OneSignPerCtr' /\ HistInv'
    BY <1>2 DEF AwaitValidationReceive, LInv, HistInv, RegisteredInv,
                QuorumSigned, OneSignPerCtr, actorVars, netVars
  <2>2. CommitAfterRegister'
    BY <1>2 DEF AwaitValidationReceive, LInv, IInv, Core, TypeOK,
                CommitAfterRegister, netVars
  <2>. QED BY <2>1, <2>2 DEF LRest
<1>3. CASE AwaitValidationTimeout(t)
  <2>1. HistInv'
    BY <1>3 DEF AwaitValidationTimeout, LInv, HistInv, actorVars, netVars
  <2>2. pc'[t] # "commit" /\ pc' = [pc EXCEPT ![t] = pc'[t]]
    BY <1>3 DEF AwaitValidationTimeout, LInv, IInv, Core, TypeOK
  <2>3. UNCHANGED <<netVars, proofs, prf>>
    BY <1>3 DEF AwaitValidationTimeout
  <2>. QED BY <2>1, <2>2, <2>3, NetUnchangedRest
<1>. QED BY <1>1, <1>2, <1>3

\* The transfer a registering task holds is a proof at a counter the
\* section has not passed.
LEMMA HeldProof ==
    ASSUME LInv, NEW t \in Tasks, pc[t] \in {"register", "commit"}
    PROVE  /\ prf[t] \in proofs
           /\ prf[t] \in Transfer
           /\ prf[t].ctr <= netCtr
           /\ prf[t].ctr = netCtr => prf[t].amt <= netBalance
<1>1. prf[t] \in proofs /\ prf[t] \in Transfer
  BY DEF LInv, IInv, Core, ProofSigned, TypeOK
<1>2. PICK v \in Validators : prf[t] \in signed[v]
  BY <1>1 DEF LInv, IInv, Core, ProofSigned
<1>. QED BY <1>1, <1>2 DEF LInv, IInv, Core, SignedCovered, CoveredBy

LEMMA RegisterRest ==
    ASSUME LInv, NEW t \in Tasks, SendMoneyRegister(t)
    PROVE  LRest'
<1>. USE DEF SendMoneyRegister, Finish
<1>. DEFINE p == prf[t]
<1>1. /\ p \in proofs /\ p \in Transfer /\ p.ctr <= netCtr
      /\ p.ctr = netCtr => p.amt <= netBalance
  BY HeldProof
<1>2. pc' = [pc EXCEPT ![t] = pc'[t]] /\ UNCHANGED <<signed, msgs, proofs, prf>>
  BY DEF LInv, IInv, Core, TypeOK
<1>3. CASE UNCHANGED <<registered, netCtr, netBalance, netHist>>
       /\ pc'[t] = "idle"
  <2>1. HistInv' /\ UNCHANGED netVars
    BY <1>3 DEF LInv, HistInv, actorVars, netVars
  <2>. QED BY <1>2, <1>3, <2>1, NetUnchangedRest
<1>4. CASE NetRegister(p) /\ p.ctr # netCtr
  <2>1. UNCHANGED <<registered, netCtr, netBalance, netHist>>
    BY <1>4 DEF NetRegister
  <2>2. HistInv' /\ RegisteredInv' /\ QuorumSigned' /\ OneSignPerCtr'
    BY <2>1 DEF LInv, HistInv, RegisteredInv, QuorumSigned, OneSignPerCtr,
                actorVars
  <2>3. p.ctr < netCtr
    <3>1. p.ctr \in Nat /\ netCtr \in Nat
      BY <1>1 DEF Transfer, LInv, IInv, Core, TypeOK
    <3>. QED BY <1>1, <1>4, <3>1
  <2>4. CommitAfterRegister'
    BY <1>2, <2>1, <2>3 DEF LInv, IInv, Core, TypeOK, CommitAfterRegister
  <2>. QED BY <2>2, <2>4 DEF LRest
<1>5. CASE NetRegister(p) /\ p.ctr = netCtr
  <2>1. /\ registered' = registered \cup {p}
        /\ netCtr' = netCtr + 1
        /\ netBalance' = netBalance - p.amt
        /\ netHist' = Append(netHist, netBalance - p.amt)
    BY <1>5 DEF NetRegister
  <2>2. netCtr \in Nat /\ debitCtr \in Nat /\ netHist \in Seq(Nat)
        /\ UNCHANGED actorVars
    BY DEF LInv, IInv, Core, TypeOK, HistTypeOK
  <2>3. \A i \in 1..(netCtr + 1) : netHist'[i] = netHist[i]
    BY <2>1, <2>2 DEF LInv, HistInv
  <2>4. netHist'[netCtr + 2] = netBalance - p.amt /\ Len(netHist') = netCtr + 2
    BY <2>1, <2>2 DEF LInv, HistInv
  <2>5. HistInv'
    BY <2>1, <2>2, <2>3, <2>4 DEF LInv, HistInv, actorVars
  <2>6. RegisteredInv'
    <3>1. registered' \subseteq proofs'
      BY <1>1, <1>2, <2>1 DEF LInv, RegisteredInv
    <3>2. ASSUME NEW r \in registered
          PROVE  r.ctr < netCtr' /\ netHist'[r.ctr + 2] = netHist'[r.ctr + 1] - r.amt
      <4>1. r.ctr \in Nat /\ r.ctr < netCtr
        BY DEF LInv, RegisteredInv, IInv, Core, TypeOK, Transfer
      <4>2. r.ctr + 2 \in 1..(netCtr + 1) /\ r.ctr + 1 \in 1..(netCtr + 1)
        BY <2>2, <4>1
      <4>3. netHist'[r.ctr + 2] = netHist[r.ctr + 2]
            /\ netHist'[r.ctr + 1] = netHist[r.ctr + 1]
        BY <2>3, <4>2
      <4>4. netHist[r.ctr + 2] = netHist[r.ctr + 1] - r.amt
        BY DEF LInv, RegisteredInv
      <4>5. r.ctr < netCtr'
        BY <2>1, <2>2, <4>1
      <4>6. netHist'[r.ctr + 2] = netHist'[r.ctr + 1] - r.amt
        BY <4>3, <4>4, Zenon
      <4>. QED BY <4>5, <4>6
    <3>3. p.ctr < netCtr' /\ netHist'[p.ctr + 2] = netHist'[p.ctr + 1] - p.amt
      BY <1>5, <2>1, <2>2, <2>3, <2>4 DEF LInv, HistInv
    <3>4. \A c \in 0..(netCtr' - 1) : \E r \in registered' : r.ctr = c
      BY <1>5, <2>1, <2>2 DEF LInv, RegisteredInv
    <3>. QED BY <2>1, <3>1, <3>2, <3>3, <3>4 DEF RegisteredInv
  <2>7. QuorumSigned' /\ OneSignPerCtr'
    BY <1>2 DEF LInv, QuorumSigned, OneSignPerCtr
  <2>8. CommitAfterRegister'
    <3>1. \A u \in Tasks : pc[u] = "commit" => prf[u].ctr < netCtr
      BY DEF LInv, CommitAfterRegister
    <3>2. \A u \in Tasks : prf[u] \in Transfer \cup {None}
      BY DEF LInv, IInv, Core, TypeOK
    <3>3. ASSUME NEW u \in Tasks, pc'[u] = "commit" PROVE prf'[u].ctr < netCtr'
      <4>1. CASE u = t
        BY <1>1, <1>2, <1>5, <2>1, <2>2, <4>1 DEF Transfer
      <4>2. CASE u # t
        <5>1. pc[u] = "commit"
          BY <1>2, <3>3, <4>2 DEF LInv, IInv, Core, TypeOK
        <5>2. prf[u].ctr < netCtr /\ prf[u] \in Transfer
          BY <5>1 DEF LInv, IInv, Core, ProofSigned, TypeOK, CommitAfterRegister
        <5>3. prf[u].ctr \in Nat
          BY <5>2 DEF Transfer
        <5>. QED BY <1>2, <2>1, <2>2, <5>2, <5>3
      <4>. QED BY <4>1, <4>2
    <3>. QED BY <3>3 DEF CommitAfterRegister
  <2>. QED BY <2>5, <2>6, <2>7, <2>8 DEF LRest
<1>6. \/ UNCHANGED <<registered, netCtr, netBalance, netHist>> /\ pc'[t] = "idle"
      \/ NetRegister(p)
  BY DEF LInv, IInv, Core, TypeOK
<1>. QED BY <1>3, <1>4, <1>5, <1>6

\* A commit debits the actor with the amount the section registered at the
\* actor's counter: the registered transfer there and the task's proof are
\* both proofs at that counter, hence the same transfer.
LEMMA CommitStep ==
    ASSUME LInv, NEW t \in Tasks, pc[t] = "commit", CanRegister(prf[t])
    PROVE  /\ debitCtr < netCtr
           /\ netHist[debitCtr + 2] = balance - prf[t].amt
<1>. DEFINE p == prf[t]
<1>1. p \in proofs /\ p \in Transfer /\ p.ctr = debitCtr /\ p.ctr < netCtr
  BY HeldProof DEF CanRegister, LInv, CommitAfterRegister
<1>2. debitCtr \in 0..(netCtr - 1)
  BY <1>1 DEF LInv, IInv, Core, TypeOK
<1>3. PICK r \in registered : r.ctr = debitCtr
  BY <1>2 DEF LInv, RegisteredInv
<1>4. r = p
  <2>1. r \in proofs
    BY DEF LInv, RegisteredInv
  <2>. QED BY <1>1, <1>3, <2>1, ProofsUnique DEF LInv, IInv, Core
<1>5. netHist[debitCtr + 2] = netHist[debitCtr + 1] - p.amt
  BY <1>3, <1>4 DEF LInv, RegisteredInv
<1>. QED BY <1>1, <1>5 DEF LInv, HistInv

LEMMA CommitRest ==
    ASSUME LInv, NEW t \in Tasks, SendMoneyCommit(t)
    PROVE  LRest'
<1>. USE DEF SendMoneyCommit, Finish
<1>1. pc'[t] # "commit" /\ pc' = [pc EXCEPT ![t] = pc'[t]]
      /\ UNCHANGED <<netVars, proofs, prf>>
  BY DEF LInv, IInv, Core, TypeOK
<1>2. HistInv'
  <2>1. CASE CanRegister(prf[t])
    <3>1. balance' = balance - prf[t].amt /\ debitCtr' = debitCtr + 1
      BY <2>1 DEF ApplyRegistered
    <3>2. debitCtr < netCtr /\ netHist[debitCtr + 2] = balance - prf[t].amt
      BY <2>1, CommitStep
    <3>3. debitCtr \in Nat /\ netCtr \in Nat
      BY DEF LInv, IInv, Core, TypeOK
    <3>. QED BY <1>1, <3>1, <3>2, <3>3 DEF LInv, HistInv, netVars
  <2>2. CASE ~CanRegister(prf[t])
    BY <1>1, <2>2 DEF LInv, HistInv, actorVars, netVars
  <2>. QED BY <2>1, <2>2
<1>. QED BY <1>1, <1>2, NetUnchangedRest
-----------------------------------------------------------------------------
LEMMA InitLInv == Init => LInv
<1> SUFFICES ASSUME Init PROVE LInv
  OBVIOUS
<1>1. IInv
  BY InitIInv
<1>2. HistInv /\ RegisteredInv /\ CommitAfterRegister
  BY DEF Init, HistInv, RegisteredInv, CommitAfterRegister
<1>3. QuorumSigned /\ OneSignPerCtr
  BY DEF Init, QuorumSigned, OneSignPerCtr
<1>. QED BY <1>1, <1>2, <1>3 DEF LInv

LEMMA NextLInv == LInv /\ [Next]_vars => LInv'
<1> SUFFICES ASSUME LInv, [Next]_vars PROVE LRest'
  BY NextIInv DEF LInv, LRest
<1>1. ASSUME NEW t \in Tasks,
             \/ \E a \in Amounts : SendMoneyStart(t, a)
             \/ SendMoneyTransfer(t)
             \/ SendMoneyInitiate(t)
             \/ AwaitValidationSend(t)
             \/ AwaitValidationReceive(t)
             \/ AwaitValidationTimeout(t)
             \/ SendMoneyRegister(t)
             \/ SendMoneyCommit(t)
      PROVE  LRest'
  BY <1>1, StartRest, TransferRest, InitiateRest, AwaitRest, RegisterRest,
     CommitRest
<1>2. CASE \E v \in Validators, m \in msgs : ValidatorSign(v, m)
  BY <1>2, ValidatorSignRest
<1>3. CASE \E v \in Validators : \E tr \in signed[v] :
             handle_validation_event(v, tr)
  BY <1>3, HandleRest
<1>4. CASE UNCHANGED vars
  BY <1>4 DEF LInv, LRest, HistInv, RegisteredInv, QuorumSigned,
              OneSignPerCtr, CommitAfterRegister, vars, actorVars, netVars,
              taskVars
<1>. QED BY <1>1, <1>2, <1>3, <1>4 DEF Next

\* Whatever the number of tasks, validators and quorum, and however
\* send_money calls interleave with each other and with the shares the
\* listener feeds to handle_validation_event, the actor never registers
\* more debits than the section, and at the section's counter it has the
\* section's balance.  The commit of send_money (lines 171-177) debits the
\* amount of the task's own proof; the quorum in handle_validation_event
\* (lines 37-69) is what makes that amount the one the section registered.
THEOREM LedgerNeverAhead == Spec => []LocalLedgerNeverAhead
<1>1. LInv => LocalLedgerNeverAhead
  BY DEF LInv, HistInv, LocalLedgerNeverAhead
<1>. QED BY <1>1, InitLInv, NextLInv, PTL DEF Spec
-----------------------------------------------------------------------------
(***************************************************************************)
(* Refinement.  A registration at the section is a Debit, a commit is a    *)
(* Learn of one debit, get_history catching up is a Learn of all the debits *)
(* the actor missed; every other step leaves the mapped state unchanged.   *)
(***************************************************************************)
LedgerVars == <<netHist, balance, debitCtr>>

LEMMA RegisterRefines ==
    ASSUME LInv, NEW t \in Tasks, SendMoneyRegister(t)
    PROVE  [Ledger!Next]_LedgerVars
<1>. USE DEF SendMoneyRegister
<1>. DEFINE p == prf[t]
<1>1. CASE NetRegister(p) /\ p.ctr = netCtr
  <2>1. p \in Transfer /\ p.amt <= netBalance
    BY <1>1, HeldProof
  <2>2. p.amt \in Amounts
    BY <2>1 DEF Transfer
  <2>3. netHist[Len(netHist)] = netBalance
    BY DEF LInv, HistInv
  <2>4. Ledger!Debit(p.amt)
    BY <1>1, <2>1, <2>3 DEF Ledger!Debit, NetRegister, actorVars
  <2>. QED BY <2>2, <2>4 DEF Ledger!Next
<1>2. CASE ~(NetRegister(p) /\ p.ctr = netCtr)
  <2>1. UNCHANGED netHist
    BY <1>2 DEF NetRegister
  <2>. QED BY <2>1 DEF LedgerVars, actorVars
<1>. QED BY <1>1, <1>2

LEMMA CommitRefines ==
    ASSUME LInv, NEW t \in Tasks, SendMoneyCommit(t)
    PROVE  [Ledger!Next]_LedgerVars
<1>. USE DEF SendMoneyCommit
<1>1. CASE CanRegister(prf[t])
  <2>1. debitCtr < netCtr /\ netHist[debitCtr + 2] = balance - prf[t].amt
    BY <1>1, CommitStep
  <2>2. balance' = balance - prf[t].amt /\ debitCtr' = debitCtr + 1
    BY <1>1 DEF ApplyRegistered
  <2>3. Len(netHist) = netCtr + 1 /\ debitCtr \in Nat /\ netCtr \in Nat
    BY DEF LInv, HistInv, IInv, Core, TypeOK
  <2>4. Ledger!Learn(1)
    BY <2>1, <2>2, <2>3 DEF Ledger!Learn, netVars
  <2>5. 1 \in 1..(Len(netHist) - 1)
    BY <2>1, <2>3
  <2>. QED BY <2>4, <2>5 DEF Ledger!Next
<1>2. CASE ~CanRegister(prf[t])
  BY <1>2 DEF LedgerVars, actorVars, netVars
<1>. QED BY <1>1, <1>2

LEMMA StartRefines ==
    ASSUME LInv, NEW t \in Tasks, NEW a \in Amounts, SendMoneyStart(t, a)
    PROVE  [Ledger!Next]_LedgerVars
<1>. USE DEF SendMoneyStart
<1>1. CASE SyncHistory /\ netCtr > debitCtr
  <2>. DEFINE k == netCtr - debitCtr
  <2>1. balance' = netBalance /\ debitCtr' = netCtr
    BY <1>1 DEF SyncHistory
  <2>2. Len(netHist) = netCtr + 1 /\ netHist[netCtr + 1] = netBalance
        /\ debitCtr \in Nat /\ netCtr \in Nat
    BY DEF LInv, HistInv, IInv, Core, TypeOK
  <2>3. Ledger!Learn(k)
    BY <1>1, <2>1, <2>2 DEF Ledger!Learn, netVars
  <2>4. k \in 1..(Len(netHist) - 1)
    BY <1>1, <2>2
  <2>. QED BY <2>3, <2>4 DEF Ledger!Next
<1>2. CASE ~(SyncHistory /\ netCtr > debitCtr)
  <2>1. UNCHANGED actorVars
    BY <1>2 DEF SyncHistory
  <2>. QED BY <2>1 DEF LedgerVars, actorVars, netVars
<1>. QED BY <1>1, <1>2

LEMMA NextRefines == LInv /\ [Next]_vars => [Ledger!Next]_LedgerVars
<1> SUFFICES ASSUME LInv, [Next]_vars PROVE [Ledger!Next]_LedgerVars
  OBVIOUS
<1>1. CASE \E t \in Tasks : \E a \in Amounts : SendMoneyStart(t, a)
  BY <1>1, StartRefines
<1>2. CASE \E t \in Tasks : SendMoneyRegister(t)
  BY <1>2, RegisterRefines
<1>3. CASE \E t \in Tasks : SendMoneyCommit(t)
  BY <1>3, CommitRefines
<1>4. CASE \E t \in Tasks :
          \/ SendMoneyTransfer(t)
          \/ SendMoneyInitiate(t)
          \/ AwaitValidationSend(t)
          \/ AwaitValidationReceive(t)
          \/ AwaitValidationTimeout(t)
  BY <1>4 DEF SendMoneyTransfer, SendMoneyInitiate, AwaitValidationSend,
              AwaitValidationReceive, AwaitValidationTimeout, ApplyInitiated,
              LedgerVars, actorVars, netVars
<1>5. CASE \/ \E v \in Validators, m \in msgs : ValidatorSign(v, m)
           \/ \E v \in Validators : \E tr \in signed[v] :
                 handle_validation_event(v, tr)
           \/ UNCHANGED vars
  BY <1>5 DEF ValidatorSign, handle_validation_event, LedgerVars, actorVars,
              netVars, vars
<1>. QED BY <1>1, <1>2, <1>3, <1>4, <1>5 DEF Next

\* TransferActor implements MoneyLedger under the mapping of
\* TransferLedger: every debit the section registers from send_money's
\* RegisterTransfer (line 169) is covered by the balance before it, and
\* every change of the actor's balance and counter, by a commit (lines
\* 171-177) or by get_history (line 126), moves them to a balance the
\* section had at that counter.
THEOREM Refinement == Spec => LedgerRefinement
<1>1. Init => Ledger!Init
  BY DEF Init, Ledger!Init
<1>2. LInv /\ [Next]_vars => [Ledger!Next]_LedgerVars
  BY NextRefines
<1>. QED BY <1>1, <1>2, InitLInv, NextLInv, PTL
         DEF Spec, LedgerRefinement, Ledger!Spec, LedgerVars, Ledger!ledgerVars
=============================================================================
