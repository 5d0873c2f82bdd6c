# Formal models of the safe-client-libs client core

This directory holds TLA+ models of two parts of the client library: the
money-transfer path (`src/src/client/transfer_actor/balance_management.rs`)
and the sequence write/cache path (`src/src/client/sequence_apis.rs`). It
also holds the TLC configurations that model-check them and TLAPS proofs.
`PROJECT.json` lists the components, the runs, the mutants, the
definition-to-source map, the findings, the hazards and the theorems.

## 1. Inventory

### Components and how they interact

| Component | Source | State | Operations |
|---|---|---|---|
| Transfer Coordinator | `send_money` (balance_management.rs 122-180) | per call: the transfer it built, the proof it awaits | get_history, actor.transfer, apply(TransferInitiated), await_validation, RegisterTransfer, actor.register + apply |
| Validation Aggregator | `handle_validation_event` (37-69) | the actor's shares for the open transfer, "proof emitted" | receive a share; at quorum, emit the proof once |
| Ledger State | `safe_transfers::Actor`, not in this repository | balance, debit counter, open transfer | transfer, receive, register, apply |
| Balance queries | `get_local_balance` (31-34), `get_balance_from_network` (72-88) | none (read only) | read |
| Write Coordinator | sequence_apis.rs: store_* (75-167), delete (204-218), append (252-277), set owner (534-600), set permissions (608-652, 717-779) | per call: the snapshot and the op | resolve, check permission, build op, cache put, pay, send, book payment |
| Replica Cache | `sequence_cache`, `get_sequence` (356-386), read accessors (425-494, 555-568, 656-714) | address -> last snapshot | get (hit / miss+fill / error), put |
| Payment helpers | `create_write_payment_proof`, `apply_write_payment_to_local_actor`, not in this repository | the local spent balance | pay, book |

All these components live in one `Client`. Clones of a `Client` share the
`transfer_actor` mutex and the `sequence_cache` mutex, and run as concurrent
async tasks. The connection's listener calls `handle_validation_event` for
each validator share that arrives. Sequence writes pay through the payment
helpers, which use the same actor.

### Hard behaviours

- `send_money` takes the actor lock four separate times (lines 130, 135,
  150 and 171). Other tasks' critical sections can run between these steps.
- Every network send has three outcomes: it is lost (Err), it is delivered
  (Ok), or it is delivered and its acknowledgement is lost (Err).
- Validator shares arrive late, duplicated, or for a transfer that was
  replaced. `await_validation` can time out.
- The cache is never invalidated. Another user's writes make it stale. The
  client writes to the cache before it pays and before it sends.
- A payment can be refused because the balance is exhausted.

## 2. Modules

| Module | Models | Properties |
|---|---|---|
| `TransferActor` | send_money, handle_validation_event, with the actor, the validators and the section's ledger from the spec | `TypeOK`, `LocalLedgerNeverAhead`, `OkOnlyForOwnTransfer` |
| `MCTransferActor` | model-checking instance of TransferActor | |
| `TransferActorProofs` | TLAPS proof of `TypeOK` | theorem `TypeCorrect` |
| `MoneyLedger` | what the transfer protocol promises, abstractly: a history of covered debits and an actor that learns a prefix of it | |
| `TransferLedger` | TransferActor mapped onto MoneyLedger | `LedgerRefinement` |
| `MCTransferLedger` | model-checking instance of TransferLedger | |
| `TransferLedgerProofs` | TLAPS proofs of `LocalLedgerNeverAhead` and of the refinement | theorems `LedgerNeverAhead`, `Refinement` |
| `SequenceClient` | the write coordinator, the cache, the read accessors, the network's copy and a remote writer | `TypeOK`, `LocalPaymentNeverAhead`, `DeletedNotCached`, `FailedWriteNotCached` |
| `MCSequenceClient` | model-checking instance of SequenceClient | |
| `SequenceClientProofs` | TLAPS proofs of `TypeOK` and `LocalPaymentNeverAhead` | theorems `SeqTypeCorrect`, `SeqPaymentNeverAhead` |

### TransferActor

The module's state is split in three groups.

- **The actor** (the mutex-protected Ledger State): `balance`, `debitCtr`,
  `open` (the transfer that is initiated and not yet registered), `seen`
  and `emitted`.
- **The network**: `netBalance`, `netCtr`, `netHist` (the section's
  balance after each registered debit: what get_history returns),
  `registered`, `signed[v]` (what
  validator `v` validated), `msgs` (ValidateTransfer commands that were
  delivered) and `proofs`.
- **Each task**: `pc`, `amount`, `st` (the transfer it built), `prf` (the
  proof it holds), `res` and `att`.

There is one action per lock-delimited step of `send_money`:

| Action | Lines | What it does |
|---|---|---|
| `SendMoneyStart` | 126 | get_history, which fails or syncs the actor with the network |
| `SendMoneyTransfer` | 133-139 | actor.transfer |
| `SendMoneyInitiate` | 149-154 | apply(TransferInitiated) |
| `AwaitValidationSend`, `AwaitValidationReceive`, `AwaitValidationTimeout` | 156-158 | send the transfer for validation, receive a proof, or time out |
| `SendMoneyRegister` | 169 | send RegisterTransfer |
| `SendMoneyCommit` | 171-177 | actor.register and apply |

`handle_validation_event` is one action. `ValidatorSign` is the
environment. A validator signs at most one transfer per counter, and only
one that the section's balance covers. `Quorum` is a majority.

The actor's methods follow spec 4.1, 4.2 and 5:

- `transfer` refuses an amount above the balance. It also refuses while
  another transfer is open.
- `register` accepts only the proof of the open transfer at the current
  counter.

### MoneyLedger and the refinement

`MoneyLedger` has three variables. `hist` is the section's history of
balances, `lctr` is the number of debits the actor knows, and `lbal` is the
actor's balance. `Debit(a)` appends a debit that the last balance covers.
`Learn(k)` moves the actor `k` debits forward, to the balance the history
has there. `TransferLedger` maps `hist <- netHist`, `lbal <- balance` and
`lctr <- debitCtr`:

- a registration at the section (`NetRegister` inside `SendMoneyRegister`)
  is a `Debit`;
- a commit (`SendMoneyCommit`) is `Learn(1)`;
- get_history catching up (`SyncHistory` in `SendMoneyStart`) is
  `Learn(netCtr - debitCtr)`;
- every other step leaves the mapped state unchanged.

The abstract spec does not mention tasks, locks, shares or proofs. A
committed debit must be exactly the debit the section registered at that
counter, with its amount. The race of finding 1 does not break this: the
quorum lets at most one of the two competing transfers become a proof.

### SequenceClient

A sequence is abstracted to a record: flavour, entries, owner, who may
Append and who may ManagePermissions. `net` is the network's copy.
`cache` is `sequence_cache`. `localSpent` and `netSpent` count the writes
that were booked locally and charged by the network. Each task has a stage
`pc`, its call `op`, the snapshot `snap` get_sequence gave it, its result
and its number of calls.

A call goes through the following steps, one action each:

| Action | Lines | What it does |
|---|---|---|
| `Call` | 75-94, 141-158, 204 | start a call; a create builds its sequence locally and a delete goes straight to payment |
| `CallWithOp` | 534-551, 608-652 | `set_sequence_owner(op)`, `edit_sequence_*_perms(op)` called with an op the caller built: straight to payment |
| `get_sequence` | 356-375 | cache hit, or on a miss (lock released) the network query, which can fail |
| `get_sequence_put` | 377-386 | the answer put in the cache under a new lock hold; then a read accessor ends the call |
| `append_to_sequence`, `sequence_set_owner`, `sequence_set_pub_permissions`, `sequence_set_private_permissions` | 252-277, 572-600, 718-747, 750-779 | local permission (and flavour) check, then the op applied and put in the cache, before payment (`PrepareWrite`) |
| `Pay` | 302-309 | `create_write_payment_proof`: refused when the booked payments cover the funds; its validation can fail |
| `Send` | 311-316 | `send_cmd`: lost, delivered, or delivered with the acknowledgement lost |
| `Settle` | 318 | `apply_write_payment_to_local_actor`: books the payment, or fails and the call returns its error |
| `StorePut` | 96-101, 161-164 | a create puts its sequence in the cache under its own lock hold |

The read accessors (`get_sequence_last_entry`, `_range`, `_owner`,
`_pub_permissions`, `_private_permissions`) end the call after
get_sequence, failing on an empty sequence, an index past the end or the
other flavour (`ReadFails`). The network re-checks permissions, charges
for every write it receives, and rejects the delete of a public sequence.
Following spec 6, `send_cmd` reports only transport errors. `RemoteWrite`
is another user writing directly to the network.

The payment helpers are not in this repository and are modelled from spec
4.4 with nothing serialising two tasks' payments: the balance check in
`Pay` only sees the payments booked so far. Two tasks can both pass it
before either books, so `localSpent` can exceed `Funds` in the model. The
spec's one-transfer-in-flight rule belongs to the transfer actor, which
this module does not include; no property here relies on it.

## 3. Runs

| Run | Config | Expect | Shows |
|---|---|---|---|
| transfer_safety | `TransferActor.cfg` | pass (40168 states) | The local ledger is never ahead of the section's: `debitCtr <= netCtr`, and at equal counters the balances agree. This holds under races, lost commands and lost acks. Balances never go negative. |
| transfer_race | `TransferRace.cfg` | violation | A task returns Ok although the section registered another task's transfer. |
| transfer_refinement | `TransferLedger.cfg` | pass (4.4M states, ~1 min) | `Spec` implements `MoneyLedger` (`LedgerRefinement`). |
| sequence_safety | `SequenceClient.cfg` | pass (8.0M states, ~2 min) | Two tasks write, read and pay concurrently with a remote writer: a write payment is never booked locally before the network charged it (`LocalPaymentNeverAhead`), whatever the order of the tasks' sends and bookings and whatever is lost. |
| seq_delete_cache | `SeqDeletedNotCached.cfg` | violation | After a successful delete, the cache still serves the sequence. |
| seq_early_cache | `SeqFailedWriteNotCached.cfg` | violation | A failed append stays in the cache. |

Every property of a passing run has a mutant in `PROJECT.json`: a plausible
bug in the mapped code that TLC must catch. For example,
`LocalPaymentNeverAhead` fails when `Send` ignores the send's error and
books the payment anyway (`SendIgnoringError`). `LedgerRefinement` fails when the proof is combined one share short of the
quorum (`HandleValidationEarly`): two transfers at one counter can then
both get proofs, and a commit debits an amount the section never
registered.

### Bounds

- **Transfers.** There are two tasks, which is the least for the race, and
  three validators with a quorum of two, so a quorum can form with one
  validator silent. The amounts are {0, 1, 2} against a balance of 2, so
  zero, an exact spend and a refusal all occur. `MaxAttempts` is 1, and it
  is 2 for the proof's inductive invariant check.
- **Refinement.** There are two tasks with two calls each, which is enough
  for a call to retry after a timeout while the other call's transfer is
  open. The amounts are {0, 1} against a balance of 1, which keeps the run
  near a minute. The theorem `Refinement` covers every other instance.
- **Sequences.** `SequenceClient.cfg` has two tasks, which is the least
  for two payments, a fill and a write put to interleave, with two calls
  each, one address, one remote write, and funds for one write, so both
  tasks can pass the balance check for the last write. The only
  permission set is {Other}, which keeps the run near two minutes: a
  sequence created with `Other` as owner denies every write of `Me`, one
  with `Me` as owner allows it, so both outcomes of every local check
  occur; the remote user, granted everywhere, can change either. The violation cfgs have one task, three
  calls, funds for two writes and the permission sets {Me} and {Other},
  so a revocation by the other user and a failed write both occur.

Runs stop when the bounds are reached. This is why the cfgs say
`CHECK_DEADLOCK FALSE`.

### Fairness and liveness

No run assumes fairness and no liveness property is checked. Whether a
`send_money` call returns rests on the timeout of `await_validation`,
which is not in this repository (spec 5); a termination property would
only restate that assumption.

## 4. Findings

1. **Race in `send_money`** (lines 133-154, spec 5). The counter is read
   and the transfer initiated under two separate lock holds. Two concurrent
   calls therefore build transfers at the same debit counter. The second
   initiation replaces the first, and the first call returns Ok for the
   second call's proof.
2. **`delete_sequence` does not evict the cache** (line 217). A later
   `get_sequence` returns the deleted sequence from the cache. The test
   `sequence_can_delete_private_test` (line 1102) and spec 4.3/4.4 expect
   NoSuchData.
3. **Cache written before payment** (lines 270, 592, 738, 771). When the
   payment or the send fails, the write stays in the cache. Spec 4.4 step 7
   says a failed write leaves the cache unchanged.

## 5. Proofs

`TransferActorProofs.TypeCorrect` proves `Spec => []TypeOK` for every value
of the constants. It assumes the following of the constants:

- `QuorumAssumption`: `Quorum` is a positive majority of a finite set.
- `ConstAssumption`: the amounts and the balance are naturals.
- `NoneAssumption`: `None` is not a transfer.

`TypeOK` alone is not inductive. The subtraction in commit stays in `Nat`
only because of history. The proof uses the inductive invariant
`IInv = TypeOK /\ Covered /\ SignedCovered /\ ProofSigned /\ Staged`:

- **Covered**: the open transfer and every task's transfer have an amount
  within the actor's balance at the actor's counter.
- **SignedCovered**: every signed transfer is covered in the same way by the
  section's balance and counter.
- **ProofSigned**: every proof and every accumulated share was signed by a
  validator, and a task that is registering holds a proof.
- **Staged**: a task past `transfer` holds its transfer.

There is one lemma per action (`StartIInv`, `TransferIInv`, ...).
`NextIInv` combines them, and the theorem closes with PTL. TLC first
checked `IInv` as an invariant, with MaxAttempts 1 and 2.

`TransferLedgerProofs` proves two theorems:

- `LedgerNeverAhead`: `Spec => []LocalLedgerNeverAhead`.
- `Refinement`: `Spec => LedgerRefinement`, that is, `Spec` implements
  `MoneyLedger`.

Both rest on the inductive invariant `LInv`. It is `IInv` plus:

- **HistInv**: `netHist` has `netCtr + 1` entries and ends with
  `netBalance`; `debitCtr <= netCtr`; `balance = netHist[debitCtr + 1]`.
- **RegisteredInv**: every registered transfer is a proof, and it is the
  step of the history at its counter. Every counter below `netCtr` has a
  registered transfer.
- **QuorumSigned**: every proof carries the shares of a set of at least
  `Quorum` validators.
- **OneSignPerCtr**: a validator signs at most one transfer per counter.
- **CommitAfterRegister**: a task at commit holds a proof whose counter the
  section has passed.

The key lemma, `ProofsUnique`, says that two proofs at one counter are
equal. Their quorums intersect (`FS_MajoritiesIntersect`, from
`2 * Quorum > Cardinality(Validators)`), and the common validator signed
only one transfer at that counter. `CommitStep` uses it. The transfer the
section registered at the actor's counter and the committing task's proof
are then the same transfer, so the commit moves the actor to
`netHist[debitCtr + 2]`.

There is one lemma per action for `LInv`: `StartRest`, ..., `CommitRest`.
There is one per mapped action for the refinement: `StartRefines`,
`RegisterRefines`, `CommitRefines`. `NextLInv` and `NextRefines` combine
them. TLC checked `LInv` as an invariant before the proof was written, on
the instances of `TransferActor.cfg` and `TransferLedger.cfg`.

`SequenceClientProofs` proves two theorems for every finite set of tasks
and every value of the other constants:

- `SeqTypeCorrect`: `Spec => []TypeOK`. Every cache entry, snapshot and
  network copy is a sequence, and a write reaches its local check only
  with a sequence get_sequence resolved.
- `SeqPaymentNeverAhead`: `Spec => []LocalPaymentNeverAhead`.

They assume `SeqConstAssumption` (funds and bounds are naturals, `Tasks`
is finite) and `SeqNoneAssumption` (`None` is no sequence and no
operation).

`LocalPaymentNeverAhead` is not inductive: with several tasks between
their send and their booking, each booking must find the network ahead by
at least one. The inductive invariant is
`SeqIInv = TypeOK /\ Staged /\ Charged`:

- **Staged**: a busy task holds an operation of the right kind for its
  stage. At `fill` and `prepare` the snapshot is a sequence; from `pay`
  to `settle` it is a write; at `put` it is a create.
- **Charged**: `localSpent + Cardinality(SettleSet(pc)) <= netSpent`,
  where `SettleSet(pc)` is the set of tasks at `settle`. A delivered send
  adds one to `netSpent` and one task to the set; a booking moves one
  from the set to `localSpent`; a failed booking removes one.

There is one lemma per action (`CallSeqIInv`, `CallWithOpSeqIInv`,
`GetSeqIInv`, `PutSeqIInv`, `PrepareSeqIInv` over the shared body
`PrepareWrite` of the four write handlers, `PaySeqIInv`, ...,
`RemoteSeqIInv`) and `NextSeqIInv`. The lemmas rest on type lemmas for
the operators (`AppliedType`, `NewSequenceType`, `NetReceiveType`,
`CallsType`, `RemoteOpsType`) and on cardinality lemmas for the settle
set (`SettleSame`, `SettleEnter`, `SettleLeave`, `SettleStep`, from
`FS_AddElement` and `FS_RemoveElement`). TLC checked `SeqIInv` as an
invariant first, on the two-task instance of `SequenceClient.cfg` and on
a three-task instance.

The following stay with TLC only:

- The properties of the violation runs. They are false, and TLC gives
  the counterexamples.
- Anything about liveness or ENABLED, which TLAPS cannot prove.

## 6. Not modelled

- The message encoding and the transport are abstracted to three outcomes
  per send.
- The CRDT's causal metadata is not modelled. Sequence indices are the
  lengths of the histories.
- BLS signatures and share combination are abstracted to counting distinct
  validators.
- Simulated payouts are test-only.
- The balance queries change no state.

## 7. Plan for later work

1. A retry after a lost ValidateTransfer or RegisterTransfer leaves the
   transfer initiated forever, and every later `actor.transfer` is refused
   (hazard at line 133). This needs a possibility property, or the real
   behaviour of the external `Actor` when a transfer is pending.
2. Composing the payment helpers with `TransferActor`, so that a sequence
   write pays through `send_money`. Those helpers are not in this
   repository.
3. Incoming credits from other clients (`balance_transfers_between_clients`),
   which would let the section's balance grow.
