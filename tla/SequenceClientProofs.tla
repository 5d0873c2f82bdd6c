------------------------ MODULE SequenceClientProofs ------------------------
(***************************************************************************)
(* Proofs about SequenceClient, for every finite set of tasks, every set  *)
(* of addresses, every balance of writes and every set of grants.        *)
(*                                                                         *)
(* The client never books a write payment the network did not charge.    *)
(* This is not inductive as it stands: a task's command is received in     *)
(* Send and its payment booked in Settle, two steps apart, with other      *)
(* tasks paying and settling in between.  What keeps the two counts in     *)
(* order is that the network's count exceeds the local one by at least     *)
(* the number of tasks at Settle (Charged).                                *)
(***************************************************************************)
EXTENDS SequenceClient, FiniteSetTheorems, TLAPS

\* The writes that reach payment, and those that go through Prepare.
StoreKinds == {"storePrivate", "storePublic"}
EditKinds == {"append", "setOwner", "setPrivPerms", "setPubPerms"}

\* A task past Call holds a call; resolving it through get_sequence, a
\* call that is not a create or a delete; past the cache put of a miss or
\* at Prepare, the sequence it resolved; from Pay on, a write; at the
\* cache put of a create, a create.
Staged ==
    \A t \in Tasks :
        /\ pc[t] # "idle" => op[t] \in Op
        /\ pc[t] \in {"get", "fill"} => op[t].kind \notin StoreKinds \cup {"delete"}
        /\ pc[t] = "fill" => snap[t] \in Sequence
        /\ pc[t] = "prepare" => op[t].kind \in EditKinds /\ snap[t] \in Sequence
        /\ pc[t] \in {"pay", "send", "settle"}
              => op[t].kind \in StoreKinds \cup {"delete"} \cup EditKinds
        /\ pc[t] = "put" => op[t].kind \in StoreKinds

\* The stages of a call.
Stages == {"idle", "get", "fill", "prepare", "pay", "send", "settle", "put"}

\* The tasks whose command reached the network and whose payment is not
\* yet applied locally.
SettleSet(f) == {t \in Tasks : f[t] = "settle"}

\* Each of them has been charged: the network's count exceeds the local
\* one by at least their number.
Charged == localSpent + Cardinality(SettleSet(pc)) <= netSpent

SeqIInv == TypeOK /\ Staged /\ Charged

USE SeqConstAssumption, SeqNoneAssumption
-----------------------------------------------------------------------------
(***************************************************************************)
(* The sequence operations keep a sequence a Sequence.                     *)
(***************************************************************************)
LEMMA AppliedType ==
    ASSUME NEW s \in Sequence, NEW o \in Op, o.kind \in EditKinds
    PROVE  Applied(s, o) \in Sequence
<1>1. CASE o.kind = "append"
  <2>1. o.e \in Entry
    BY <1>1 DEF Op
  <2>2. Applied(s, o) = [s EXCEPT !.entries = Append(s.entries, o.e)]
    BY <1>1 DEF Applied
  <2>3. Append(s.entries, o.e) \in Seq(Entry)
    BY <2>1 DEF Sequence
  <2>. QED BY <2>2, <2>3 DEF Sequence
<1>2. CASE o.kind = "setOwner"
  <2>1. o.owner \in Users
    BY <1>2 DEF Op
  <2>2. Applied(s, o) = [s EXCEPT !.owner = o.owner]
    BY <1>2 DEF Applied
  <2>. QED BY <2>1, <2>2 DEF Sequence
<1>3. CASE o.kind \in {"setPrivPerms", "setPubPerms"}
  <2>1. o.append \in SUBSET Users /\ o.manage \in SUBSET Users
    BY <1>3 DEF Op
  <2>2. Applied(s, o) = [s EXCEPT !.append = o.append, !.manage = o.manage]
    BY <1>3 DEF Applied
  <2>. QED BY <2>1, <2>2 DEF Sequence
<1>. QED BY <1>1, <1>2, <1>3 DEF EditKinds

LEMMA NewSequenceType ==
    ASSUME NEW o \in Op, o.kind \in StoreKinds
    PROVE  NewSequence(o) \in Sequence
<1>1. o.owner \in Users /\ o.append \in SUBSET Users /\ o.manage \in SUBSET Users
  BY DEF Op, StoreKinds
<1>. QED BY <1>1 DEF NewSequence, Sequence

\* Every call a task can make, and every write of the other user, is a
\* call of the API on an address.
LEMMA CallsType ==
    ASSUME NEW t \in Tasks, NEW n \in Nat
    PROVE  \A o \in Calls(t) : nops[t] = n => o \in Op /\ o.a \in Addresses
<1>1. [by |-> t, n |-> n] \in Entry
  BY DEF Entry
<1>. QED BY <1>1 DEF Calls, Op

LEMMA RemoteOpsType ==
    ASSUME NEW a \in Addresses, remote \in Nat
    PROVE  \A o \in RemoteOps(a) : o \in Op /\ o.kind \in EditKinds
<1>1. [by |-> Other, n |-> remote] \in Entry
  BY DEF Entry
<1>. QED BY <1>1 DEF RemoteOps, Op, EditKinds
\* The network's copy stays a sequence or None whatever write it receives.
LEMMA NetReceiveType ==
    ASSUME net \in [Addresses -> Sequence \cup {None}], netSpent \in Nat,
           NEW o \in Op, o.a \in Addresses,
           o.kind \in StoreKinds \cup {"delete"} \cup EditKinds,
           NetReceive(o)
    PROVE  /\ net' \in [Addresses -> Sequence \cup {None}]
           /\ netSpent' = netSpent + 1
<1>1. NetAccepts(o) => NetWrite(o) \in Sequence \cup {None}
  <2>1. CASE o.kind \in StoreKinds
    <3>1. NetWrite(o) = NewSequence(o)
      BY <2>1 DEF NetWrite, StoreKinds
    <3>. QED BY <3>1, <2>1, NewSequenceType
  <2>2. CASE o.kind = "delete"
    BY <2>2 DEF NetWrite
  <2>3. CASE o.kind \in EditKinds
    <3>1. NetWrite(o) = Applied(net[o.a], o)
      BY <2>3 DEF NetWrite, EditKinds
    <3>2. NetAccepts(o) => net[o.a] # None
      BY <2>3 DEF NetAccepts, EditKinds
    <3>. QED BY <3>1, <3>2, <2>3, AppliedType
  <2>. QED BY <2>1, <2>2, <2>3
<1>. QED BY <1>1 DEF NetReceive
-----------------------------------------------------------------------------
(***************************************************************************)
(* Counting the tasks at Settle.                                           *)
(***************************************************************************)
LEMMA SettleSetFinite ==
    ASSUME NEW f
    PROVE  IsFiniteSet(SettleSet(f)) /\ Cardinality(SettleSet(f)) \in Nat
<1>1. SettleSet(f) \subseteq Tasks
  BY DEF SettleSet
<1>. QED BY <1>1, FS_Subset, FS_CardinalityType

\* A step of task t that neither enters nor leaves Settle.
LEMMA SettleSame ==
    ASSUME NEW S, NEW f \in [Tasks -> S], NEW t \in Tasks, NEW x,
           f[t] # "settle", x # "settle"
    PROVE  SettleSet([f EXCEPT ![t] = x]) = SettleSet(f)
BY DEF SettleSet

\* Task t enters Settle: one more.
LEMMA SettleEnter ==
    ASSUME NEW S, NEW f \in [Tasks -> S], NEW t \in Tasks, f[t] # "settle"
    PROVE  Cardinality(SettleSet([f EXCEPT ![t] = "settle"]))
              = Cardinality(SettleSet(f)) + 1
<1>1. SettleSet([f EXCEPT ![t] = "settle"]) = SettleSet(f) \cup {t}
  BY DEF SettleSet
<1>2. t \notin SettleSet(f)
  BY DEF SettleSet
<1>3. IsFiniteSet(SettleSet(f))
  BY SettleSetFinite
<1>4. Cardinality(SettleSet(f) \cup {t}) = Cardinality(SettleSet(f)) + 1
  BY <1>2, <1>3, FS_AddElement
<1>. QED BY <1>1, <1>4

\* Task t leaves Settle: one fewer.
LEMMA SettleLeave ==
    ASSUME NEW S, NEW f \in [Tasks -> S], NEW t \in Tasks, NEW x,
           f[t] = "settle", x # "settle"
    PROVE  Cardinality(SettleSet([f EXCEPT ![t] = x]))
              = Cardinality(SettleSet(f)) - 1
<1>1. SettleSet([f EXCEPT ![t] = x]) = SettleSet(f) \ {t}
  BY DEF SettleSet
<1>2. t \in SettleSet(f)
  BY DEF SettleSet
<1>3. IsFiniteSet(SettleSet(f))
  BY SettleSetFinite
<1>4. Cardinality(SettleSet(f) \ {t}) = Cardinality(SettleSet(f)) - 1
  BY <1>2, <1>3, FS_RemoveElement
<1>. QED BY <1>1, <1>4
\* A step of task t between two stages other than Settle.
LEMMA SettleStep ==
    ASSUME TypeOK, NEW t \in Tasks,
           pc' = [pc EXCEPT ![t] = pc'[t]],
           pc[t] # "settle", pc'[t] # "settle"
    PROVE  SettleSet(pc') = SettleSet(pc)
<1>1. pc \in [Tasks -> Stages]
  BY DEF TypeOK, Stages
<1>2. SettleSet([pc EXCEPT ![t] = pc'[t]]) = SettleSet(pc)
  BY <1>1, SettleSame
<1>. QED BY <1>2
-----------------------------------------------------------------------------
(***************************************************************************)
(* SeqIInv is inductive: one lemma per action.                             *)
(***************************************************************************)
LEMMA InitSeqIInv == Init => SeqIInv
<1>. SUFFICES ASSUME Init PROVE SeqIInv
  OBVIOUS
<1>1. SettleSet(pc) = {}
  BY DEF Init, SettleSet
<1>2. Cardinality(SettleSet(pc)) = 0
  BY <1>1, FS_EmptySet
<1>3. Charged
  BY <1>2 DEF Init, Charged
<1>. QED BY <1>3 DEF Init, SeqIInv, TypeOK, Staged, Result

LEMMA CallSeqIInv ==
    ASSUME SeqIInv, NEW t \in Tasks, NEW o \in Calls(t), Call(t, o)
    PROVE  SeqIInv'
<1>. USE DEF Call
<1>1. o \in Op /\ o.a \in Addresses
  BY CallsType DEF SeqIInv, TypeOK
<1>2. TypeOK'
  BY <1>1 DEF SeqIInv, TypeOK, seqVars, Result
<1>3. Staged'
  BY <1>1 DEF SeqIInv, TypeOK, Staged, IsStore, StoreKinds
<1>4. Charged'
  <2>1. SettleSet(pc') = SettleSet(pc)
    BY SettleSame DEF SeqIInv, TypeOK
  <2>. QED BY <2>1 DEF SeqIInv, Charged, seqVars
<1>. QED BY <1>2, <1>3, <1>4 DEF SeqIInv

LEMMA CallWithOpSeqIInv ==
    ASSUME SeqIInv, NEW t \in Tasks, NEW o \in Calls(t), CallWithOp(t, o)
    PROVE  SeqIInv'
<1>. USE DEF CallWithOp
<1>1. o \in Op /\ o.a \in Addresses /\ o.kind \in EditKinds
  BY CallsType DEF SeqIInv, TypeOK, EditKinds
<1>2. TypeOK'
  BY <1>1 DEF SeqIInv, TypeOK, seqVars, Result
<1>3. Staged'
  BY <1>1 DEF SeqIInv, TypeOK, Staged
<1>4. Charged'
  <2>1. SettleSet(pc') = SettleSet(pc)
    BY SettleSame DEF SeqIInv, TypeOK
  <2>. QED BY <2>1 DEF SeqIInv, Charged, seqVars
<1>. QED BY <1>2, <1>3, <1>4 DEF SeqIInv

LEMMA GetSeqIInv ==
    ASSUME SeqIInv, NEW t \in Tasks, get_sequence(t)
    PROVE  SeqIInv'
<1>. DEFINE a == op[t].a
<1>1. op[t] \in Op /\ a \in Addresses /\ op[t].kind \notin StoreKinds \cup {"delete"}
  BY DEF get_sequence, SeqIInv, Staged, Op
<1>2. /\ pc'[t] \in {"idle", "prepare", "fill"}
      /\ pc' = [pc EXCEPT ![t] = pc'[t]]
      /\ snap' = [snap EXCEPT ![t] = snap'[t]]
      /\ snap'[t] \in Sequence \cup {None}
      /\ pc'[t] = "prepare" => ~IsRead(op[t]) /\ snap'[t] \in Sequence
      /\ pc'[t] = "fill" => snap'[t] \in Sequence
      /\ res' \in [Tasks -> Result]
  BY <1>1 DEF get_sequence, Resolve, Finish, SeqIInv, TypeOK, Result
<1>3. TypeOK'
  BY <1>2 DEF get_sequence, SeqIInv, TypeOK, seqVars
<1>4. ~IsRead(op[t]) => op[t].kind \in EditKinds
  BY <1>1 DEF IsRead, Op, EditKinds, StoreKinds
<1>5. Staged'
  BY <1>1, <1>2, <1>4 DEF get_sequence, SeqIInv, TypeOK, Staged
<1>6. Charged'
  <2>1. pc[t] = "get" /\ pc \in [Tasks -> Stages]
    BY DEF get_sequence, SeqIInv, TypeOK, Stages
  <2>2. SettleSet([pc EXCEPT ![t] = pc'[t]]) = SettleSet(pc)
    BY <1>2, <2>1, SettleSame
  <2>3. SettleSet(pc') = SettleSet(pc)
    BY <1>2, <2>2
  <2>. QED BY <2>3 DEF get_sequence, SeqIInv, Charged, seqVars
<1>. QED BY <1>3, <1>5, <1>6 DEF SeqIInv

LEMMA PutSeqIInv ==
    ASSUME SeqIInv, NEW t \in Tasks, get_sequence_put(t)
    PROVE  SeqIInv'
<1>1. /\ op[t] \in Op /\ op[t].a \in Addresses /\ snap[t] \in Sequence
      /\ op[t].kind \notin StoreKinds \cup {"delete"}
  BY DEF get_sequence_put, SeqIInv, Staged, Op
<1>2. /\ pc'[t] \in {"idle", "prepare"}
      /\ pc' = [pc EXCEPT ![t] = pc'[t]]
      /\ pc'[t] = "prepare" => ~IsRead(op[t])
      /\ res' \in [Tasks -> Result]
      /\ cache' \in [Addresses -> Sequence \cup {None}]
  BY <1>1 DEF get_sequence_put, Resolve, Finish, SeqIInv, TypeOK, Result
<1>3. TypeOK'
  BY <1>2 DEF get_sequence_put, SeqIInv, TypeOK
<1>4. ~IsRead(op[t]) => op[t].kind \in EditKinds
  BY <1>1 DEF IsRead, Op, EditKinds, StoreKinds
<1>5. Staged'
  BY <1>1, <1>2, <1>4 DEF get_sequence_put, SeqIInv, TypeOK, Staged
<1>6. Charged'
  <2>1. pc[t] = "fill" /\ pc \in [Tasks -> Stages]
    BY DEF get_sequence_put, SeqIInv, TypeOK, Stages
  <2>2. SettleSet([pc EXCEPT ![t] = pc'[t]]) = SettleSet(pc)
    BY <1>2, <2>1, SettleSame
  <2>3. SettleSet(pc') = SettleSet(pc)
    BY <1>2, <2>2
  <2>. QED BY <2>3 DEF get_sequence_put, SeqIInv, Charged
<1>. QED BY <1>3, <1>5, <1>6 DEF SeqIInv

LEMMA PrepareSeqIInv ==
    ASSUME SeqIInv, NEW t \in Tasks, Prepare(t)
    PROVE  SeqIInv'
<1>0. PICK ok : PrepareWrite(t, ok)
  BY DEF Prepare, append_to_sequence, sequence_set_owner,
         sequence_set_pub_permissions, sequence_set_private_permissions
<1>. USE DEF PrepareWrite
<1>1. op[t] \in Op /\ op[t].kind \in EditKinds /\ snap[t] \in Sequence /\ op[t].a \in Addresses
  BY <1>0 DEF SeqIInv, Staged, Op, EditKinds
<1>2. Applied(snap[t], op[t]) \in Sequence
  BY <1>1, AppliedType
<1>3. /\ pc'[t] \in {"idle", "pay"}
      /\ pc' = [pc EXCEPT ![t] = pc'[t]]
      /\ res' \in [Tasks -> Result]
      /\ cache' \in [Addresses -> Sequence \cup {None}]
  BY <1>0, <1>1, <1>2 DEF Finish, SeqIInv, TypeOK, Result
<1>4. TypeOK'
  BY <1>0, <1>3 DEF SeqIInv, TypeOK
<1>5. Staged'
  BY <1>0, <1>1, <1>3 DEF SeqIInv, TypeOK, Staged
<1>6. Charged'
  <2>1. SettleSet(pc') = SettleSet(pc)
    BY <1>0, <1>3, SettleStep DEF SeqIInv
  <2>. QED BY <1>0, <2>1 DEF SeqIInv, Charged
<1>. QED BY <1>4, <1>5, <1>6 DEF SeqIInv

LEMMA PaySeqIInv ==
    ASSUME SeqIInv, NEW t \in Tasks, Pay(t)
    PROVE  SeqIInv'
<1>1. /\ pc'[t] \in {"idle", "send"}
      /\ pc' = [pc EXCEPT ![t] = pc'[t]]
      /\ res' \in [Tasks -> Result]
  BY DEF Pay, Finish, SeqIInv, TypeOK, Result
<1>2. TypeOK'
  BY <1>1 DEF Pay, SeqIInv, TypeOK, seqVars
<1>3. Staged'
  BY <1>1 DEF Pay, SeqIInv, TypeOK, Staged
<1>4. Charged'
  <2>1. SettleSet(pc') = SettleSet(pc)
    BY <1>1, SettleStep DEF Pay, SeqIInv
  <2>. QED BY <2>1 DEF Pay, SeqIInv, Charged, seqVars
<1>. QED BY <1>2, <1>3, <1>4 DEF SeqIInv

\* Send: the network charges whenever it receives the command, and only a
\* task whose command it received goes on to Settle.
LEMMA SendSeqIInv ==
    ASSUME SeqIInv, NEW t \in Tasks, Send(t)
    PROVE  SeqIInv'
<1>1. op[t] \in Op /\ op[t].a \in Addresses
      /\ op[t].kind \in StoreKinds \cup {"delete"} \cup EditKinds
  BY DEF Send, SeqIInv, Staged, Op
<1>2. NetReceive(op[t]) => /\ net' \in [Addresses -> Sequence \cup {None}]
                           /\ netSpent' = netSpent + 1
  BY <1>1, NetReceiveType DEF SeqIInv, TypeOK
<1>3. /\ pc'[t] \in {"idle", "settle"}
      /\ pc' = [pc EXCEPT ![t] = pc'[t]]
      /\ res' \in [Tasks -> Result]
      /\ net' \in [Addresses -> Sequence \cup {None}]
      /\ netSpent' \in Nat /\ netSpent <= netSpent'
      /\ pc'[t] = "settle" => netSpent' = netSpent + 1
  BY <1>2 DEF Send, Finish, SeqIInv, TypeOK, Result
<1>4. TypeOK'
  BY <1>3 DEF Send, SeqIInv, TypeOK
<1>5. Staged'
  BY <1>3 DEF Send, SeqIInv, TypeOK, Staged
<1>6. Charged'
  <2>1. Cardinality(SettleSet(pc)) \in Nat /\ Cardinality(SettleSet(pc')) \in Nat
    BY SettleSetFinite
  <2>2. CASE pc'[t] = "idle"
    <3>1. SettleSet(pc') = SettleSet(pc)
      BY <1>3, <2>2, SettleStep DEF Send, SeqIInv
    <3>. QED BY <1>3, <3>1, <2>1 DEF Send, SeqIInv, TypeOK, Charged
  <2>3. CASE pc'[t] = "settle"
    <3>1. pc \in [Tasks -> Stages] /\ pc[t] # "settle"
      BY DEF Send, SeqIInv, TypeOK, Stages
    <3>2. Cardinality(SettleSet(pc')) = Cardinality(SettleSet(pc)) + 1
      BY <1>3, <2>3, <3>1, SettleEnter
    <3>. QED BY <1>3, <2>3, <3>2, <2>1 DEF Send, SeqIInv, TypeOK, Charged
  <2>. QED BY <1>3, <2>2, <2>3
<1>. QED BY <1>4, <1>5, <1>6 DEF SeqIInv

\* Settle: the task leaves Settle, and books at most its own payment.
LEMMA SettleSeqIInv ==
    ASSUME SeqIInv, NEW t \in Tasks, Settle(t)
    PROVE  SeqIInv'
<1>1. op[t] \in Op /\ pc[t] = "settle"
  BY DEF Settle, SeqIInv, Staged
<1>2. /\ pc'[t] \in {"idle", "put"}
      /\ pc' = [pc EXCEPT ![t] = pc'[t]]
      /\ pc'[t] = "put" => IsStore(op[t])
      /\ res' \in [Tasks -> Result]
      /\ localSpent' \in {localSpent, localSpent + 1}
  BY DEF Settle, Finish, SeqIInv, TypeOK, Result
<1>3. TypeOK'
  BY <1>2 DEF Settle, SeqIInv, TypeOK
<1>4. Staged'
  BY <1>1, <1>2 DEF Settle, SeqIInv, TypeOK, Staged, IsStore, StoreKinds
<1>5. Charged'
  <2>1. pc \in [Tasks -> Stages]
    BY DEF SeqIInv, TypeOK, Stages
  <2>2. Cardinality(SettleSet(pc')) = Cardinality(SettleSet(pc)) - 1
    <3>1. pc'[t] # "settle"
      BY <1>2
    <3>2. Cardinality(SettleSet([pc EXCEPT ![t] = pc'[t]]))
             = Cardinality(SettleSet(pc)) - 1
      BY <1>1, <2>1, <3>1, SettleLeave
    <3>. QED BY <3>2, <1>2
  <2>3. Cardinality(SettleSet(pc)) \in Nat /\ Cardinality(SettleSet(pc')) \in Nat
    BY SettleSetFinite
  <2>. QED BY <1>2, <2>2, <2>3 DEF Settle, SeqIInv, TypeOK, Charged
<1>. QED BY <1>3, <1>4, <1>5 DEF SeqIInv

LEMMA StorePutSeqIInv ==
    ASSUME SeqIInv, NEW t \in Tasks, StorePut(t)
    PROVE  SeqIInv'
<1>1. op[t] \in Op /\ op[t].kind \in StoreKinds /\ op[t].a \in Addresses
  BY DEF StorePut, SeqIInv, Staged, Op
<1>2. NewSequence(op[t]) \in Sequence
  BY <1>1, NewSequenceType
<1>3. pc' = [pc EXCEPT ![t] = "idle"] /\ res' \in [Tasks -> Result]
  BY DEF StorePut, Finish, SeqIInv, TypeOK, Result
<1>4. TypeOK'
  BY <1>1, <1>2, <1>3 DEF StorePut, SeqIInv, TypeOK
<1>5. Staged'
  BY <1>3 DEF StorePut, SeqIInv, TypeOK, Staged
<1>6. Charged'
  <2>1. pc[t] = "put" /\ pc' = [pc EXCEPT ![t] = pc'[t]] /\ pc'[t] = "idle"
    BY <1>3 DEF StorePut, SeqIInv, TypeOK
  <2>2. SettleSet(pc') = SettleSet(pc)
    BY <2>1, SettleStep DEF SeqIInv
  <2>. QED BY <2>2 DEF StorePut, SeqIInv, Charged
<1>. QED BY <1>4, <1>5, <1>6 DEF SeqIInv

LEMMA RemoteSeqIInv ==
    ASSUME SeqIInv, NEW a \in Addresses, NEW o \in RemoteOps(a), RemoteWrite(a, o)
    PROVE  SeqIInv'
<1>1. o \in Op /\ o.kind \in EditKinds
  BY RemoteOpsType DEF SeqIInv, TypeOK
<1>2. Applied(net[a], o) \in Sequence
  BY <1>1, AppliedType DEF RemoteWrite, SeqIInv, TypeOK
<1>3. TypeOK'
  BY <1>2 DEF RemoteWrite, SeqIInv, TypeOK, taskVars
<1>. QED BY <1>3 DEF RemoteWrite, SeqIInv, Staged, Charged, taskVars

LEMMA NextSeqIInv == SeqIInv /\ [Next]_vars => SeqIInv'
<1>. SUFFICES ASSUME SeqIInv, [Next]_vars PROVE SeqIInv'
  OBVIOUS
<1>1. CASE \E t \in Tasks : \E o \in Calls(t) : Call(t, o)
  BY <1>1, CallSeqIInv
<1>11. CASE \E t \in Tasks : \E o \in Calls(t) : CallWithOp(t, o)
  BY <1>11, CallWithOpSeqIInv
<1>2. CASE \E t \in Tasks : get_sequence(t)
  BY <1>2, GetSeqIInv
<1>3. CASE \E t \in Tasks : get_sequence_put(t)
  BY <1>3, PutSeqIInv
<1>4. CASE \E t \in Tasks : Prepare(t)
  BY <1>4, PrepareSeqIInv
<1>5. CASE \E t \in Tasks : Pay(t)
  BY <1>5, PaySeqIInv
<1>6. CASE \E t \in Tasks : Send(t)
  BY <1>6, SendSeqIInv
<1>7. CASE \E t \in Tasks : Settle(t)
  BY <1>7, SettleSeqIInv
<1>8. CASE \E t \in Tasks : StorePut(t)
  BY <1>8, StorePutSeqIInv
<1>9. CASE \E a \in Addresses : \E o \in RemoteOps(a) : RemoteWrite(a, o)
  BY <1>9, RemoteSeqIInv
<1>10. CASE UNCHANGED vars
  BY <1>10 DEF SeqIInv, TypeOK, Staged, Charged, vars, seqVars, taskVars
<1>. QED BY <1>1, <1>2, <1>3, <1>4, <1>5, <1>6, <1>7, <1>8, <1>9, <1>10, <1>11
       DEF Next, PaidWrite
-----------------------------------------------------------------------------
\* Type correctness of the client: every cache entry, snapshot, counter and
\* result the handlers of sequence_apis.rs produce is of its type; in
\* particular a write reaches Prepare only with a sequence resolved by
\* get_sequence, and the cache receives only sequences.
THEOREM SeqTypeCorrect == Spec => []TypeOK
<1>1. SeqIInv => TypeOK
  BY DEF SeqIInv
<1>. QED BY <1>1, InitSeqIInv, NextSeqIInv, PTL DEF Spec

\* The client never applies a write payment locally
\* (apply_write_payment_to_local_actor, lines 217, 297, 318, ...) that the
\* network has not charged, however many tasks pay and settle
\* concurrently: each task at Settle had its command received (send_cmd,
\* lines 215, 295, 316, ...), and books at most one payment.
THEOREM SeqPaymentNeverAhead == Spec => []LocalPaymentNeverAhead
<1>1. SeqIInv => LocalPaymentNeverAhead
  <2>. SUFFICES ASSUME SeqIInv PROVE LocalPaymentNeverAhead
    OBVIOUS
  <2>1. Cardinality(SettleSet(pc)) \in Nat
    BY SettleSetFinite
  <2>. QED BY <2>1 DEF SeqIInv, TypeOK, Charged, LocalPaymentNeverAhead
<1>. QED BY <1>1, InitSeqIInv, NextSeqIInv, PTL DEF Spec
=============================================================================
