--------------------------- MODULE SequenceClient ---------------------------
(***************************************************************************)
(* The payment-gated write coordinator and the replica cache               *)
(* (sequence_apis.rs).                                                     *)
(*                                                                         *)
(* A client task calls the Sequence API: it creates private or public      *)
(* sequences, appends, sets owner or permissions, deletes, and reads       *)
(* through the cache `sequence_cache`.  Every write pays: a payment proof  *)
(* (create_write_payment_proof), the command with the proof (send_cmd),    *)
(* then the local bookkeeping (apply_write_payment_to_local_actor).  The   *)
(* payment helpers are not in this repository and are modelled from the    *)
(* spec (4.4) as one step each, with no serialisation of payments between  *)
(* tasks.  Another user writes to the network copy directly, which is how  *)
(* the cache becomes stale.                                                *)
(*                                                                         *)
(* A sequence is abstracted to its flavour, its entries, its current owner *)
(* and, of its permissions, who may Append and who may ManagePermissions;  *)
(* the CRDT's indices are the lengths of these histories.                  *)
(***************************************************************************)
EXTENDS Naturals, Sequences, FiniteSets

CONSTANTS
    Tasks,        \* concurrent client tasks (clones of one Client)
    Addresses,    \* sequence addresses (name, tag)
    Me,           \* the client's public key
    Other,        \* another user writing to the same sequences
    Funds,        \* number of writes the client's balance pays for
    MaxOps,       \* bound: calls per task
    MaxRemote,    \* bound: writes by the other user
    Grants,       \* the permission sets callers pass (a set of key sets)
    None          \* "absent" (a model value)

Users == {Me, Other}

ASSUME SeqConstAssumption ==
    /\ Me # Other
    /\ Funds \in Nat
    /\ MaxOps \in Nat
    /\ MaxRemote \in Nat
    /\ Grants \subseteq SUBSET Users
    /\ IsFiniteSet(Tasks)

\* An entry is identified by who appended it and a serial number.
Entry == [by : Tasks \cup {Other}, n : Nat]

Sequence == [kind : {"private", "public"}, entries : Seq(Entry),
             owner : Users, append : SUBSET Users, manage : SUBSET Users]

\* The calls a task makes.
Op ==
    [kind : {"storePrivate", "storePublic"}, a : Addresses, owner : Users,
     append : SUBSET Users, manage : SUBSET Users]
    \cup [kind : {"setPrivPerms", "setPubPerms"}, a : Addresses,
          append : SUBSET Users, manage : SUBSET Users]
    \cup [kind : {"append"}, a : Addresses, e : Entry]
    \cup [kind : {"setOwner"}, a : Addresses, owner : Users]
    \cup [kind : {"delete", "get", "last", "owner", "pubPerms",
                  "privPerms"}, a : Addresses]
    \cup [kind : {"range"}, a : Addresses, from : Nat]

ASSUME SeqNoneAssumption == None \notin Sequence \cup Op

VARIABLES
    net,        \* net[a]: the sequence at the network, or None
    cache,      \* cache[a]: the local replica, or None
    localSpent, \* writes the local actor has paid for
    netSpent,   \* writes the network charged
    remote,     \* writes the other user made
    pc, op, snap, res, nops

seqVars == <<net, cache, localSpent, netSpent, remote>>
taskVars == <<pc, op, snap, res, nops>>
vars == <<seqVars, taskVars>>

Result == {"none", "ok", "err"}

TypeOK ==
    /\ net \in [Addresses -> Sequence \cup {None}]
    /\ cache \in [Addresses -> Sequence \cup {None}]
    /\ localSpent \in Nat
    /\ netSpent \in Nat
    /\ remote \in Nat
    /\ pc \in [Tasks -> {"idle", "get", "fill", "prepare", "pay", "send",
                          "settle", "put"}]
    /\ op \in [Tasks -> Op \cup {None}]
    /\ snap \in [Tasks -> Sequence \cup {None}]
    /\ res \in [Tasks -> Result]
    /\ nops \in [Tasks -> Nat]

Init ==
    /\ net = [a \in Addresses |-> None]
    /\ cache = [a \in Addresses |-> None]
    /\ localSpent = 0
    /\ netSpent = 0
    /\ remote = 0
    /\ pc = [t \in Tasks |-> "idle"]
    /\ op = [t \in Tasks |-> None]
    /\ snap = [t \in Tasks |-> None]
    /\ res = [t \in Tasks |-> "none"]
    /\ nops = [t \in Tasks |-> 0]
-----------------------------------------------------------------------------
(***************************************************************************)
(* The Sequence CRDT (safe_nd, external): permission check and the local   *)
(* effect of each write.                                                   *)
(***************************************************************************)

\* check_permission(action, key): the current owner may do anything, and
\* a key holding the right for the action may do it.
Allowed(s, right, u) == u = s.owner \/ u \in s[right]

RightOf(kind) == IF kind = "append" THEN "append" ELSE "manage"

\* Sequence::new_private / new_pub followed by set_*_permissions and
\* set_owner (lines 85-88, 150-153).
NewSequence(o) ==
    [kind |-> IF o.kind = "storePrivate" THEN "private" ELSE "public",
     entries |-> << >>, owner |-> o.owner,
     append |-> o.append, manage |-> o.manage]

\* set_private_permissions on a public sequence (and the converse) fails.
FlavourOK(s, o) ==
    \/ o.kind \notin {"setPrivPerms", "setPubPerms"}
    \/ o.kind = "setPrivPerms" /\ s.kind = "private"
    \/ o.kind = "setPubPerms" /\ s.kind = "public"

\* The sequence after the write o: append, set_owner, set_*_permissions.
Applied(s, o) ==
    CASE o.kind = "append" -> [s EXCEPT !.entries = Append(@, o.e)]
      [] o.kind = "setOwner" -> [s EXCEPT !.owner = o.owner]
      [] OTHER -> [s EXCEPT !.append = o.append, !.manage = o.manage]
-----------------------------------------------------------------------------
(***************************************************************************)
(* The network's copy (spec 4.4, 6): it re-checks every write against its  *)
(* own copy, charges the payment whether or not the write is accepted, and *)
(* rejects the delete of a public sequence.  The command gets no error     *)
(* back for a rejected write.                                              *)
(***************************************************************************)
NetAccepts(o) ==
    LET s == net[o.a] IN
    CASE o.kind \in {"storePrivate", "storePublic"} -> s = None
      [] o.kind = "delete" ->
            s # None /\ s.kind = "private" /\ s.owner = Me
      [] OTHER ->
            s # None /\ Allowed(s, RightOf(o.kind), Me) /\ FlavourOK(s, o)

NetWrite(o) ==
    CASE o.kind \in {"storePrivate", "storePublic"} -> NewSequence(o)
      [] o.kind = "delete" -> None
      [] OTHER -> Applied(net[o.a], o)

NetReceive(o) ==
    /\ netSpent' = netSpent + 1
    /\ net' = IF NetAccepts(o) THEN [net EXCEPT ![o.a] = NetWrite(o)]
                               ELSE net

\* The other user appends, or changes owner or permissions, where the
\* network lets them.
RemoteWrite(a, o) ==
    /\ remote < MaxRemote
    /\ net[a] # None
    /\ o.a = a
    /\ Allowed(net[a], RightOf(o.kind), Other)
    /\ FlavourOK(net[a], o)
    /\ net' = [net EXCEPT ![a] = Applied(@, o)]
    /\ remote' = remote + 1
    /\ UNCHANGED <<cache, localSpent, netSpent, taskVars>>

RemoteOps(a) ==
    {[kind |-> "append", a |-> a, e |-> [by |-> Other, n |-> remote]]}
    \cup [kind : {"setOwner"}, a : {a}, owner : Users]
    \cup [kind : {"setPrivPerms", "setPubPerms"}, a : {a},
          append : Grants, manage : Grants]
-----------------------------------------------------------------------------
(***************************************************************************)
(* The client's read accessors, pure functions of the snapshot that        *)
(* get_sequence resolved: do they fail?                                    *)
(***************************************************************************)

\* get_sequence_last_entry (lines 425-439): NoSuchEntry on an empty one.
\* get_sequence_range (lines 480-494): in_range(from, end) is None past the
\* end.
EntryReadFails(s, o) ==
    CASE o.kind = "last" -> Len(s.entries) = 0
      [] o.kind = "range" -> o.from > Len(s.entries)
      [] OTHER -> FALSE

\* get_sequence_pub_permissions / _private_permissions (lines 653-692): the
\* other flavour's accessor fails.  get_sequence_user_permissions (694-714)
\* has the same shape and is not a separate call.
PermsReadFails(s, o) ==
    CASE o.kind = "pubPerms" -> s.kind # "public"
      [] o.kind = "privPerms" -> s.kind # "private"
      [] OTHER -> FALSE

\* Whether the accessor o fails on the resolved snapshot s.
\* get_sequence_owner (lines 552-568) always finds the current owner.
ReadFails(s, o) == EntryReadFails(s, o) \/ PermsReadFails(s, o)
-----------------------------------------------------------------------------
(***************************************************************************)
(* The calls.                                                              *)
(***************************************************************************)
Finish(t, r) ==
    /\ pc' = [pc EXCEPT ![t] = "idle"]
    /\ res' = [res EXCEPT ![t] = r]

IsStore(o) == o.kind \in {"storePrivate", "storePublic"}
IsRead(o) == o.kind \in {"get", "last", "range", "owner", "pubPerms",
                         "privPerms"}

\* The calls a task can make next (an append carries a fresh entry).
Calls(t) ==
    [kind : {"storePrivate", "storePublic"}, a : Addresses, owner : Users,
     append : Grants, manage : Grants]
    \cup [kind : {"setPrivPerms", "setPubPerms"}, a : Addresses,
          append : Grants, manage : Grants]
    \cup [kind : {"append"}, a : Addresses, e : {[by |-> t, n |-> nops[t]]}]
    \cup [kind : {"setOwner"}, a : Addresses, owner : Users]
    \cup [kind : {"delete", "get", "last", "owner", "pubPerms",
                  "privPerms"}, a : Addresses]
    \cup [kind : {"range"}, a : Addresses, from : 0..1]

\* A call starts.  Creation and deletion go straight to payment (lines 85-94
\* build the sequence locally, 204-208); every other call first resolves
\* the sequence through get_sequence.
Call(t, o) ==
    /\ pc[t] = "idle"
    /\ nops[t] < MaxOps
    /\ nops' = [nops EXCEPT ![t] = @ + 1]
    /\ op' = [op EXCEPT ![t] = o]
    /\ pc' = [pc EXCEPT ![t] =
                 IF IsStore(o) \/ o.kind = "delete" THEN "pay" ELSE "get"]
    /\ res' = [res EXCEPT ![t] = "none"]
    /\ UNCHANGED <<seqVars, snap>>

\* set_sequence_owner(op) (lines 534-551) and edit_sequence_private_perms(op)
\* / edit_sequence_public_perms(op) (608-652) called directly with an op the
\* caller built on its own copy: the write is paid and sent with no local
\* permission check and no cache put.
CallWithOp(t, o) ==
    /\ pc[t] = "idle"
    /\ nops[t] < MaxOps
    /\ o.kind \in {"setOwner", "setPrivPerms", "setPubPerms"}
    /\ nops' = [nops EXCEPT ![t] = @ + 1]
    /\ op' = [op EXCEPT ![t] = o]
    /\ pc' = [pc EXCEPT ![t] = "pay"]
    /\ res' = [res EXCEPT ![t] = "none"]
    /\ UNCHANGED <<seqVars, snap>>

\* The caller goes on with the sequence s that get_sequence returned: a
\* read accessor ends the call (lines 434-438, 490-493, 562-567, 666-691),
\* a write goes on to its local check (lines 259, 579, 725, 758).
Resolve(t, s) ==
    IF IsRead(op[t])
    THEN Finish(t, IF ReadFails(s, op[t]) THEN "err" ELSE "ok")
    ELSE pc' = [pc EXCEPT ![t] = "prepare"] /\ UNCHANGED res

\* get_sequence (lines 356-375): a cache hit is returned as it is; on a
\* miss the cache lock is released and the network is queried (NoSuchData,
\* or a transport failure, end the call).
get_sequence(t) ==
    LET a == op[t].a IN
    /\ pc[t] = "get"
    /\ \/ /\ cache[a] # None
          /\ snap' = [snap EXCEPT ![t] = cache[a]]
          /\ Resolve(t, cache[a])
       \/ /\ cache[a] = None
          /\ \/ Finish(t, "err") /\ UNCHANGED snap
             \/ /\ net[a] # None
                /\ snap' = [snap EXCEPT ![t] = net[a]]
                /\ pc' = [pc EXCEPT ![t] = "fill"]
                /\ UNCHANGED res
    /\ UNCHANGED <<seqVars, op, nops>>

\* get_sequence (lines 377-385): the answer is put in the cache under a new
\* lock hold, over whatever another task put there since the miss.
get_sequence_put(t) ==
    /\ pc[t] = "fill"
    /\ cache' = [cache EXCEPT ![op[t].a] = snap[t]]
    /\ Resolve(t, snap[t])
    /\ UNCHANGED <<net, localSpent, netSpent, remote, op, snap, nops>>

\* The local half of a write on the snapshot it resolved: the permission
\* check (ok), then the op applied to the snapshot and the result put in
\* the cache -- before the write is paid or sent.  A failed check ends the
\* call.
PrepareWrite(t, ok) ==
    LET o == op[t]
        s == snap[t]
    IN
    /\ pc[t] = "prepare"
    /\ IF ok
       THEN /\ cache' = [cache EXCEPT ![o.a] = Applied(s, o)]
            /\ pc' = [pc EXCEPT ![t] = "pay"]
            /\ UNCHANGED res
       ELSE /\ Finish(t, "err")
            /\ UNCHANGED cache
    /\ UNCHANGED <<net, localSpent, netSpent, remote, op, snap, nops>>

\* append_to_sequence (lines 252-277): check_permission(Append), append,
\* put, then pay_and_write_append_to_sequence_to_network.
append_to_sequence(t) ==
    /\ PrepareWrite(t, Allowed(snap[t], "append", Me))
    /\ op[t].kind = "append"

\* sequence_set_owner (lines 572-600): check_permission(ManagePermissions),
\* set_owner, put, then set_sequence_owner(op).
sequence_set_owner(t) ==
    /\ PrepareWrite(t, Allowed(snap[t], "manage", Me))
    /\ op[t].kind = "setOwner"

\* sequence_set_pub_permissions (lines 717-747): check_permission
\* (ManagePermissions); set_pub_permissions fails on a private sequence;
\* put, then edit_sequence_public_perms(op).
sequence_set_pub_permissions(t) ==
    /\ PrepareWrite(t, Allowed(snap[t], "manage", Me) /\ snap[t].kind = "public")
    /\ op[t].kind = "setPubPerms"

\* sequence_set_private_permissions (lines 749-779): the same on a private
\* sequence, then edit_sequence_private_perms(op).
sequence_set_private_permissions(t) ==
    /\ PrepareWrite(t, Allowed(snap[t], "manage", Me) /\ snap[t].kind = "private")
    /\ op[t].kind = "setPrivPerms"

Prepare(t) ==
    \/ append_to_sequence(t)
    \/ sequence_set_owner(t)
    \/ sequence_set_pub_permissions(t)
    \/ sequence_set_private_permissions(t)

\* create_write_payment_proof().await? (lines 208, 288, 309, 541, 615,
\* 639): refused when the balance covers no more writes, otherwise the
\* proof is obtained or its validation fails.  The balance is checked
\* against the payments booked so far: a task paying concurrently with
\* another that has not yet booked is not held back.
Pay(t) ==
    /\ pc[t] = "pay"
    /\ IF localSpent < Funds
       THEN \/ pc' = [pc EXCEPT ![t] = "send"] /\ UNCHANGED res
            \/ Finish(t, "err")
       ELSE Finish(t, "err")
    /\ UNCHANGED <<seqVars, op, snap, nops>>

\* Mutant of Send: the send's error is dropped (`let _ = ..` without `?`)
\* and the payment is booked whatever became of the command.
SendIgnoringError(t) ==
    /\ pc[t] = "send"
    /\ \/ UNCHANGED <<net, netSpent>>
       \/ NetReceive(op[t])
    /\ pc' = [pc EXCEPT ![t] = "settle"]
    /\ UNCHANGED <<cache, localSpent, remote, op, snap, res, nops>>

\* send_cmd(wrap_seq_write(..., payment)).await? (lines 213-215, 293-295,
\* 314-316, 546-548, 620-625, 644-649): lost, delivered, or delivered with
\* the acknowledgement lost.
Send(t) ==
    /\ pc[t] = "send"
    /\ \/ /\ Finish(t, "err")
          /\ UNCHANGED <<net, netSpent>>
       \/ /\ NetReceive(op[t])
          /\ pc' = [pc EXCEPT ![t] = "settle"]
          /\ UNCHANGED res
       \/ /\ NetReceive(op[t])
          /\ Finish(t, "err")
    /\ UNCHANGED <<cache, localSpent, remote, op, snap, nops>>

\* apply_write_payment_to_local_actor(payment_proof) (lines 217, 297, 318,
\* 550, 627, 651): the payment is booked, or the local actor's apply
\* fails and the call returns its error.  A created sequence goes on to
\* the cache put (lines 96, 161).
Settle(t) ==
    /\ pc[t] = "settle"
    /\ \/ /\ localSpent' = localSpent + 1
          /\ IF IsStore(op[t])
             THEN pc' = [pc EXCEPT ![t] = "put"] /\ UNCHANGED res
             ELSE Finish(t, "ok")
       \/ /\ Finish(t, "err")
          /\ UNCHANGED localSpent
    /\ UNCHANGED <<net, cache, netSpent, remote, op, snap, nops>>

\* The paid half of every write.  edit_sequence_private_perms and
\* edit_sequence_public_perms (lines 608-652) are exactly this, as are
\* set_sequence_owner(op), the two pay_and_write helpers and the tail of
\* delete_sequence.
PaidWrite(t) == Pay(t) \/ Send(t) \/ Settle(t)

\* store_private_sequence / store_public_sequence (lines 98-101, 163-166):
\* the created sequence is put in the cache under its own lock hold.
StorePut(t) ==
    /\ pc[t] = "put"
    /\ cache' = [cache EXCEPT ![op[t].a] = NewSequence(op[t])]
    /\ Finish(t, "ok")
    /\ UNCHANGED <<net, localSpent, netSpent, remote, op, snap, nops>>
-----------------------------------------------------------------------------
Next ==
    \/ \E t \in Tasks :
          \/ \E o \in Calls(t) : Call(t, o) \/ CallWithOp(t, o)
          \/ get_sequence(t)
          \/ get_sequence_put(t)
          \/ Prepare(t)
          \/ PaidWrite(t)
          \/ StorePut(t)
    \/ \E a \in Addresses : \E o \in RemoteOps(a) : RemoteWrite(a, o)

Spec == Init /\ [][Next]_vars
-----------------------------------------------------------------------------
(***************************************************************************)
(* Properties.                                                             *)
(***************************************************************************)

\* The client never books a write payment the network did not charge: a
\* payment is applied locally only after its command reached the network.
LocalPaymentNeverAhead == localSpent <= netSpent

\* After this client deleted a sequence, get_sequence fails with
\* NoSuchData (test sequence_can_delete_private_test, spec 4.3 remove and
\* 4.4 step 6): the replica is not served once the network has dropped it.
DeletedNotCached ==
    \A t \in Tasks :
        (op[t] # None /\ op[t].kind = "delete" /\ res[t] = "ok"
         /\ net[op[t].a] = None)
            => cache[op[t].a] = None

\* A write that failed leaves the cache as it was (spec 4.4 step 7): the
\* entry of a failed append is not in the replica.
FailedWriteNotCached ==
    \A t \in Tasks :
        (op[t] # None /\ op[t].kind = "append" /\ res[t] = "err"
         /\ cache[op[t].a] # None)
            => \A i \in 1..Len(cache[op[t].a].entries) :
                  cache[op[t].a].entries[i] # op[t].e
=============================================================================
