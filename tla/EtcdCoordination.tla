-------------------------- MODULE EtcdCoordination --------------------------
(***************************************************************************)
(* The shard protocol over etcd (gossip-coordination-etcd).  A shard is a  *)
(* record key and, while it is leased, an owner key attached to an etcd    *)
(* lease; etcd drops the owner key when that lease ends, whatever the      *)
(* logical deadline in the record says.  Beside them are the index of      *)
(* active shards and the tenant's shard counter.                           *)
(*                                                                         *)
(* Every operation reads, decides, and writes in one transaction guarded   *)
(* by compares on what it read (cas_retry): a conflict is tried again with *)
(* the time the caller passed first, and an error of the transaction call  *)
(* is reported to the caller although etcd may have applied it, or may     *)
(* still apply it later.                                                   *)
(*                                                                         *)
(* mod_revision is not a number here.  A revision compare succeeds exactly *)
(* when no put touched the key since it was read, so each outstanding      *)
(* transaction carries the set of keys it read that were written since     *)
(* (dirty).  Reads of one attempt are one step: each is compared by the    *)
(* transaction, so those that disagree only make it fail.                  *)
(***************************************************************************)
EXTENDS ShardRecords, Bags

CONSTANTS
    Manifest,         \* the registered root shards
    Client,           \* threads of workers and administrators: one call at a time each
    EtcdLease,        \* ids of etcd leases
    NoLease,
    NoOwner,          \* "the owner key is absent"
    Idle,             \* "no call under way"
    CounterKey,       \* the key of the tenant's shard counter
    RunKey,           \* the key of the run record
    Retries,          \* optimistic_txn_retries
    MaxLost,          \* bound: transactions under way that nobody waits for
    MayEnd            \* bound: whether the run ends

\* OwnerLeaseValue, and the etcd lease its key is attached to (PersistedOwner).
OwnerKey == [worker : Worker, fence : Fence, lease : EtcdLease]

ASSUME EtcdAssumption ==
    /\ Retries \in Nat \ {0}
    /\ MaxLost \in Nat /\ MayEnd \in BOOLEAN
    /\ NoLease \notin EtcdLease
    /\ NoOwner \notin OwnerKey
    /\ {CounterKey, RunKey} \cap ShardId = {} /\ CounterKey # RunKey
\* What register_shards accepts.
ASSUME EtcdManifestAssumption ==
    /\ DOMAIN Manifest \subseteq ShardId
    /\ \A s \in DOMAIN Manifest : Manifest[s] \in Child
    /\ ValidManifest(Manifest)
    /\ IsFiniteSet(DOMAIN Manifest) /\ Cardinality(DOMAIN Manifest) <= MaxShards

VARIABLES
    now,      \* logical time
    recs,     \* shard record keys: shard id -> record
    owner,    \* shard owner keys: shard id -> [worker, fence, lease] or NoOwner
    index,    \* shard active-index keys
    count,    \* the tenant shard counter
    runEnded, \* the run record is terminal and its active-index key gone
    leases,   \* etcd leases alive
    calls,    \* client -> the call it waits for
    lost,     \* transactions whose caller was told of an error
    known,    \* leases workers were told of
    history   \* bag of the structural operations applied (not in the code)

etcd == <<recs, owner, index, count, leases, history>>
vars == <<now, recs, owner, index, count, runEnded, leases, calls, lost, known, history>>

Fenced == INSTANCE FencedShards WITH
    Roots <- Manifest,
    records <- [s \in DOMAIN recs |-> [recs[s] EXCEPT !.deadline = 0]],
    effects <- history

\* The state register_shards leaves of the roots of a manifest.
EtcdInitOf(manifest) ==
    /\ now = 1
    /\ recs = [s \in DOMAIN manifest |->
                  NewShard(manifest[s].lo, manifest[s].hi, manifest[s].cursor, NoShard)]
    /\ owner = [s \in DOMAIN manifest |-> NoOwner]
    /\ index = DOMAIN manifest
    /\ count = Cardinality(DOMAIN manifest)
    /\ runEnded = FALSE
    /\ leases = {}
    /\ calls = [c \in Client |-> Idle]
    /\ lost = {}
    /\ known = {}
    /\ history = EmptyBag

EtcdInit == EtcdInitOf(Manifest)

-----------------------------------------------------------------------------
(* Transactions                                                            *)

\* PersistedShard::owner_is_live_at
OwnerIsLiveAt(s, t) == owner[s] # NoOwner /\ t < recs[s].deadline

\* owner_matches_lease
OwnerMatchesLease(s, lease) ==
    owner[s] # NoOwner /\ owner[s].worker = lease.owner /\ owner[s].fence = lease.fence

\* The leases some outstanding transaction would attach an owner key to.
\* etcd never hands out an id again; ids no longer in use stand for new ones.
OutstandingTxns == {calls[c].txn : c \in {c \in Client : calls[c] # Idle /\ calls[c].txn # Idle}}
                   \cup lost
UsedLeases ==
    leases \cup {t.attach : t \in OutstandingTxns}
           \cup {owner[s].lease : s \in {s \in DOMAIN owner : owner[s] # NoOwner}}
           \cup {t.ownerIs.lease : t \in {t \in OutstandingTxns : t.ownerIs # NoOwner}}

\* A transaction on shard s: what it compares beside the revision of s (the
\* owner key it read, the revisions of reads), the records it puts, the shard
\* count after it as of its read, and the owner key acquire puts, attached to
\* the etcd lease it was granted.
Txn(s, ownerIs, newOwner, puts, reads, kind, op, fence) ==
    [shard |-> s, ownerIs |-> ownerIs, newOwner |-> newOwner,
     attach |-> IF newOwner = NoOwner THEN NoLease ELSE newOwner.lease,
     puts |-> puts, reads |-> {s} \cup reads, dirty |-> {},
     count |-> IF CounterKey \in reads THEN count + Cardinality(DOMAIN puts) - 1 ELSE 0,
     kind |-> kind, op |-> op, fence |-> fence]

\* Mutation: the revision of the shard record is not compared.
ComparesHoldNoRevision(t) ==
    /\ t.dirty \subseteq {t.shard}
    /\ owner[t.shard] = t.ownerIs
    /\ (DOMAIN t.puts \ {t.shard}) \cap DOMAIN recs = {}

\* build_shard_owner_cas with compare_absent for the shards to be made and
\* compare_tenant_shard_count_revision, compare_run_revision where read.
ComparesHold(t) ==
    /\ t.dirty = {}
    /\ owner[t.shard] = t.ownerIs
    /\ (DOMAIN t.puts \ {t.shard}) \cap DOMAIN recs = {}

\* etcd refuses to attach a key to a lease that has ended.
LeaseAlive(t) == t.attach # NoLease => t.attach \in leases

\* Mutation: the tenant counter is put without a compare on its revision.
WrittenKeysUncounted(t) == DOMAIN t.puts

\* The keys whose revision a transaction moves, for the others that read them.
WrittenKeys(t) ==
    DOMAIN t.puts \cup (IF Cardinality(DOMAIN t.puts) > 1 THEN {CounterKey} ELSE {})

\* A transaction left over after others wrote keys.
Dirtied(t, keys) == [t EXCEPT !.dirty = @ \cup (t.reads \cap keys)]

\* Mutation: a split leaves the parent in the index of active shards.
IndexAfterSplitKeeps(t) ==
    LET made == DOMAIN t.puts \ {t.shard}
    IN (index \ (IF t.kind \in {"Complete", "Park"} THEN {t.shard} ELSE {}))
       \cup made \cup (IF t.kind = "Unpark" THEN {t.shard} ELSE {})

\* The shard_active_index_key puts and deletes of the operations.
IndexAfter(t) ==
    LET made == DOMAIN t.puts \ {t.shard}
    IN (index \ (IF t.kind \in {"Complete", "Park", "SplitReplace"} THEN {t.shard} ELSE {}))
       \cup made \cup (IF t.kind = "Unpark" THEN {t.shard} ELSE {})

\* Mutation: park leaves the owner key behind.
DeletesOwnerUnlessParked(kind) == kind \in {"Complete", "SplitReplace"}

\* The operations whose transaction deletes the owner key.
DeletesOwner(kind) == kind \in {"Complete", "Park", "SplitReplace"}

\* The owner key of shard x once t is applied.
OwnerAfter(t, x) ==
    IF x \notin DOMAIN owner THEN NoOwner
    ELSE IF x # t.shard THEN owner[x]
    ELSE IF t.newOwner # NoOwner THEN t.newOwner
    ELSE IF DeletesOwner(t.kind) THEN NoOwner
    ELSE owner[x]

\* The effect of transaction t on etcd when gone are the leases that end with
\* it, and with them the owner keys attached to them.
Apply(t, gone) ==
    /\ recs' = Fenced!Written(recs, t.puts)
    /\ leases' = leases \ gone
    /\ owner' = [x \in DOMAIN recs' |->
                    LET o == OwnerAfter(t, x)
                    IN IF o # NoOwner /\ o.lease \in gone THEN NoOwner ELSE o]
    /\ index' = IndexAfter(t)
    /\ count' = IF CounterKey \in t.reads THEN t.count ELSE count
    /\ history' = Fenced!Counted(history, t.kind, t.shard, t.op, t.fence)

\* best_effort_revoke_lease on each of ids: any of the calls may fail.
Revoked(ids) == SUBSET (ids \cap leases)

\* etcd leases end, and the owner keys attached to them are gone.
LeasesEnd(gone) ==
    /\ leases' = leases \ gone
    /\ owner' = [x \in DOMAIN owner |->
                    IF owner[x] # NoOwner /\ owner[x].lease \in gone THEN NoOwner ELSE owner[x]]
    /\ UNCHANGED <<recs, index, count, history>>

-----------------------------------------------------------------------------
(* One attempt of each operation: the transactions it may send             *)

\* Mutation: the deadline is compared one tick early.
AcquireTxnsEarly(c) ==
    LET r == recs[c.shard]
    IN {Txn(c.shard, owner[c.shard], [worker |-> c.worker, fence |-> r.fence + 1, lease |-> l],
            [x \in {c.shard} |-> [r EXCEPT !.fence = r.fence + 1, !.owner = c.worker,
                                           !.deadline = Deadline(c.now)]],
            {}, "Acquire", c.op, r.fence + 1) :
          l \in IF r.status = "Active" /\ ~OwnerIsLiveAt(c.shard, c.now + 1) /\ r.fence < MaxFence
                  THEN EtcdLease \ UsedLeases ELSE {}}

\* acquire_and_restore_into: grant an etcd lease, take the next epoch.
AcquireTxns(c) ==
    LET r == recs[c.shard]
    IN {Txn(c.shard, owner[c.shard], [worker |-> c.worker, fence |-> r.fence + 1, lease |-> l],
            [x \in {c.shard} |-> [r EXCEPT !.fence = r.fence + 1, !.owner = c.worker,
                                           !.deadline = Deadline(c.now)]],
            {}, "Acquire", c.op, r.fence + 1) :
          l \in IF r.status = "Active" /\ ~OwnerIsLiveAt(c.shard, c.now) /\ r.fence < MaxFence
                  THEN EtcdLease \ UsedLeases ELSE {}}

\* validate_loaded_shard_lease
ValidLoadedLease(c) ==
    LET lease == [owner |-> c.worker, fence |-> c.fence]
    IN ValidLease(recs[c.shard], lease, c.now) /\ OwnerMatchesLease(c.shard, lease)

\* renew: the record gets a new deadline, the owner key is only compared.
RenewTxns(c) ==
    LET s == c.shard
        r == [recs[s] EXCEPT !.owner = c.worker, !.deadline = Deadline(c.now)]
    IN IF ValidLoadedLease(c)
         THEN {Txn(s, owner[s], NoOwner, [x \in {s} |-> r], {}, "Renew", c.op, c.fence)}
         ELSE {}

\* An attempt of a lease holder's operation: look for a replay, check the lease
\* against record and owner key, check the request; others are the revisions it
\* compares beside those of the shard.
LeaseOpTxns(c, others) ==
    LET s == c.shard
        r == recs[s]
        sent == /\ IsFresh(s, r, c.op, c.req)
                /\ ValidLoadedLease(c)
                /\ Permitted(r, c.req, count)
                /\ DistinctIds(s, r, c.op, c.req)
    IN IF sent
         THEN {Txn(s, owner[s], NoOwner, Puts(s, r, c.op, c.req), others, c.req[1], c.op, c.fence)}
         ELSE {}

\* checkpoint
CheckpointTxns(c) == LeaseOpTxns(c, {})

\* complete and park_shard
TerminalTxns(c) == LeaseOpTxns(c, {})

\* split_replace and split_residual move the tenant counter too
\* (prepare_tenant_shard_count_mutation).
SplitReplaceTxns(c) == LeaseOpTxns(c, {CounterKey})

SplitResidualTxns(c) == LeaseOpTxns(c, {CounterKey})

\* Mutation: the run record is read but not compared.
UnparkTxnsRunBlind(c) ==
    LET s == c.shard
        r == recs[s]
        sent == /\ ~runEnded
                /\ CheckOpIdempotency(r, c.op, c.req) = "Fresh"
                /\ r.status = "Parked"
                /\ r.fence < MaxFence
    IN IF sent
         THEN {Txn(s, NoOwner, NoOwner, [x \in {s} |-> AfterUnpark(s, r, c.op)],
                   {}, "Unpark", c.op, r.fence)}
         ELSE {}

\* unpark_shard: the shard and the run are two reads, both compared.
UnparkTxns(c) ==
    LET s == c.shard
        r == recs[s]
        sent == /\ ~runEnded
                /\ CheckOpIdempotency(r, c.op, c.req) = "Fresh"
                /\ r.status = "Parked"
                /\ r.fence < MaxFence
    IN IF sent
         THEN {Txn(s, NoOwner, NoOwner, [x \in {s} |-> AfterUnpark(s, r, c.op)],
                   {RunKey}, "Unpark", c.op, r.fence)}
         ELSE {}

AttemptTxns(c) ==
    CASE c.req[1] = "Acquire"            -> AcquireTxns(c)
      [] c.req[1] = "Renew"              -> RenewTxns(c)
      [] c.req[1] = "Unpark"             -> UnparkTxns(c)
      [] c.req[1] = "Checkpoint"         -> CheckpointTxns(c)
      [] c.req[1] \in {"Complete", "Park"} -> TerminalTxns(c)
      [] c.req[1] = "SplitReplace"       -> SplitReplaceTxns(c)
      [] c.req[1] = "SplitResidual"      -> SplitResidualTxns(c)

-----------------------------------------------------------------------------
(* Steps                                                                   *)

Attempt(c, call) ==
    /\ \E t \in AttemptTxns(call) :
          /\ calls' = [calls EXCEPT ![c] = [call EXCEPT !.txn = t]]
          /\ leases' = leases \cup ({t.attach} \ {NoLease})
    /\ UNCHANGED <<now, recs, owner, index, count, runEnded, lost, known, history>>

\* A call begins.  One that fails at once, or is answered from the log, leaves
\* nothing behind and is a stutter.
Start(c, req, s, worker, fence, op) ==
    /\ calls[c] = Idle
    /\ Attempt(c, [req |-> req, shard |-> s, worker |-> worker, fence |-> fence, op |-> op,
                   now |-> now, tries |-> 1, txn |-> Idle])

\* The next attempt of cas_retry, on fresh reads but at the caller's old time.
Retry(c) ==
    /\ calls[c] # Idle
    /\ calls[c].txn = Idle
    /\ \/ Attempt(c, calls[c])
       \/ /\ AttemptTxns(calls[c]) = {}
          /\ calls' = [calls EXCEPT ![c] = Idle]
          /\ UNCHANGED <<now, etcd, runEnded, lost, known>>

\* The outstanding transactions of others after keys were written.  A lost one
\* whose compares fail already is as good as dropped.
OthersSee(c, keys) ==
    /\ calls' = [d \in Client |->
                    IF d = c THEN Idle
                    ELSE IF calls[d] = Idle \/ calls[d].txn = Idle THEN calls[d]
                    ELSE [calls[d] EXCEPT !.txn = Dirtied(@, keys)]]

LostAfter(txns, keys) == {t \in {Dirtied(t, keys) : t \in txns} : t.dirty = {}}

\* The transaction commits and the caller is told.  acquire then revokes the
\* prior lease, complete and park the one that held the owner key.
Commit(c) ==
    /\ calls[c] # Idle
    /\ calls[c].txn # Idle
    /\ LET t == calls[c].txn
       IN /\ ComparesHold(t)
          /\ LeaseAlive(t)
          /\ \E gone \in Revoked(IF t.kind \in {"Acquire", "Complete", "Park"} /\ t.ownerIs # NoOwner
                                    THEN {t.ownerIs.lease} ELSE {}) : Apply(t, gone)
          /\ OthersSee(c, WrittenKeys(t))
          /\ lost' = LostAfter(lost, WrittenKeys(t))
          /\ known' = IF t.kind = "Acquire"
                        THEN known \cup {[shard |-> t.shard, owner |-> t.newOwner.worker, fence |-> t.fence]}
                        ELSE known
    /\ UNCHANGED <<now, runEnded>>

\* The compares fail.  acquire revokes the lease it was granted; then another
\* attempt or, the budget spent, an error that changes nothing.
Conflict(c) ==
    /\ calls[c] # Idle
    /\ calls[c].txn # Idle
    /\ LET t == calls[c].txn
       IN /\ ~ComparesHold(t)
          /\ \E gone \in Revoked({t.attach}) : LeasesEnd(gone)
          /\ calls' = [calls EXCEPT ![c] =
                          IF calls[c].tries < Retries
                            THEN [calls[c] EXCEPT !.tries = @ + 1, !.txn = Idle] ELSE Idle]
    /\ UNCHANGED <<now, runEnded, lost, known>>

\* The transaction call errs: the caller gives up (acquire revokes its lease)
\* while etcd has applied it, will apply it later or never will.
Fail(c) ==
    /\ calls[c] # Idle
    /\ calls[c].txn # Idle
    /\ LET t == calls[c].txn
       IN \/ /\ ComparesHold(t)
             /\ LeaseAlive(t)
             /\ \E gone \in Revoked({t.attach}) : Apply(t, gone)
             /\ OthersSee(c, WrittenKeys(t))
             /\ lost' = LostAfter(lost, WrittenKeys(t))
          \/ /\ Cardinality(lost) < MaxLost
             /\ \E gone \in Revoked({t.attach}) : LeasesEnd(gone)
             /\ OthersSee(c, {})
             /\ lost' = LostAfter(lost \cup {t}, {})
    /\ UNCHANGED <<now, runEnded, known>>

\* A transaction nobody waits for reaches etcd after all.
Deliver(t) ==
    /\ ComparesHold(t)
    /\ LeaseAlive(t)
    /\ Apply(t, {})
    /\ OthersSee(Idle, WrittenKeys(t))
    /\ lost' = LostAfter(lost \ {t}, WrittenKeys(t))
    /\ UNCHANGED <<now, runEnded, known>>

\* It never will.
Drop(t) ==
    /\ lost' = lost \ {t}
    /\ UNCHANGED <<now, etcd, runEnded, calls, known>>

\* An etcd lease runs out: its keep-alives failed or nobody sent any.
Expire(l) ==
    /\ LeasesEnd({l})
    /\ UNCHANGED <<now, runEnded, calls, lost, known>>

\* transition_run_terminal: the run record is put, its active-index key deleted.
EndRun ==
    /\ MayEnd
    /\ ~runEnded
    /\ runEnded' = TRUE
    /\ OthersSee(Idle, {RunKey})
    /\ lost' = LostAfter(lost, {RunKey})
    /\ UNCHANGED <<now, etcd, known>>

Tick ==
    /\ now < MaxTime
    /\ now' = now + 1
    /\ UNCHANGED <<etcd, runEnded, calls, lost, known>>

EtcdNext ==
    \/ Tick
    \/ EndRun
    \/ \E l \in leases : Expire(l)
    \/ \E t \in lost : Deliver(t) \/ Drop(t)
    \/ \E c \in Client :
          \/ Retry(c) \/ Commit(c) \/ Conflict(c) \/ Fail(c)
          \/ \E s \in DOMAIN recs, w \in Worker : Start(c, <<"Acquire">>, s, w, 0, Idle)
          \/ \E g \in known : Start(c, <<"Renew">>, g.shard, g.owner, g.fence, Idle)
          \/ \E g \in known, op \in OpId, req \in LeaseRequests :
                Start(c, req, g.shard, g.owner, g.fence, op)
          \/ \E s \in DOMAIN recs, op \in OpId : Start(c, <<"Unpark", s>>, s, NoWorker, 0, op)

EtcdSpec == EtcdInit /\ [][EtcdNext]_vars

-----------------------------------------------------------------------------
(* Properties                                                              *)

\* Every owner key belongs to the holder and the epoch its record names and to
\* a lease that has not ended: load_shard_record never reports the corruption
\* that validate_owner_consistency looks for, whatever was lost, late or
\* expired.
OwnerKeyConsistent ==
    \A s \in DOMAIN recs :
        owner[s] # NoOwner =>
            /\ recs[s].owner = owner[s].worker
            /\ recs[s].fence = owner[s].fence
            /\ owner[s].lease \in leases

\* The active-index keys, which claim scans read instead of the records, name
\* exactly the Active shards (collect_claim_candidates_into).
IndexExact == index = {s \in DOMAIN recs : recs[s].status = "Active"}

\* The tenant counter, which the shard limit is enforced on, is the number of
\* shards: no concurrent or half-known split is counted twice or not at all.
CounterExact ==
    /\ count = Cardinality(DOMAIN recs)
    /\ count <= MaxShards

\* What is derived from the records and kept beside them, the claim index and the
\* tenant's shard count, is exact after every transaction of concurrent splits
\* (split_replace, split_residual, prepare_tenant_shard_count_mutation).
DerivedKeysExact == IndexExact /\ CounterExact

\* No two workers were told of the same epoch of a shard, nor of one the
\* record has not reached.
EpochsNotShared ==
    /\ \A g \in known : g.fence <= recs[g.shard].fence
    /\ \A g, h \in known : g.shard = h.shard /\ g.fence = h.fence => g = h

\* Ownership over etcd: record, owner key and claim index agree as far as any
\* worker can tell, through parks, expiries and late transactions, and an epoch
\* belongs to one worker (acquire_and_restore_into, renew, park_shard, unpark_shard).
OwnersSound == OwnerKeyConsistent /\ IndexExact /\ EpochsNotShared

\* A shard whose owner key is there and whose deadline has not passed is not
\* taken over, although acquires decide on a read made long before they commit.
LiveOwnerKept ==
    [][\A s \in DOMAIN recs : OwnerIsLiveAt(s, now) => recs'[s].fence = recs[s].fence]_vars

\* No shard is reopened once its run has ended, although unpark_shard reads the
\* run before it writes the shard.
EndedRunStaysShut ==
    [][runEnded => \A s \in DOMAIN recs :
          recs[s].status = "Parked" => recs'[s].status = "Parked"]_vars

\* Over etcd, with lost and late transactions, early TTL expiry, conflicts and
\* stale clocks, the records change only as FencedShards allows: every effect
\* under the epoch and in the hands of the holder the record names, every
\* OpId executed where the log and the lineage know nothing of it.
ImplementsFenced == Fenced!FencedSpec
=============================================================================
