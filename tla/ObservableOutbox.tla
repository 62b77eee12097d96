---------------------------- MODULE ObservableOutbox ----------------------------
(***************************************************************************)
(* The approval consumption ledger and its durable outbox, jaeger/         *)
(* observable_approval_consumption.py.                                     *)
(*                                                                         *)
(* Every operation is one BEGIN IMMEDIATE transaction at a time its caller *)
(* supplies.  Only consumption holds those times against the high-water    *)
(* mark; claim, complete and result take them as they come, so here they   *)
(* are any member of Times.  A lease token is fresh and random: the n-th   *)
(* claim's token is n, 0 stands for NULL.  A completion token is made once *)
(* per claim by the claimant and is identified with it.  An operation that *)
(* raises rolls its whole transaction back and is not a step.              *)
(***************************************************************************)
EXTENDS Integers, FiniteSets, Sequences

CONSTANTS
    Approvals,        \* verified approvals, by approval_id
    IdOrder,          \* [Approvals -> Nat]: approval_id as an ordering key
    SignerOf,         \* [Approvals -> <<approver key, recipient scope>>]
    NonceOf,          \* [Approvals -> <<approver key, approval_nonce>>]
    StatementOf,      \* [Approvals -> statement_digest]
    CommitmentOf,     \* [Approvals -> observable_commitment]
    NotBefore,        \* [Approvals -> Nat]: not_before
    ExpiresAt,        \* [Approvals -> Nat]: expires_at
    Bindings,         \* governance, retention and promotion policy snapshots
    NoBinding,        \* authority_state has no row yet
    Network,          \* [Bindings -> network_id]
    Identity,         \* [Bindings -> <<approver key, recipient scope>>]
    Epoch,            \* [Bindings -> Nat]: authority_epoch
    AuthorityFrom,    \* [Bindings -> Nat]: authority_not_before
    AuthorityUntil,   \* [Bindings -> Nat]: authority_not_after
    Durable,          \* bindings whose service has durable_outbox
    MaxPending,       \* [Bindings -> Nat]: max_pending_records
    MaxRetention,     \* [Bindings -> Nat]: max_retention_seconds
    LeaseSeconds,     \* the lease lengths callers ask for
    Wires,            \* canonical analysis results
    Times,            \* the timestamps callers supply
    MaxClaims         \* bound: claims that are issued

ASSUME OutboxAssumption ==
    /\ IdOrder \in [Approvals -> Nat]
    /\ \A a, b \in Approvals : IdOrder[a] = IdOrder[b] => a = b
    /\ NotBefore \in [Approvals -> Nat]
    /\ ExpiresAt \in [Approvals -> Nat]
    /\ NoBinding \notin Bindings
    /\ Epoch \in [Bindings -> Nat]
    /\ AuthorityFrom \in [Bindings -> Nat]
    /\ AuthorityUntil \in [Bindings -> Nat]
    /\ Durable \subseteq Bindings
    /\ MaxPending \in [Bindings -> Nat \ {0}]
    /\ MaxRetention \in [Bindings -> Nat \ {0}]
    /\ LeaseSeconds \subseteq Nat \ {0}
    /\ Times \subseteq Nat
    /\ MaxClaims \in Nat

VARIABLES
    authority,        \* authority_state, the binding it pins
    high_water,       \* ledger_state.high_water_seconds
    consumptions,     \* approval_consumptions
    pairings,         \* threat_hint_v2_pairings, by approval
    outbox,           \* approval_outbox, by approval
    enqueued_at,      \* [Approvals -> Nat], of the outbox rows
    deadline,         \* [Approvals -> Nat]: retention_deadline
    lease,            \* [Approvals -> Nat]: lease_token of the outbox rows
    claims,           \* the claims issued; the n-th carries token n
    results,          \* observable_analysis_results
    completed,        \* history: every result ever stored
    under,            \* history: the binding a governed consumption was made under
    consumed_at,      \* history: consumed_at of the governed consumptions
    seen              \* history: the largest time a transaction has used

ledgerVars == <<authority, high_water, consumptions, under, consumed_at>>
rowVars == <<pairings, outbox, enqueued_at, deadline, lease>>
outboxVars == <<ledgerVars, rowVars, claims, results, completed, seen>>

Zero == [a \in Approvals |-> 0]

OutboxInit ==
    /\ authority = NoBinding
    /\ high_water = 0
    /\ consumptions = {}
    /\ pairings = {}
    /\ outbox = {}
    /\ enqueued_at = Zero
    /\ deadline = Zero
    /\ lease = Zero
    /\ claims = << >>
    /\ results = {}
    /\ completed = {}
    /\ under = [a \in Approvals |-> NoBinding]
    /\ consumed_at = Zero
    /\ seen = 0

Later(s, t) == IF t > s THEN t ELSE s

-----------------------------------------------------------------------------
(* ObservableApprovalConsumptionService and _ObservableApprovalLedger *)

\* _verify and _validate_governance.
Verified(a, g, t) ==
    /\ SignerOf[a] = Identity[g]
    /\ t \in NotBefore[a] .. ExpiresAt[a]
    /\ t \in AuthorityFrom[g] .. AuthorityUntil[g]
    /\ AuthorityFrom[g] <= NotBefore[a]
    /\ ExpiresAt[a] <= AuthorityUntil[g]

\* Mutant: any other epoch replaces the pinned one.
AuthorityDiffers(g) ==
    authority \notin {NoBinding, g} =>
        Network[g] = Network[authority] /\ Epoch[g] # Epoch[authority]

\* _validate_authority_snapshot.  Equal epochs must pin the same snapshot.
AuthorityAllows(g) ==
    authority \notin {NoBinding, g} =>
        /\ Network[g] = Network[authority]
        /\ Epoch[g] > Epoch[authority]
        /\ Identity[g] = Identity[authority] =>
               AuthorityFrom[g] > AuthorityUntil[authority]

\* _advance_time.
ClockBehind(t) == t < high_water

\* PRIMARY KEY (approval_id), UNIQUE (approver_xonly_public_key, approval_nonce).
Replayed(a) == \E b \in consumptions : b = a \/ NonceOf[b] = NonceOf[a]

\* Mutant: the statement and the bundle are looked up among the pending rows.
PendingTaken(a) ==
    \E b \in outbox :
        b = a \/ StatementOf[b] = StatementOf[a] \/ CommitmentOf[b] = CommitmentOf[a]

\* The unique columns of threat_hint_v2_pairings.
PairingTaken(a) ==
    \E b \in pairings :
        b = a \/ StatementOf[b] = StatementOf[a] \/ CommitmentOf[b] = CommitmentOf[a]

\* Retention cleanup, the same two DELETEs in consume, claim and complete.
OutboxKept(t) == {a \in outbox : deadline[a] > t}

ResultsKept(t) == {r \in results : deadline[r.approval] > t}

\* _consume up to the outbox: authority, time and replay state move together.
ConsumeApproval(a, g, t) ==
    /\ Verified(a, g, t)
    /\ AuthorityAllows(g)
    /\ ~ ClockBehind(t)
    /\ ~ Replayed(a)
    /\ authority' = g
    /\ high_water' = t
    /\ consumptions' = consumptions \cup {a}
    /\ under' = [under EXCEPT ![a] = g]
    /\ consumed_at' = [consumed_at EXCEPT ![a] = t]

\* Mutant: a full outbox drops the new record instead of failing the consumption.
EnqueueIfRoom(a, g, t) ==
    /\ ~ PairingTaken(a)
    /\ outbox' = IF Cardinality(OutboxKept(t)) < MaxPending[g]
                 THEN OutboxKept(t) \cup {a} ELSE OutboxKept(t)
    /\ results' = ResultsKept(t)
    /\ pairings' = pairings \cup {a}
    /\ enqueued_at' = [enqueued_at EXCEPT ![a] = t]
    /\ deadline' = [deadline EXCEPT ![a] = t + MaxRetention[g]]
    /\ lease' = [lease EXCEPT ![a] = 0]
    /\ seen' = Later(seen, t)

\* _enqueue_outbox: clean up, check the capacity, insert the row and its pairing.
EnqueueOutbox(a, g, t) ==
    /\ Cardinality(OutboxKept(t)) < MaxPending[g]
    /\ ~ PairingTaken(a)
    /\ outbox' = OutboxKept(t) \cup {a}
    /\ results' = ResultsKept(t)
    /\ pairings' = pairings \cup {a}
    /\ enqueued_at' = [enqueued_at EXCEPT ![a] = t]
    /\ deadline' = [deadline EXCEPT ![a] = t + MaxRetention[g]]
    /\ lease' = [lease EXCEPT ![a] = 0]
    /\ seen' = Later(seen, t)

\* consume_governed of a service with the durable outbox.
ConsumeDurable(a, g, t) ==
    /\ g \in Durable
    /\ ConsumeApproval(a, g, t)
    /\ EnqueueOutbox(a, g, t)
    /\ UNCHANGED <<claims, completed>>

\* consume_governed of a service without it.
ConsumeGoverned(a, g, t) ==
    /\ g \notin Durable
    /\ ConsumeApproval(a, g, t)
    /\ seen' = Later(seen, t)
    /\ UNCHANGED <<rowVars, claims, results, completed>>

-----------------------------------------------------------------------------
(* ObservableApprovalOutbox *)

\* Mutant: a record that was leased once is never offered again.
NeverLeased(a, t) == lease[a] = 0

\* lease_expires_at IS NULL OR lease_expires_at <= t.
LeaseOver(a, t) == lease[a] = 0 \/ claims[lease[a]].expires <= t

Eligible(t) == {a \in OutboxKept(t) : LeaseOver(a, t)}

\* ORDER BY enqueued_at, approval_id LIMIT 1.
Oldest(a, S) ==
    /\ a \in S
    /\ \A b \in S :
           \/ enqueued_at[a] < enqueued_at[b]
           \/ enqueued_at[a] = enqueued_at[b] /\ IdOrder[a] <= IdOrder[b]

LeaseEnd(a, t, secs) == IF t + secs < deadline[a] THEN t + secs ELSE deadline[a]

CleanUp(t) ==
    /\ outbox' = OutboxKept(t)
    /\ results' = ResultsKept(t)
    /\ seen' = Later(seen, t)

Claim(t, secs) ==
    /\ Len(claims) < MaxClaims
    /\ CleanUp(t)
    /\ \E a \in Approvals :
           /\ Oldest(a, Eligible(t))
           /\ claims' = Append(claims, [approval   |-> a,
                                        claimed_at |-> t,
                                        expires    |-> LeaseEnd(a, t, secs)])
           /\ lease' = [lease EXCEPT ![a] = Len(claims) + 1]
    /\ UNCHANGED <<ledgerVars, pairings, enqueued_at, deadline, completed>>

\* claim returns None; the cleanup before it is committed.
ClaimNothing(t) ==
    /\ Eligible(t) = {}
    /\ CleanUp(t)
    /\ UNCHANGED <<ledgerVars, pairings, enqueued_at, deadline, lease, claims, completed>>

\* Mutant: any unexpired lease of the row will do.
RowIsLeased(n, t) ==
    LET a == claims[n].approval IN
    /\ a \in OutboxKept(t)
    /\ lease[a] # 0
    /\ claims[lease[a]].expires > t

\* The row still carries token n and its lease has not run out.
HoldsLease(n, t) ==
    LET a == claims[n].approval IN
    /\ a \in OutboxKept(t)
    /\ lease[a] = n
    /\ claims[n].expires > t

Completion(n, wire, t) ==
    [approval |-> claims[n].approval, claim |-> n, wire |-> wire, completed_at |-> t]

\* complete: insert the result and delete the leased row.
Complete(n, wire, t) ==
    /\ HoldsLease(n, t)
    /\ results' = ResultsKept(t) \cup {Completion(n, wire, t)}
    /\ outbox' = OutboxKept(t) \ {claims[n].approval}
    /\ completed' = completed \cup {Completion(n, wire, t)}
    /\ seen' = Later(seen, t)
    /\ UNCHANGED <<ledgerVars, pairings, enqueued_at, deadline, lease, claims>>

\* complete without a row: only the exact call that stored the result succeeds.
RetryComplete(n, wire, t) ==
    /\ claims[n].approval \notin OutboxKept(t)
    /\ \E r \in ResultsKept(t) : r.claim = n /\ r.wire = wire
    /\ CleanUp(t)
    /\ UNCHANGED <<ledgerVars, pairings, enqueued_at, deadline, lease, claims, completed>>

\* result cleans up the results only.
Result(t) ==
    /\ results' = ResultsKept(t)
    /\ seen' = Later(seen, t)
    /\ UNCHANGED <<ledgerVars, rowVars, claims, completed>>

-----------------------------------------------------------------------------

OutboxNext ==
    \E t \in Times :
        \/ \E a \in Approvals, g \in Bindings :
               ConsumeDurable(a, g, t) \/ ConsumeGoverned(a, g, t)
        \/ \E secs \in LeaseSeconds : Claim(t, secs)
        \/ ClaimNothing(t)
        \/ \E n \in DOMAIN claims, wire \in Wires :
               Complete(n, wire, t) \/ RetryComplete(n, wire, t)
        \/ Result(t)

OutboxSpec == OutboxInit /\ [][OutboxNext]_outboxVars

-----------------------------------------------------------------------------
(* Properties *)

ClaimRecords == [approval : Approvals, claimed_at : Nat, expires : Nat]

CompletionRecords ==
    [approval : Approvals, claim : Nat, wire : Wires, completed_at : Nat]

\* Every table holds rows of its columns' types, and leased rows name issued claims.
OutboxTypeOK ==
    /\ authority \in Bindings \cup {NoBinding}
    /\ high_water \in Nat
    /\ consumptions \subseteq Approvals
    /\ pairings \subseteq consumptions
    /\ outbox \subseteq pairings
    /\ enqueued_at \in [Approvals -> Nat]
    /\ deadline \in [Approvals -> Nat]
    /\ lease \in [Approvals -> 0 .. Len(claims)]
    /\ claims \in Seq(ClaimRecords)
    /\ results \subseteq completed
    /\ completed \subseteq CompletionRecords
    /\ under \in [Approvals -> Bindings \cup {NoBinding}]
    /\ consumed_at \in [Approvals -> Nat]
    /\ seen \in Nat

\* Leases of one record never overlap in time, whatever times the claimants
\* supply and in whatever order their transactions run.
LeasesDisjoint ==
    \A i, j \in DOMAIN claims :
        i < j /\ claims[i].approval = claims[j].approval
            => claims[i].expires <= claims[j].claimed_at

\* _enqueue_outbox's comment: a lease never extends past its record's retention
\* deadline, so that no cleanup removes a record under an active lease.
LeaseWithinRetention ==
    \A n \in DOMAIN claims :
        /\ claims[n].claimed_at < claims[n].expires
        /\ claims[n].expires <= deadline[claims[n].approval]

\* A record has one result for ever, stored under its last lease and within it:
\* a worker whose lease was taken over can neither store nor replace a result.
LastLeaseWins ==
    \A c \in completed :
        /\ claims[c.claim].approval = c.approval
        /\ c.completed_at < claims[c.claim].expires
        /\ \A n \in DOMAIN claims : claims[n].approval = c.approval => n <= c.claim
        /\ \A d \in completed : d.approval = c.approval => d = c

\* A durably consumed approval is waiting, has been completed, or its retention
\* deadline has been reached: no failure on the way consumes it without a trace.
NoApprovalLost ==
    \A a \in consumptions :
        under[a] \in Durable =>
            \/ a \in outbox
            \/ \E c \in completed : c.approval = a
            \/ a \in pairings /\ deadline[a] <= seen

\* No nonce, statement or observable bundle reaches a worker under two approvals,
\* not even after its row, its result and its approval have all expired.
AnalysedUnderOneApproval ==
    \A i, j \in DOMAIN claims :
        LET a == claims[i].approval  b == claims[j].approval IN
        \/ a = b
        \/ /\ NonceOf[a] # NonceOf[b]
           /\ StatementOf[a] # StatementOf[b]
           /\ CommitmentOf[a] # CommitmentOf[b]

\* Authority epochs follow the time of consumption: once a later epoch has
\* consumed an approval, no service of an earlier one consumes at a later time.
EpochsFollowTime ==
    \A a, b \in consumptions :
        consumed_at[a] < consumed_at[b] => Epoch[under[a]] <= Epoch[under[b]]

\* WHITEPAPER.md: "Same-identity authority windows must not overlap."
SameIdentityWindowsDisjoint ==
    \A a, b \in consumptions :
        LET g == under[a]  h == under[b] IN
        Identity[g] = Identity[h] /\ Epoch[g] < Epoch[h]
            => AuthorityUntil[g] < AuthorityFrom[h]
=============================================================================
