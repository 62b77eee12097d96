---------------------------- MODULE ThreatHintLedger ----------------------------
(***************************************************************************)
(* ThreatHintReplayLedger of jaeger/threat_hint_ingress.py: one SQLite file*)
(* with the replay table hint_admissions, the table analyzer_outbox of the *)
(* jobs that are still owed to the analyzer, and a high-water time.        *)
(*                                                                         *)
(* A hint stands for one canonical wire, so it is its own payload digest.  *)
(* Every operator below is one BEGIN IMMEDIATE ... COMMIT transaction; an  *)
(* exception inside it rolls all of it back, the high-water time included. *)
(***************************************************************************)
EXTENDS Integers, FiniteSets

CONSTANTS
    Hints,            \* the wires
    Nonce,            \* [Hints -> report_nonce]
    ThreatHash,       \* [Hints -> threat_hash]
    ObservedAt,       \* [Hints -> Nat]: the observed_at field
    Networks,         \* network ids a service may be configured for
    Times,            \* the timestamps that occur
    MaxHintAge,       \* MAX_HINT_AGE_SECONDS
    MaxFutureSkew     \* MAX_FUTURE_SKEW_SECONDS

ASSUME HintAssumption ==
    /\ ObservedAt \in [Hints -> Nat]
    /\ Times \subseteq Nat
    /\ MaxHintAge \in Nat
    /\ MaxFutureSkew \in Nat
    /\ Networks # {}

VARIABLES
    admissions,       \* hints with a row in hint_admissions
    outbox,           \* hints with a row in analyzer_outbox
    admitted_at,      \* column admitted_at of both rows
    network_of,       \* column network_id of the outbox row
    delivered_at,     \* column delivered_at of the outbox row, or Null
    high_water,       \* ledger_state.high_water_seconds
    accepted          \* history: every hint for which admit said "accepted"

ledgerVars == <<admissions, outbox, admitted_at, network_of, delivered_at,
                high_water, accepted>>

Null == -1

ExpiresAt(h) == ObservedAt[h] + MaxHintAge

IsFresh(h, now) ==
    /\ ObservedAt[h] <= now + MaxFutureSkew
    /\ now <= ExpiresAt(h)

\* The three UNIQUE columns: report_nonce, threat_hash, payload_digest.
SharesKey(h, g) == Nonce[h] = Nonce[g] \/ ThreatHash[h] = ThreatHash[g] \/ h = g

Undelivered == {h \in outbox : delivered_at[h] = Null}

LedgerInit ==
    /\ admissions = {}
    /\ outbox = {}
    /\ admitted_at = [h \in Hints |-> 0]
    /\ network_of = [h \in Hints |-> CHOOSE net \in Networks : TRUE]
    /\ delivered_at = [h \in Hints |-> Null]
    /\ high_water = 0
    /\ accepted = {}

-----------------------------------------------------------------------------
(* admit *)

\* Mutant: the DELETE forgets "delivered_at IS NOT NULL".
OutboxPrunedByAge(now) == outbox \ {h \in admissions : ExpiresAt(h) < now}

\* Delivered jobs of expired hints go first, then the expired hints without a job.
OutboxAfterPrune(now) ==
    outbox \ {h \in admissions : ExpiresAt(h) < now /\ delivered_at[h] # Null}

AdmissionsAfterPrune(now) ==
    {h \in admissions : ExpiresAt(h) >= now \/ h \in OutboxAfterPrune(now)}

\* _advance_time raises: the captured time is behind the committed one.
ClockBehind(now) == now < high_water

\* Mutant: threat_hash is not UNIQUE.
NonceTaken(h, now) ==
    \E g \in AdmissionsAfterPrune(now) : Nonce[h] = Nonce[g] \/ h = g

\* One of the two INSERTs hits a UNIQUE column of a row that survived the prune.
KeyTaken(h, now) == \E g \in AdmissionsAfterPrune(now) : SharesKey(h, g)

AdmitCommit(h, now, net) ==
    /\ IsFresh(h, now)
    /\ ~ ClockBehind(now)
    /\ ~ KeyTaken(h, now)
    /\ high_water' = now
    /\ outbox' = OutboxAfterPrune(now) \cup {h}
    /\ admissions' = AdmissionsAfterPrune(now) \cup {h}
    /\ admitted_at' = [admitted_at EXCEPT ![h] = now]
    /\ network_of' = [network_of EXCEPT ![h] = net]
    /\ delivered_at' = [delivered_at EXCEPT ![h] = Null]
    /\ accepted' = accepted \cup {h}

-----------------------------------------------------------------------------
(* mark_delivered: COALESCE keeps the first delivery time; an unknown job is *)
(* an error, which the caller models.                                        *)
MarkDelivered(h, now) ==
    /\ h \in outbox
    /\ delivered_at' = [delivered_at EXCEPT
                            ![h] = IF @ = Null THEN now ELSE @]
    /\ UNCHANGED <<admissions, outbox, admitted_at, network_of, high_water, accepted>>

-----------------------------------------------------------------------------
(* The ledger on its own, driven by any callers at any times. *)

LedgerNext ==
    \/ \E h \in Hints, now \in Times, net \in Networks : AdmitCommit(h, now, net)
    \/ \E h \in Hints, now \in Times : MarkDelivered(h, now)

LedgerSpec == LedgerInit /\ [][LedgerNext]_ledgerVars

LedgerTypeOK ==
    /\ admissions \in SUBSET Hints
    /\ outbox \in SUBSET Hints
    /\ admitted_at \in [Hints -> Nat]
    /\ network_of \in [Hints -> Networks]
    /\ delivered_at \in [Hints -> Nat \cup {Null}]
    /\ high_water \in Nat
    /\ accepted \in SUBSET Hints

\* The promise of ReplayGuard, with the hint's last fresh moment as its last use.
Guard == INSTANCE ReplayGuard WITH
    Items <- Hints,
    LastUse <- [h \in Hints |-> ExpiresAt(h)],
    ConflictPairs <- {p \in Hints \X Hints : SharesKey(p[1], p[2])},
    mark <- high_water,
    used <- accepted

\* Pruning hint_admissions never lets a hint, or one that shares its nonce or its
\* threat hash, in again while the first one is still fresh: the ledger implements
\* ReplayGuard, although it forgets rows and ReplayGuard does not.
ReplaySafe == Guard!Spec

\* Whatever is forgotten is expired for every time the ledger can still accept.
ForgottenIsExpired ==
    \A h \in accepted \ admissions : ExpiresAt(h) < high_water

\* Rows of hint_admissions never collide on a UNIQUE column, every job has its
\* admission (the FOREIGN KEY), and an admission only outlives its job's removal
\* within the transaction that prunes both.
RowsConsistent ==
    /\ outbox = admissions
    /\ admissions \subseteq accepted
    /\ \A g, h \in admissions : g # h => ~ SharesKey(g, h)

\* A job is dropped only once it was delivered and its hint has expired: an accepted
\* hint that was never delivered is still in analyzer_outbox, whatever was pruned.
NoJobLost ==
    \A h \in accepted : delivered_at[h] = Null => h \in outbox

\* The delivery time of a job never changes once it is set, and no transaction moves
\* the high-water time back.
DeliveryIsFinal ==
    [][/\ high_water' >= high_water
       /\ \A h \in Hints : delivered_at[h] # Null => delivered_at'[h] = delivered_at[h]]_ledgerVars

================================================================================
