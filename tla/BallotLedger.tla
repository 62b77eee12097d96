------------------------------ MODULE BallotLedger ------------------------------
(***************************************************************************)
(* ReplayLedger and AuthenticatedBallotCollector of jaeger/signed_ballots  *)
(* .py with the strict-majority gate of jaeger/ensemble.py.                *)
(*                                                                         *)
(* A ballot stands for one canonical signed wire of one session.  consume  *)
(* and prune_expired are BEGIN IMMEDIATE transactions that first move the  *)
(* high-water time; evaluate reads the stored wires of a session in one    *)
(* SELECT and verifies every one of them again.                            *)
(***************************************************************************)
EXTENDS Integers, FiniteSets

CONSTANTS
    Sessions,         \* BallotSession commitments
    Committee,        \* [Sessions -> the guardians of its membership snapshot]
    ValidFrom,        \* [Sessions -> Nat]: valid_from_ms
    ValidUntil,       \* [Sessions -> Nat]: valid_until_ms
    Ballots,          \* the wires
    SessionOf,        \* [Ballots -> Sessions]
    GuardianOf,       \* [Ballots -> guardian_id]
    NonceOf,          \* [Ballots -> nonce]
    IssuedAt,         \* [Ballots -> Nat]: issued_at_ms
    ExpiresAt,        \* [Ballots -> Nat]: expires_at_ms
    Authentic,        \* ballots whose shape, bindings and BIP340 signature verify
    Approving,        \* ballots with decision "approve"
    Confident,        \* ballots with confidence_bps >= MIN_CONFIDENCE_BPS
    MaxClockSkew,     \* MAX_CLOCK_SKEW_MS
    MaxBallotLifetime,\* MAX_BALLOT_LIFETIME_MS
    Times             \* the timestamps that occur

ASSUME BallotAssumption ==
    /\ ValidFrom \in [Sessions -> Nat]
    /\ ValidUntil \in [Sessions -> Nat]
    /\ SessionOf \in [Ballots -> Sessions]
    /\ IssuedAt \in [Ballots -> Nat]
    /\ ExpiresAt \in [Ballots -> Nat]
    /\ \A s \in Sessions : IsFiniteSet(Committee[s])
    /\ MaxClockSkew \in Nat
    /\ MaxBallotLifetime \in Nat
    /\ Times \subseteq Nat

VARIABLES
    rows,             \* accepted_ballots
    high_water,       \* ledger_state.high_water_ms
    accepted,         \* history: every ballot consume has persisted
    outcomes          \* history: what evaluate said of complete ballots

ballotVars == <<rows, high_water, accepted, outcomes>>

BallotInit ==
    /\ rows = {}
    /\ high_water = 0
    /\ accepted = {}
    /\ outcomes = {}

-----------------------------------------------------------------------------
(* BallotVerifier.verify *)

IsFreshEnvelope(b, now) ==
    LET s == SessionOf[b] IN
    /\ ValidFrom[s] <= IssuedAt[b]
    /\ ExpiresAt[b] <= ValidUntil[s]
    /\ IssuedAt[b] <= now + MaxClockSkew
    /\ now < ExpiresAt[b]
    /\ ExpiresAt[b] - IssuedAt[b] \in 1 .. MaxBallotLifetime

Verify(b, now) ==
    /\ b \in Authentic
    /\ GuardianOf[b] \in Committee[SessionOf[b]]
    /\ IsFreshEnvelope(b, now)

-----------------------------------------------------------------------------
(* ReplayLedger *)

\* PRIMARY KEY (session_id, guardian_id) and UNIQUE (session_id, nonce).
SharesKey(b, c) ==
    /\ SessionOf[b] = SessionOf[c]
    /\ GuardianOf[b] = GuardianOf[c] \/ NonceOf[b] = NonceOf[c]

ClockBehind(now) == now < high_water

\* Mutant: no PRIMARY KEY (session_id, guardian_id).
NonceTaken(b) ==
    \E c \in rows : SessionOf[b] = SessionOf[c] /\ NonceOf[b] = NonceOf[c]

KeyTaken(b) == \E c \in rows : SharesKey(b, c)

\* accept_wire: verify, then consume at the same time.
Consume(b, now) ==
    /\ Verify(b, now)
    /\ ~ ClockBehind(now)
    /\ ~ KeyTaken(b)
    /\ high_water' = now
    /\ rows' = rows \cup {b}
    /\ accepted' = accepted \cup {b}
    /\ UNCHANGED outcomes

\* prune_expired drops whole sessions that are over.
PruneExpired(now) ==
    /\ ~ ClockBehind(now)
    /\ high_water' = now
    /\ rows' = {b \in rows : ValidUntil[SessionOf[b]] > now}
    /\ UNCHANGED <<accepted, outcomes>>

-----------------------------------------------------------------------------
(* AuthenticatedBallotCollector.evaluate and EnsembleVoter.evaluate *)

SessionWires(s) == {b \in rows : SessionOf[b] = s}

\* One stored wire that fails verification empties the whole ballot.
Votes(s, now) ==
    IF \A b \in SessionWires(s) : Verify(b, now) THEN SessionWires(s) ELSE {}

\* Mutant: a majority of the committee is enough to decide.
QuorumPresent(s, votes) == 2 * Cardinality(votes) > Cardinality(Committee[s])

\* _validate_ballot: exactly one vote of every member of the committee.
Complete(s, votes) ==
    /\ Cardinality(votes) = Cardinality(Committee[s])
    /\ {GuardianOf[b] : b \in votes} = Committee[s]

\* One unconfident approval fails the ballot; otherwise a strict majority decides.
Approved(s, votes) ==
    LET approvals == votes \cap Approving IN
    /\ approvals \subseteq Confident
    /\ Cardinality(approvals) > Cardinality(Committee[s]) \div 2

\* An incomplete ballot is not submitted and leaves no trace.
Evaluate(s, now) ==
    LET votes == Votes(s, now) IN
    /\ Complete(s, votes)
    /\ outcomes' = outcomes \cup
            {[session |-> s, ballots |-> votes, approved |-> Approved(s, votes)]}
    /\ UNCHANGED <<rows, high_water, accepted>>

-----------------------------------------------------------------------------
(* The ledger on its own, used at any times in any order. *)

BallotNext ==
    \/ \E b \in Ballots, now \in Times : Consume(b, now)
    \/ \E now \in Times : PruneExpired(now)
    \/ \E s \in Sessions, now \in Times : Evaluate(s, now)

BallotSpec == BallotInit /\ [][BallotNext]_ballotVars

-----------------------------------------------------------------------------
(* Properties *)

BallotTypeOK ==
    /\ rows \in SUBSET Ballots
    /\ high_water \in Nat
    /\ accepted \in SUBSET Ballots
    /\ outcomes \subseteq [session : Sessions, ballots : SUBSET Ballots, approved : BOOLEAN]

\* The promise of ReplayGuard: a ballot may be used until its session is over.
Guard == INSTANCE ReplayGuard WITH
    Items <- Ballots,
    LastUse <- [b \in Ballots |-> ValidUntil[SessionOf[b]] - 1],
    ConflictPairs <- {p \in Ballots \X Ballots : SharesKey(p[1], p[2])},
    mark <- high_water,
    used <- accepted

\* "A persistent time high-water mark fails closed after wall-clock rollback so an
\* already pruned session cannot reopen": with its prune, the ledger implements the
\* guard that forgets nothing.
ReplaySafe == Guard!Spec

\* Nobody votes twice in a session, and no nonce serves twice, over the whole life of
\* the ledger: pruned ballots count.
OneBallotPerGuardian ==
    \A b, c \in accepted : SharesKey(b, c) => b = c

\* A session with a complete ballot has one outcome: whenever and however often it is
\* evaluated, before and after restarts, clock changes and prunes, a complete ballot
\* has the same votes and the same decision.
OutcomeStable ==
    \A o, p \in outcomes : o.session = p.session => o = p

\* An approval rests on accepted, authentic ballots of more than half the committee,
\* each from another member.
ApprovalBacked ==
    \A o \in outcomes : o.approved =>
        \E A \in SUBSET (o.ballots \cap Approving) :
            /\ A \subseteq accepted \cap Authentic \cap Confident
            /\ 2 * Cardinality({GuardianOf[b] : b \in A}) > Cardinality(Committee[o.session])

================================================================================
