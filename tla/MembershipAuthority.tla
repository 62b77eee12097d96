-------------------------- MODULE MembershipAuthority --------------------------
(***************************************************************************)
(* GuardianMembershipAuthority of jaeger/guardian_membership_transition.py:*)
(* the signed chain of membership sources, the rotation of the authority   *)
(* key, and the sessions BallotIngress.establish_session derives from the  *)
(* current source under the ledger's lock.                                 *)
(*                                                                         *)
(* Each write is one BEGIN IMMEDIATE ... COMMIT transaction that validates *)
(* the whole ledger first.  A source stands for its canonical bytes and    *)
(* its digest; a signature is named by the one key it verifies under.      *)
(***************************************************************************)
EXTENDS Integers, FiniteSets

CONSTANTS
    Keys,             \* x-only public keys
    Sources,          \* membership sources
    SourceEpoch,      \* [Sources -> Nat]: the epoch inside a source
    Bootstrap,        \* the source the policy pins
    GenesisKey,       \* the authority key the policy pins
    Nonces,           \* nonces of signed statements
    Transitions,      \* the transition wires that may be presented
    Rotations,        \* the rotation wires that may be presented
    MaxWindow,        \* MAX_MEMBERSHIP_TRANSITION_WINDOW_MS and its twin for rotations
    Times             \* the timestamps that occur

TransitionWires ==
    [nonce : Nonces, previous_epoch : Nat, previous_source : Sources,
     next_epoch : Nat, next_source : Sources,
     not_before : Nat, not_after : Nat, signer : Keys]

RotationWires ==
    [nonce : Nonces, previous_epoch : Nat, previous_key : Keys,
     next_epoch : Nat, next_key : Keys,
     membership_epoch : Nat, membership_source : Sources,
     not_before : Nat, not_after : Nat, authorised_by : Keys, possessed_by : Keys]

ASSUME AuthorityAssumption ==
    /\ SourceEpoch \in [Sources -> Nat]
    /\ Bootstrap \in Sources
    /\ GenesisKey \in Keys
    /\ Transitions \subseteq TransitionWires
    /\ Rotations \subseteq RotationWires
    /\ MaxWindow \in Nat
    /\ Times \subseteq Nat

VARIABLES
    schema,           \* user_version: 1 until a legacy file is migrated, then 2
    current_authority,\* [epoch, key]
    key_history,      \* authority_key_history: <<epoch, key>> rows
    rotations,        \* authority_rotations: [wire, applied_at]
    membership,       \* current_membership: [epoch, source]
    transitions,      \* membership_transitions: [wire, applied_at, authority_epoch]
    high_water,       \* membership_clock.high_water_ms
    lock,             \* what current_source yielded while it holds the lock, or Free
    sessions          \* the sources of the ingress's registered sessions

authorityVars == <<schema, current_authority, key_history, rotations, membership,
                   transitions, high_water, lock, sessions>>

Null == -1

Free == [held |-> FALSE, epoch |-> 0, source |-> Bootstrap]

-----------------------------------------------------------------------------
(* The ledger file *)

BootstrapMembership == [epoch |-> SourceEpoch[Bootstrap], source |-> Bootstrap]

InWindow(w, now) ==
    /\ w.not_after - w.not_before \in 1 .. MaxWindow
    /\ w.not_before <= now
    /\ now < w.not_after

\* _create_schema in a new file.
FreshLedger ==
    /\ schema = 2
    /\ current_authority = [epoch |-> 0, key |-> GenesisKey]
    /\ key_history = {<<0, GenesisKey>>}
    /\ membership = BootstrapMembership
    /\ transitions = {}
    /\ high_water = 0

\* What the release before authority rotation leaves: no authority tables, no
\* authority_epoch column; here with at most one transition under the only key.
LegacyLedger ==
    /\ schema = 1
    /\ current_authority = [epoch |-> Null, key |-> GenesisKey]
    /\ key_history = {}
    /\ \/ /\ membership = BootstrapMembership
          /\ transitions = {}
          /\ high_water = 0
       \/ \E t \in Transitions, now \in Times :
             /\ t.signer = GenesisKey
             /\ t.previous_epoch = SourceEpoch[Bootstrap]
             /\ t.previous_source = Bootstrap
             /\ t.next_epoch > t.previous_epoch
             /\ t.next_epoch = SourceEpoch[t.next_source]
             /\ InWindow(t, now)
             /\ membership = [epoch |-> t.next_epoch, source |-> t.next_source]
             /\ transitions = {[wire |-> t, applied_at |-> now, authority_epoch |-> Null]}
             /\ high_water = now

AuthorityInit ==
    /\ FreshLedger \/ LegacyLedger
    /\ rotations = {}
    /\ lock = Free
    /\ sessions = {}

\* _migrate_v1_ledger, when the file is opened.
MigrateV1 ==
    /\ schema = 1
    /\ schema' = 2
    /\ current_authority' = [epoch |-> 0, key |-> GenesisKey]
    /\ key_history' = {<<0, GenesisKey>>}
    /\ transitions' = {[wire |-> x.wire, applied_at |-> x.applied_at,
                        authority_epoch |-> 0] : x \in transitions}
    /\ UNCHANGED <<rotations, membership, high_water, lock, sessions>>

\* _validate_ledger: what it checks of the rows.
ValidLedger ==
    /\ schema = 2
    /\ Cardinality(rotations) = current_authority.epoch
    /\ Cardinality(key_history) = current_authority.epoch + 1
    /\ <<current_authority.epoch, current_authority.key>> \in key_history
    /\ <<0, GenesisKey>> \in key_history

\* Mutant: BEGIN instead of BEGIN IMMEDIATE.
LockIgnored == TRUE

\* Every writer and every reader begins with BEGIN IMMEDIATE.
LockFree == ~ lock.held

ClockBehind(now) == now < high_water

-----------------------------------------------------------------------------
(* apply_transition *)

\* _parse_transition, and the next source file it must agree with.
ParsedTransition(t) ==
    /\ t.next_epoch > t.previous_epoch
    /\ SourceEpoch[t.next_source] = t.next_epoch

TransitionReplayed(t) ==
    \E x \in transitions :
        \/ x.wire = t
        \/ x.wire.nonce = t.nonce
        \/ x.wire.next_epoch = t.next_epoch

ContinuesCurrent(t) ==
    membership = [epoch |-> t.previous_epoch, source |-> t.previous_source]

\* Mutant: any key of the history may sign.
SignedByKnown(t) == \E p \in key_history : p[2] = t.signer

SignedByCurrent(t) == t.signer = current_authority.key

ApplyTransition(t, now) ==
    /\ ParsedTransition(t)
    /\ InWindow(t, now)
    /\ LockFree
    /\ ValidLedger
    /\ ~ TransitionReplayed(t)
    /\ ContinuesCurrent(t)
    /\ ~ ClockBehind(now)
    /\ SignedByCurrent(t)
    /\ transitions' = transitions \cup
          {[wire |-> t, applied_at |-> now, authority_epoch |-> current_authority.epoch]}
    /\ membership' = [epoch |-> t.next_epoch, source |-> t.next_source]
    /\ high_water' = now
    /\ UNCHANGED <<schema, current_authority, key_history, rotations, lock, sessions>>

-----------------------------------------------------------------------------
(* rotate_authority *)

ParsedRotation(r) ==
    /\ r.next_epoch = r.previous_epoch + 1
    /\ r.next_key # r.previous_key

RotationReplayed(r) ==
    \/ \E x \in rotations :
        \/ x.wire = r
        \/ x.wire.nonce = r.nonce
        \/ x.wire.previous_epoch = r.previous_epoch
        \/ x.wire.next_epoch = r.next_epoch
    \/ \E p \in key_history : p[2] = r.next_key

\* The rotation names the current key and the current membership.
BoundToCurrent(r) ==
    /\ current_authority = [epoch |-> r.previous_epoch, key |-> r.previous_key]
    /\ membership = [epoch |-> r.membership_epoch, source |-> r.membership_source]

DualSigned(r) ==
    /\ r.authorised_by = current_authority.key
    /\ r.possessed_by = r.next_key

\* Mutant: the new key is installed but not entered in the history.
RotateUnrecorded(r, now) ==
    /\ ParsedRotation(r)
    /\ InWindow(r, now)
    /\ LockFree
    /\ ValidLedger
    /\ ~ RotationReplayed(r)
    /\ BoundToCurrent(r)
    /\ ~ ClockBehind(now)
    /\ DualSigned(r)
    /\ rotations' = rotations \cup {[wire |-> r, applied_at |-> now]}
    /\ current_authority' = [epoch |-> r.next_epoch, key |-> r.next_key]
    /\ high_water' = now
    /\ UNCHANGED <<schema, key_history, membership, transitions, lock, sessions>>

RotateAuthority(r, now) ==
    /\ ParsedRotation(r)
    /\ InWindow(r, now)
    /\ LockFree
    /\ ValidLedger
    /\ ~ RotationReplayed(r)
    /\ BoundToCurrent(r)
    /\ ~ ClockBehind(now)
    /\ DualSigned(r)
    /\ rotations' = rotations \cup {[wire |-> r, applied_at |-> now]}
    /\ key_history' = key_history \cup {<<r.next_epoch, r.next_key>>}
    /\ current_authority' = [epoch |-> r.next_epoch, key |-> r.next_key]
    /\ high_water' = now
    /\ UNCHANGED <<schema, membership, transitions, lock, sessions>>

-----------------------------------------------------------------------------
(* current_source and establish_session *)

\* The lock is taken and the current row read and checked against its own digest.
OpenSource(expected_epoch) ==
    /\ LockFree
    /\ ValidLedger
    /\ membership.epoch = expected_epoch
    /\ SourceEpoch[membership.source] = membership.epoch
    /\ lock' = [held |-> TRUE, epoch |-> membership.epoch, source |-> membership.source]
    /\ UNCHANGED <<schema, current_authority, key_history, rotations, membership,
                   transitions, high_water, sessions>>

\* The session is created from the yielded source and registered before the lock goes.
RegisterSession ==
    /\ lock.held
    /\ sessions' = sessions \cup {lock.source}
    /\ lock' = Free
    /\ UNCHANGED <<schema, current_authority, key_history, rotations, membership,
                   transitions, high_water>>

\* The candidate, window or nonce is refused, or another context has the session's id.
RegisterFails ==
    /\ lock.held
    /\ lock' = Free
    /\ UNCHANGED <<schema, current_authority, key_history, rotations, membership,
                   transitions, high_water, sessions>>

\* The process ends: its lock and its contexts are gone, the file stays.
Restart ==
    /\ lock' = Free
    /\ sessions' = {}
    /\ UNCHANGED <<schema, current_authority, key_history, rotations, membership,
                   transitions, high_water>>

AuthorityNext ==
    \/ MigrateV1
    \/ \E t \in Transitions, now \in Times : ApplyTransition(t, now)
    \/ \E r \in Rotations, now \in Times : RotateAuthority(r, now)
    \/ \E s \in Sources : OpenSource(SourceEpoch[s])
    \/ RegisterSession \/ RegisterFails \/ Restart

AuthoritySpec == AuthorityInit /\ [][AuthorityNext]_authorityVars

-----------------------------------------------------------------------------
(* Properties *)

AuthorityTypeOK ==
    /\ schema \in {1, 2}
    /\ current_authority \in [epoch : Nat \cup {Null}, key : Keys]
    /\ key_history \subseteq Nat \X Keys
    /\ rotations \subseteq [wire : Rotations, applied_at : Nat]
    /\ membership \in [epoch : Nat, source : Sources]
    /\ transitions \subseteq
          [wire : Transitions, applied_at : Nat, authority_epoch : Nat \cup {Null}]
    /\ high_water \in Nat
    /\ lock \in [held : BOOLEAN, epoch : Nat, source : Sources]
    /\ sessions \subseteq Sources

\* The ledger never locks itself out: whatever was applied, the counts, the current key
\* and the genesis key agree, so that reopening and every later operation pass
\* _validate_ledger.
LedgerValidates == schema = 2 => ValidLedger

\* The memberships that are or have been current.
Lineage ==
    {BootstrapMembership} \cup
    {[epoch |-> x.wire.next_epoch, source |-> x.wire.next_source] : x \in transitions}

\* The applied transitions are one chain from the bootstrap source to the current one:
\* each continues a member of the chain, no two continue the same, the current
\* membership is its end.
OneChain ==
    /\ membership \in Lineage
    /\ \A m \in Lineage : m.epoch <= membership.epoch
    /\ \A x \in transitions :
          [epoch |-> x.wire.previous_epoch, source |-> x.wire.previous_source] \in Lineage
    /\ \A x, y \in transitions : x.wire.previous_epoch = y.wire.previous_epoch => x = y

\* A retired key stays retired.  Each transition was signed by the key of its authority
\* epoch, and no key acts on memberships that came after its rotation or before its own
\* reign: a rotation cuts the chain of memberships exactly at the one it names.
RetiredKeysStayRetired ==
    schema = 2 => \A x \in transitions :
        /\ <<x.authority_epoch, x.wire.signer>> \in key_history
        /\ \A r \in rotations :
              IF x.authority_epoch < r.wire.next_epoch
              THEN x.wire.next_epoch <= r.wire.membership_epoch
              ELSE r.wire.membership_epoch <= x.wire.previous_epoch

\* Authority epochs and keys correspond one to one: no key is ever installed again.
KeysNeverReused ==
    \A p, q \in key_history : p[1] = q[1] \/ p[2] = q[2] => p = q

\* What establish_session works on is current for as long as it holds the lock, and no
\* session was ever established for a source outside the chain.
SessionsFollowChain ==
    /\ lock.held => [epoch |-> lock.epoch, source |-> lock.source] = membership
    /\ sessions \subseteq {m.source : m \in Lineage}

\* Nothing applied is ever taken back, by a migration or otherwise, and neither the
\* membership epoch nor the clock decreases.
HistoryGrows ==
    [][/\ {x.wire : x \in transitions} \subseteq {x.wire : x \in transitions'}
       /\ rotations \subseteq rotations'
       /\ key_history \subseteq key_history'
       /\ membership.epoch <= membership'.epoch
       /\ membership # membership' => membership.epoch < membership'.epoch
       /\ high_water <= high_water']_authorityVars

================================================================================
