--------------------------- MODULE LedgerFileProofs ---------------------------
(***************************************************************************)
(* MembershipAuthority for every set of signed statements, keys, sources   *)
(* and times: the ledger always validates, the memberships form one chain, *)
(* and a rotated key never acts again.  Then ApprovalLedgerSchema for any  *)
(* number of processes, policy files and older ledgers: no opening loses a *)
(* row or takes a schema back.                                             *)
(***************************************************************************)
EXTENDS MembershipAuthority, ApprovalLedgerSchema, FiniteSetTheorems, TLAPS

\* How far the tables reach: nothing recorded lies beyond the current epochs.
WithinCurrent ==
    /\ \A x \in transitions :
          /\ x.wire.previous_epoch < x.wire.next_epoch
          /\ x.wire.next_epoch <= membership.epoch
          /\ x.authority_epoch <= current_authority.epoch
    /\ \A r \in rotations :
          /\ r.wire.membership_epoch <= membership.epoch
          /\ r.wire.next_epoch <= current_authority.epoch
    /\ \A p \in key_history : p[1] <= current_authority.epoch

\* A legacy file has no rotations; an open one only complete rows and finite tables.
SchemaShape ==
    /\ schema = 1 => /\ rotations = {}
                     /\ key_history = {}
                     /\ ~ lock.held
                     /\ current_authority.epoch = Null
                     /\ \A x \in transitions : /\ x.authority_epoch = Null
                                               /\ x.wire.signer = GenesisKey
    /\ schema = 2 => /\ current_authority.epoch \in Nat
                     /\ \A x \in transitions : x.authority_epoch \in Nat
    /\ IsFiniteSet(rotations)
    /\ IsFiniteSet(key_history)

\* The inductive invariant.
AuthorityInv ==
    /\ AuthorityTypeOK
    /\ SchemaShape
    /\ LedgerValidates
    /\ WithinCurrent
    /\ OneChain
    /\ RetiredKeysStayRetired
    /\ KeysNeverReused
    /\ SessionsFollowChain

\* The parts that only read the tables.
TableParts ==
    /\ SchemaShape /\ LedgerValidates /\ WithinCurrent
    /\ OneChain /\ RetiredKeysStayRetired /\ KeysNeverReused

\* Steps that leave the tables alone leave the parts about them alone.
LEMMA TablesUnchanged ==
  ASSUME AuthorityInv,
         UNCHANGED <<schema, current_authority, key_history, rotations, membership,
                     transitions, high_water>>,
         schema = 1 => ~ lock'.held
  PROVE  TableParts'
BY DEF AuthorityInv, TableParts, SchemaShape, LedgerValidates, ValidLedger, WithinCurrent,
   OneChain, Lineage, BootstrapMembership, RetiredKeysStayRetired, KeysNeverReused

\* A new file and a legacy file satisfy the invariant.
LEMMA AuthorityInitInv == AuthorityInit => AuthorityInv
<1> SUFFICES ASSUME AuthorityInit PROVE AuthorityInv
  OBVIOUS
<1> USE AuthorityAssumption
<1>1. rotations = {} /\ lock = Free /\ sessions = {} /\ ~ lock.held
  BY DEF AuthorityInit, Free
<1>2. SessionsFollowChain /\ lock \in [held : BOOLEAN, epoch : Nat, source : Sources]
  BY <1>1 DEF SessionsFollowChain, Free
<1>3. IsFiniteSet({}) /\ Cardinality({}) = 0
  BY FS_EmptySet
<1>4. IsFiniteSet({<<0, GenesisKey>>}) /\ Cardinality({<<0, GenesisKey>>}) = 1
  BY FS_Singleton
<1>5. BootstrapMembership \in [epoch : Nat, source : Sources]
  BY DEF BootstrapMembership
<1>6. CASE FreshLedger
  <2>1. AuthorityTypeOK
    BY <1>1, <1>2, <1>5, <1>6 DEF FreshLedger, AuthorityTypeOK
  <2>2. SchemaShape /\ LedgerValidates
    BY <1>1, <1>3, <1>4, <1>6 DEF FreshLedger, SchemaShape, LedgerValidates, ValidLedger
  <2>3. WithinCurrent /\ RetiredKeysStayRetired /\ KeysNeverReused
    BY <1>1, <1>6 DEF FreshLedger, WithinCurrent, RetiredKeysStayRetired, KeysNeverReused
  <2>4. OneChain
    BY <1>5, <1>6 DEF FreshLedger, OneChain, Lineage, BootstrapMembership
  <2> QED
    BY <1>2, <2>1, <2>2, <2>3, <2>4 DEF AuthorityInv
<1>7. CASE LegacyLedger
  <2>1. /\ schema = 1 /\ key_history = {}
        /\ current_authority = [epoch |-> Null, key |-> GenesisKey]
    BY <1>7 DEF LegacyLedger
  <2>2. CASE membership = BootstrapMembership /\ transitions = {} /\ high_water = 0
    <3>1. AuthorityTypeOK
      BY <1>1, <1>2, <1>5, <2>1, <2>2 DEF AuthorityTypeOK
    <3>2. SchemaShape /\ LedgerValidates
      BY <1>1, <1>3, <2>1, <2>2 DEF SchemaShape, LedgerValidates
    <3>3. WithinCurrent /\ RetiredKeysStayRetired /\ KeysNeverReused
      BY <1>1, <2>1, <2>2 DEF WithinCurrent, RetiredKeysStayRetired, KeysNeverReused
    <3>4. OneChain
      BY <1>5, <2>2 DEF OneChain, Lineage, BootstrapMembership
    <3> QED
      BY <1>2, <3>1, <3>2, <3>3, <3>4 DEF AuthorityInv
  <2>3. ASSUME NEW t \in Transitions, NEW now \in Times,
               /\ t.signer = GenesisKey
               /\ t.previous_epoch = SourceEpoch[Bootstrap]
               /\ t.previous_source = Bootstrap
               /\ t.next_epoch > t.previous_epoch
               /\ membership = [epoch |-> t.next_epoch, source |-> t.next_source]
               /\ transitions = {[wire |-> t, applied_at |-> now, authority_epoch |-> Null]}
               /\ high_water = now
        PROVE  AuthorityInv
    <3>1. t \in TransitionWires /\ now \in Nat
      OBVIOUS
    <3>2. t.next_epoch \in Nat /\ t.next_source \in Sources /\ t.previous_epoch \in Nat
      BY <3>1 DEF TransitionWires
    <3>3. AuthorityTypeOK
      BY <1>1, <1>2, <2>1, <2>3, <3>1, <3>2 DEF AuthorityTypeOK
    <3>4. SchemaShape /\ LedgerValidates
      BY <1>1, <1>3, <2>1, <2>3 DEF SchemaShape, LedgerValidates
    <3>5. WithinCurrent /\ RetiredKeysStayRetired /\ KeysNeverReused
      BY <1>1, <2>1, <2>3, <3>2
         DEF WithinCurrent, RetiredKeysStayRetired, KeysNeverReused, Null
    <3>6. OneChain
      BY <1>5, <2>3, <3>2 DEF OneChain, Lineage, BootstrapMembership
    <3> QED
      BY <1>2, <3>3, <3>4, <3>5, <3>6 DEF AuthorityInv
  <2> QED
    BY <1>7, <2>2, <2>3 DEF LegacyLedger
<1> QED
  BY <1>6, <1>7 DEF AuthorityInit

\* The migration fills in the authority tables and the missing column.
LEMMA MigrateInv ==
  ASSUME AuthorityInv, MigrateV1
  PROVE  AuthorityInv'
<1> USE AuthorityAssumption
<1> DEFINE Filled(x) == [wire |-> x.wire, applied_at |-> x.applied_at, authority_epoch |-> 0]
<1>1. /\ schema = 1 /\ schema' = 2
      /\ rotations = {} /\ rotations' = {}
      /\ current_authority' = [epoch |-> 0, key |-> GenesisKey]
      /\ key_history' = {<<0, GenesisKey>>}
      /\ transitions' = {Filled(x) : x \in transitions}
      /\ membership' = membership /\ high_water' = high_water
      /\ lock' = lock /\ sessions' = sessions
  BY DEF MigrateV1, AuthorityInv, SchemaShape
<1>2. AuthorityTypeOK
  BY DEF AuthorityInv
<1>3. \A y \in transitions' :
        \E x \in transitions : y = Filled(x) /\ y.wire = x.wire /\ y.authority_epoch = 0
  BY <1>1
<1>4. \A x \in transitions : Filled(x) \in transitions' /\ Filled(x).wire = x.wire
  BY <1>1
<1>5. Lineage' = Lineage
  <2> DEFINE Then(w) == [epoch |-> w.next_epoch, source |-> w.next_source]
  <2>1. {Then(y.wire) : y \in transitions'} = {Then(x.wire) : x \in transitions}
    <3> HIDE DEF Then, Filled
    <3> QED
      BY <1>3, <1>4
  <2> QED
    BY <2>1 DEF Lineage, BootstrapMembership
<1>6. AuthorityTypeOK'
  BY <1>1, <1>2 DEF AuthorityTypeOK
<1>7. SchemaShape' /\ LedgerValidates'
  <2>1. IsFiniteSet({}) /\ Cardinality({}) = 0
    BY FS_EmptySet
  <2>2. IsFiniteSet({<<0, GenesisKey>>}) /\ Cardinality({<<0, GenesisKey>>}) = 1
    BY FS_Singleton
  <2> QED
    BY <1>1, <1>3, <2>1, <2>2 DEF SchemaShape, LedgerValidates, ValidLedger
<1>8. WithinCurrent'
  BY <1>1, <1>3 DEF AuthorityInv, WithinCurrent
<1>9. OneChain'
  <2>1. membership' \in Lineage' /\ \A m \in Lineage' : m.epoch <= membership'.epoch
    BY <1>1, <1>5 DEF AuthorityInv, OneChain
  <2>2. \A y \in transitions' :
          [epoch |-> y.wire.previous_epoch, source |-> y.wire.previous_source] \in Lineage'
    BY <1>3, <1>5 DEF AuthorityInv, OneChain
  <2>3. \A y, z \in transitions' : y.wire.previous_epoch = z.wire.previous_epoch => y = z
    BY <1>3 DEF AuthorityInv, OneChain
  <2> QED
    BY <2>1, <2>2, <2>3 DEF OneChain
<1>10. RetiredKeysStayRetired' /\ KeysNeverReused'
  <2>1. \A y \in transitions' : y.wire.signer = GenesisKey /\ y.authority_epoch = 0
    BY <1>1, <1>3 DEF AuthorityInv, SchemaShape
  <2> QED
    BY <1>1, <2>1 DEF RetiredKeysStayRetired, KeysNeverReused
<1>11. SessionsFollowChain'
  BY <1>1, <1>5 DEF AuthorityInv, SessionsFollowChain
<1> QED
  BY <1>6, <1>7, <1>8, <1>9, <1>10, <1>11 DEF AuthorityInv

\* apply_transition appends to the chain under the current key.
LEMMA TransitionInv ==
  ASSUME AuthorityInv, NEW t \in Transitions, NEW now \in Times, ApplyTransition(t, now)
  PROVE  AuthorityInv'
<1> DEFINE row == [wire |-> t, applied_at |-> now,
                   authority_epoch |-> current_authority.epoch]
           next == [epoch |-> t.next_epoch, source |-> t.next_source]
<1>1. /\ transitions' = transitions \cup {row}
      /\ membership' = next
      /\ high_water' = now
      /\ UNCHANGED <<schema, current_authority, key_history, rotations, lock, sessions>>
  BY DEF ApplyTransition
<1>2. /\ t.next_epoch \in Nat /\ t.next_source \in Sources /\ t.previous_epoch \in Nat
      /\ now \in Nat
  BY AuthorityAssumption DEF TransitionWires
<1>3. /\ schema = 2 /\ ~ lock.held
      /\ t.previous_epoch < t.next_epoch
      /\ membership = [epoch |-> t.previous_epoch, source |-> t.previous_source]
      /\ t.signer = current_authority.key
      /\ <<current_authority.epoch, current_authority.key>> \in key_history
  BY <1>2 DEF ApplyTransition, ParsedTransition, LockFree, ValidLedger, ContinuesCurrent,
     SignedByCurrent
<1>4. membership.epoch = t.previous_epoch /\ membership'.epoch = t.next_epoch
  BY <1>1, <1>3
<1>5. /\ row.wire = t
      /\ row.authority_epoch = current_authority.epoch
      /\ row.authority_epoch \in Nat
  BY <1>3 DEF AuthorityInv, SchemaShape
<1>6. AuthorityTypeOK'
  <2>1. row \in [wire : Transitions, applied_at : Nat, authority_epoch : Nat \cup {Null}]
    BY <1>2, <1>5
  <2> HIDE DEF row
  <2> QED
    BY <1>1, <1>2, <2>1 DEF AuthorityInv, AuthorityTypeOK
<1>7. Lineage' = Lineage \cup {next}
  <2> DEFINE Then(w) == [epoch |-> w.next_epoch, source |-> w.next_source]
  <2>1. {Then(y.wire) : y \in transitions \cup {row}}
          = {Then(x.wire) : x \in transitions} \cup {Then(t)}
    <3> HIDE DEF Then, row
    <3> QED
      BY <1>5
  <2> QED
    BY <1>1, <2>1 DEF Lineage, BootstrapMembership
<1>8. AuthorityTypeOK /\ transitions \subseteq
        [wire : Transitions, applied_at : Nat, authority_epoch : Nat \cup {Null}]
  BY DEF AuthorityInv, AuthorityTypeOK
<1>9. \A x \in transitions : /\ x.wire.previous_epoch \in Nat
                             /\ x.wire.next_epoch \in Nat
                             /\ x.authority_epoch \in Nat
  BY <1>3, <1>8, AuthorityAssumption DEF AuthorityInv, SchemaShape, TransitionWires
<1>10. \A r \in rotations : r.wire.membership_epoch \in Nat /\ r.wire.next_epoch \in Nat
  BY <1>8, AuthorityAssumption DEF AuthorityTypeOK, RotationWires
<1> HIDE DEF row
<1>11. SchemaShape' /\ LedgerValidates' /\ KeysNeverReused'
  BY <1>1, <1>3, <1>5
     DEF AuthorityInv, SchemaShape, LedgerValidates, ValidLedger, KeysNeverReused
<1>12. WithinCurrent'
  BY <1>1, <1>2, <1>3, <1>4, <1>5, <1>9, <1>10 DEF AuthorityInv, WithinCurrent
<1>13. OneChain'
  <2>1. membership' \in Lineage'
    BY <1>1, <1>7
  <2>2. \A m \in Lineage' : m.epoch <= membership'.epoch
    <3>1. \A m \in Lineage : m.epoch <= t.previous_epoch /\ m.epoch \in Nat
      BY <1>4, <1>9, AuthorityAssumption
         DEF AuthorityInv, OneChain, Lineage, BootstrapMembership
    <3> QED
      BY <1>2, <1>3, <1>4, <1>7, <3>1
  <2>3. \A x \in transitions' :
          [epoch |-> x.wire.previous_epoch, source |-> x.wire.previous_source] \in Lineage'
    BY <1>1, <1>3, <1>5, <1>7 DEF AuthorityInv, OneChain
  <2>4. \A x \in transitions : x.wire.previous_epoch # t.previous_epoch
    BY <1>2, <1>4, <1>9 DEF AuthorityInv, WithinCurrent
  <2>5. \A x, y \in transitions' : x.wire.previous_epoch = y.wire.previous_epoch => x = y
    BY <1>1, <1>5, <2>4 DEF AuthorityInv, OneChain
  <2> QED
    BY <2>1, <2>2, <2>3, <2>5 DEF OneChain
<1>14. RetiredKeysStayRetired'
  <2> SUFFICES ASSUME NEW x \in transitions'
               PROVE  /\ <<x.authority_epoch, x.wire.signer>> \in key_history
                      /\ \A r \in rotations :
                            IF x.authority_epoch < r.wire.next_epoch
                            THEN x.wire.next_epoch <= r.wire.membership_epoch
                            ELSE r.wire.membership_epoch <= x.wire.previous_epoch
    BY <1>1 DEF RetiredKeysStayRetired
  <2>1. CASE x \in transitions
    BY <1>3, <2>1 DEF AuthorityInv, RetiredKeysStayRetired
  <2>2. CASE x = row
    <3>1. <<x.authority_epoch, x.wire.signer>> \in key_history
      BY <1>3, <1>5, <2>2
    <3>2. ASSUME NEW r \in rotations
          PROVE  /\ ~ (x.authority_epoch < r.wire.next_epoch)
                 /\ r.wire.membership_epoch <= x.wire.previous_epoch
      BY <1>4, <1>5, <1>10, <2>2 DEF AuthorityInv, WithinCurrent
    <3> QED
      BY <3>1, <3>2
  <2> QED
    BY <1>1, <2>1, <2>2
<1>15. SessionsFollowChain'
  BY <1>1, <1>3, <1>7 DEF AuthorityInv, SessionsFollowChain
<1> QED
  BY <1>6, <1>11, <1>12, <1>13, <1>14, <1>15 DEF AuthorityInv

\* rotate_authority installs a key that was never used and keeps the counts.
LEMMA RotationInv ==
  ASSUME AuthorityInv, NEW r \in Rotations, NEW now \in Times, RotateAuthority(r, now)
  PROVE  AuthorityInv'
<1> DEFINE row == [wire |-> r, applied_at |-> now]
           reign == <<r.next_epoch, r.next_key>>
<1>1. /\ rotations' = rotations \cup {row}
      /\ key_history' = key_history \cup {reign}
      /\ current_authority' = [epoch |-> r.next_epoch, key |-> r.next_key]
      /\ high_water' = now
      /\ UNCHANGED <<schema, membership, transitions, lock, sessions>>
  BY DEF RotateAuthority
<1>2. /\ r.next_epoch \in Nat /\ r.next_key \in Keys /\ r.previous_epoch \in Nat
      /\ r.membership_epoch \in Nat /\ now \in Nat
  BY AuthorityAssumption DEF RotationWires
<1>3. /\ schema = 2 /\ ~ lock.held
      /\ r.next_epoch = r.previous_epoch + 1
      /\ current_authority.epoch = r.previous_epoch
      /\ current_authority'.epoch = r.next_epoch
      /\ membership.epoch = r.membership_epoch
      /\ \A x \in rotations : x.wire.previous_epoch # r.previous_epoch
      /\ \A p \in key_history : p[2] # r.next_key
      /\ ValidLedger
  BY <1>1 DEF RotateAuthority, ParsedRotation, LockFree, ValidLedger, BoundToCurrent,
     RotationReplayed
<1>4. AuthorityTypeOK
  BY DEF AuthorityInv
<1>5. row.wire = r /\ row \in [wire : Rotations, applied_at : Nat] /\ row \notin rotations
  BY <1>2, <1>3
<1>6. reign \in Nat \X Keys /\ reign[1] = r.next_epoch /\ reign[2] = r.next_key
      /\ reign \notin key_history
  BY <1>2, <1>3
<1> HIDE DEF row, reign
<1>7. AuthorityTypeOK'
  BY <1>1, <1>2, <1>4, <1>5, <1>6 DEF AuthorityTypeOK
<1>8. SchemaShape' /\ LedgerValidates'
  <2>1. /\ IsFiniteSet(rotations') /\ Cardinality(rotations') = Cardinality(rotations) + 1
        /\ IsFiniteSet(key_history')
        /\ Cardinality(key_history') = Cardinality(key_history) + 1
    BY <1>1, <1>5, <1>6, FS_AddElement DEF AuthorityInv, SchemaShape
  <2>2. SchemaShape'
    BY <1>1, <1>2, <1>3, <2>1 DEF AuthorityInv, SchemaShape
  <2>3. ValidLedger'
    <3>1. <<current_authority'.epoch, current_authority'.key>> \in key_history'
      BY <1>1 DEF reign
    <3>2. Cardinality(rotations') = current_authority'.epoch
      BY <1>2, <1>3, <2>1 DEF ValidLedger
    <3>3. Cardinality(key_history') = current_authority'.epoch + 1
      BY <1>2, <1>3, <2>1 DEF ValidLedger
    <3> QED
      BY <1>1, <1>3, <3>1, <3>2, <3>3 DEF ValidLedger
  <2> QED
    BY <2>2, <2>3 DEF LedgerValidates
<1>9. \A x \in transitions : /\ x.wire.next_epoch \in Nat
                             /\ x.authority_epoch \in Nat
                             /\ x.authority_epoch < r.next_epoch
                             /\ x.wire.next_epoch <= r.membership_epoch
  BY <1>2, <1>3, <1>4, AuthorityAssumption
     DEF AuthorityInv, SchemaShape, AuthorityTypeOK, WithinCurrent, TransitionWires
<1>10. \A p \in key_history : p[1] \in Nat /\ p[1] < r.next_epoch
  BY <1>2, <1>3, <1>4 DEF AuthorityInv, AuthorityTypeOK, WithinCurrent
<1>11. WithinCurrent'
  <2>1. \A x \in rotations : x.wire.next_epoch \in Nat
    BY <1>4, AuthorityAssumption DEF AuthorityTypeOK, RotationWires
  <2>2. \A x \in rotations' : /\ x.wire.membership_epoch <= membership'.epoch
                              /\ x.wire.next_epoch <= current_authority'.epoch
    BY <1>1, <1>2, <1>3, <1>5, <2>1 DEF AuthorityInv, WithinCurrent
  <2>3. \A p \in key_history' : p[1] <= current_authority'.epoch
    BY <1>1, <1>2, <1>3, <1>6, <1>10
  <2>4. \A x \in transitions' :
          /\ x.wire.previous_epoch < x.wire.next_epoch
          /\ x.wire.next_epoch <= membership'.epoch
          /\ x.authority_epoch <= current_authority'.epoch
    BY <1>1, <1>2, <1>3, <1>9 DEF AuthorityInv, WithinCurrent
  <2> QED
    BY <2>2, <2>3, <2>4 DEF WithinCurrent
<1>12. OneChain' /\ SessionsFollowChain'
  BY <1>1 DEF AuthorityInv, OneChain, SessionsFollowChain, Lineage, BootstrapMembership
<1>13. RetiredKeysStayRetired'
  BY <1>1, <1>3, <1>5, <1>9 DEF AuthorityInv, RetiredKeysStayRetired
<1>14. KeysNeverReused'
  <2>1. \A p \in key_history : p[1] # reign[1] /\ p[2] # reign[2]
    BY <1>2, <1>3, <1>6, <1>10
  <2> QED
    BY <1>1, <2>1 DEF AuthorityInv, KeysNeverReused
<1> QED
  BY <1>7, <1>8, <1>11, <1>12, <1>13, <1>14 DEF AuthorityInv

\* establish_session only moves the lock and the volatile sessions.
LEMMA SessionInv ==
  ASSUME AuthorityInv,
         \/ \E s \in Sources : OpenSource(SourceEpoch[s])
         \/ RegisterSession \/ RegisterFails \/ Restart
  PROVE  AuthorityInv'
<1>1. UNCHANGED <<schema, current_authority, key_history, rotations, membership,
                  transitions, high_water>>
  BY DEF OpenSource, RegisterSession, RegisterFails, Restart
<1>2. AuthorityTypeOK /\ SessionsFollowChain
  BY DEF AuthorityInv
<1>3. Lineage' = Lineage
  BY <1>1 DEF Lineage, BootstrapMembership
<1>4. Free \in [held : BOOLEAN, epoch : Nat, source : Sources] /\ ~ Free.held
  BY AuthorityAssumption DEF Free
<1>5. ASSUME NEW s \in Sources, OpenSource(SourceEpoch[s])
      PROVE  AuthorityTypeOK' /\ SessionsFollowChain' /\ schema = 2
  <2>1. schema = 2 /\ sessions' = sessions
        /\ lock' = [held |-> TRUE, epoch |-> membership.epoch, source |-> membership.source]
    BY <1>5 DEF OpenSource, ValidLedger
  <2>2. membership = [epoch |-> membership.epoch, source |-> membership.source]
    BY <1>2 DEF AuthorityTypeOK
  <2>3. AuthorityTypeOK'
    BY <1>1, <1>2, <2>1 DEF AuthorityTypeOK
  <2> QED
    BY <1>1, <1>2, <1>3, <2>1, <2>2, <2>3 DEF SessionsFollowChain
<1>6. CASE RegisterSession
  <2>1. sessions' = sessions \cup {lock.source} /\ lock' = Free /\ lock.held
    BY <1>6 DEF RegisterSession
  <2>2. membership \in Lineage /\ membership.source = lock.source
    BY <1>2, <2>1 DEF AuthorityInv, OneChain, SessionsFollowChain
  <2>3. AuthorityTypeOK'
    BY <1>1, <1>2, <1>4, <2>1 DEF AuthorityTypeOK
  <2>4. SessionsFollowChain'
    BY <1>2, <1>3, <1>4, <2>1, <2>2 DEF SessionsFollowChain
  <2> QED
    BY <1>1, <1>4, <2>1, <2>3, <2>4, TablesUnchanged DEF AuthorityInv, TableParts
<1>7. CASE RegisterFails \/ Restart
  <2>1. lock' = Free /\ sessions' \subseteq sessions
    BY <1>7 DEF RegisterFails, Restart
  <2>2. AuthorityTypeOK'
    BY <1>1, <1>2, <1>4, <2>1 DEF AuthorityTypeOK
  <2>3. SessionsFollowChain'
    BY <1>2, <1>3, <1>4, <2>1 DEF SessionsFollowChain
  <2> QED
    BY <1>1, <1>4, <2>1, <2>2, <2>3, TablesUnchanged DEF AuthorityInv, TableParts
<1>8. CASE \E s \in Sources : OpenSource(SourceEpoch[s])
  BY <1>1, <1>5, <1>8, TablesUnchanged DEF AuthorityInv, TableParts
<1> QED
  BY <1>6, <1>7, <1>8

\* Every step preserves the invariant.
LEMMA AuthorityStepInv == AuthorityInv /\ [AuthorityNext]_authorityVars => AuthorityInv'
<1> SUFFICES ASSUME AuthorityInv, [AuthorityNext]_authorityVars PROVE AuthorityInv'
  OBVIOUS
<1>1. CASE AuthorityNext
  BY <1>1, MigrateInv, TransitionInv, RotationInv, SessionInv DEF AuthorityNext
<1>2. CASE UNCHANGED authorityVars
  <2>1. UNCHANGED <<schema, current_authority, key_history, rotations, membership,
                    transitions, high_water, lock, sessions>>
    BY <1>2 DEF authorityVars
  <2>2. schema = 1 => ~ lock'.held
    BY <2>1 DEF AuthorityInv, SchemaShape
  <2>3. AuthorityTypeOK' /\ SessionsFollowChain'
    BY <2>1 DEF AuthorityInv, AuthorityTypeOK, SessionsFollowChain, Lineage,
       BootstrapMembership
  <2> QED
    BY <2>1, <2>2, <2>3, TablesUnchanged DEF AuthorityInv, TableParts
<1> QED
  BY <1>1, <1>2

\* The invariant holds in every state of the authority.
THEOREM AuthorityInvariant == AuthoritySpec => []AuthorityInv
BY AuthorityInitInv, AuthorityStepInv, PTL DEF AuthoritySpec

\* No sequence of transitions, rotations, migrations and restarts makes the ledger fail
\* its own validation.
THEOREM AuthorityLedgerValidates == AuthoritySpec => []LedgerValidates
BY AuthorityInvariant, PTL DEF AuthorityInv

\* The applied transitions are one chain that ends in the current membership.
THEOREM AuthorityOneChain == AuthoritySpec => []OneChain
BY AuthorityInvariant, PTL DEF AuthorityInv

\* A key that was rotated out signs nothing that is applied later.
THEOREM AuthorityRetiredKeys == AuthoritySpec => []RetiredKeysStayRetired
BY AuthorityInvariant, PTL DEF AuthorityInv

\* No key is installed a second time.
THEOREM AuthorityKeysNeverReused == AuthoritySpec => []KeysNeverReused
BY AuthorityInvariant, PTL DEF AuthorityInv

\* Sessions are established for the current source only.
THEOREM AuthoritySessions == AuthoritySpec => []SessionsFollowChain
BY AuthorityInvariant, PTL DEF AuthorityInv

\* Histories only grow and epochs and the clock only rise: a transition enters a later
\* epoch, and no writer commits behind the clock.
THEOREM AuthorityHistoryGrows == AuthoritySpec => HistoryGrows
<1> DEFINE Wires(rows) == {x.wire : x \in rows}
           Grows ==
             /\ Wires(transitions) \subseteq Wires(transitions')
             /\ rotations \subseteq rotations'
             /\ key_history \subseteq key_history'
             /\ membership.epoch <= membership'.epoch
             /\ membership # membership' => membership.epoch < membership'.epoch
             /\ high_water <= high_water'
<1>1. AuthorityInv /\ [AuthorityNext]_authorityVars => [Grows]_authorityVars
  <2> SUFFICES ASSUME AuthorityInv, AuthorityNext PROVE Grows
    OBVIOUS
  <2>1. membership.epoch \in Nat /\ high_water \in Nat
    BY DEF AuthorityInv, AuthorityTypeOK
  <2>2. CASE MigrateV1
    <3>1. UNCHANGED <<rotations, membership, high_water>> /\ key_history = {}
      BY <2>2 DEF MigrateV1, AuthorityInv, SchemaShape
    <3>2. ASSUME NEW x \in transitions
          PROVE  \E y \in transitions' : y.wire = x.wire
      <4> DEFINE filled == [wire |-> x.wire, applied_at |-> x.applied_at,
                            authority_epoch |-> 0]
      <4>1. filled \in transitions' /\ filled.wire = x.wire
        BY <2>2 DEF MigrateV1
      <4> QED
        BY <4>1
    <3>3. Wires(transitions) \subseteq Wires(transitions')
      BY <3>2
    <3> QED
      BY <2>1, <3>1, <3>3
  <2>3. ASSUME NEW t \in Transitions, NEW now \in Times, ApplyTransition(t, now)
        PROVE  Grows
    <3>1. t.previous_epoch \in Nat /\ t.next_epoch \in Nat /\ now \in Nat
      BY AuthorityAssumption DEF TransitionWires
    <3>2. membership.epoch = t.previous_epoch /\ membership'.epoch = t.next_epoch
          /\ t.previous_epoch < t.next_epoch
      BY <2>3, <3>1 DEF ApplyTransition, ContinuesCurrent, ParsedTransition
    <3>3. high_water <= high_water'
      BY <2>1, <2>3, <3>1 DEF ApplyTransition, ClockBehind
    <3>4. transitions \subseteq transitions' /\ UNCHANGED <<rotations, key_history>>
      BY <2>3 DEF ApplyTransition
    <3> QED
      BY <3>1, <3>2, <3>3, <3>4
  <2>4. ASSUME NEW r \in Rotations, NEW now \in Times, RotateAuthority(r, now)
        PROVE  Grows
    <3>1. now \in Nat
      BY AuthorityAssumption
    <3>2. high_water <= high_water'
      BY <2>1, <2>4, <3>1 DEF RotateAuthority, ClockBehind
    <3>3. /\ rotations \subseteq rotations' /\ key_history \subseteq key_history'
          /\ UNCHANGED <<membership, transitions>>
      BY <2>4 DEF RotateAuthority
    <3> QED
      BY <2>1, <3>2, <3>3
  <2>5. CASE \/ \E s \in Sources : OpenSource(SourceEpoch[s])
             \/ RegisterSession \/ RegisterFails \/ Restart
    <3>1. UNCHANGED <<key_history, rotations, membership, transitions, high_water>>
      BY <2>5 DEF OpenSource, RegisterSession, RegisterFails, Restart
    <3> QED
      BY <2>1, <3>1
  <2> QED
    BY <2>2, <2>3, <2>4, <2>5 DEF AuthorityNext
<1> QED
  BY <1>1, AuthorityInvariant, PTL DEF AuthoritySpec, HistoryGrows

---------------------------------------------------------------------------
(* ApprovalLedgerSchema. *)

\* A process past its files holds one set of policies.
PoliciesHeld ==
    \A p \in Processes :
        proc[p].pc \in {"look", "create", "open", "serving"} =>
            PoliciesAgree(proc[p].mode, got[p])

\* The inductive invariant.
SchemaInv ==
    /\ SchemaTypeOK
    /\ PoliciesHeld
    /\ GovernedOnCurrent
    /\ ledger # Absent => RowsAreSound(ledger)

\* What a ledger is made of.
LEMMA LedgerFields ==
  ASSUME NEW db \in Ledgers
  PROVE  /\ db.version \in Int /\ db.shape \in [Tables -> Shapes]
         /\ db.consumed \in SUBSET Approvals /\ db.outbox \in SUBSET Approvals
         /\ db.results \in SUBSET Approvals /\ db.paired \in SUBSET Approvals
         /\ db = [version |-> db.version, shape |-> db.shape, consumed |-> db.consumed,
                  outbox |-> db.outbox, results |-> db.results, paired |-> db.paired]
BY DEF Ledgers

\* The rows a consumption or a completed record writes.
LEMMA RowsReplaced ==
  ASSUME NEW db,
         db = [version |-> db.version, shape |-> db.shape, consumed |-> db.consumed,
               outbox |-> db.outbox, results |-> db.results, paired |-> db.paired],
         NEW c, NEW o, NEW d, NEW e
  PROVE  /\ [db EXCEPT !.consumed = c, !.outbox = o, !.paired = e] =
              [version |-> db.version, shape |-> db.shape, consumed |-> c,
               outbox |-> o, results |-> db.results, paired |-> e]
         /\ [db EXCEPT !.outbox = o, !.results = d] =
              [version |-> db.version, shape |-> db.shape, consumed |-> db.consumed,
               outbox |-> o, results |-> d, paired |-> db.paired]
<1> DEFINE Is(z, v, s, a, b, f, g) ==
             /\ z = [version |-> z.version, shape |-> z.shape, consumed |-> z.consumed,
                     outbox |-> z.outbox, results |-> z.results, paired |-> z.paired]
             /\ z.version = v /\ z.shape = s /\ z.consumed = a /\ z.outbox = b
             /\ z.results = f /\ z.paired = g
<1>1. ASSUME NEW z, NEW v, NEW s, NEW a, NEW b, NEW f, NEW g, NEW y, Is(z, v, s, a, b, f, g)
      PROVE  /\ Is([z EXCEPT !.consumed = y], v, s, y, b, f, g)
             /\ Is([z EXCEPT !.outbox = y], v, s, a, y, f, g)
             /\ Is([z EXCEPT !.results = y], v, s, a, b, y, g)
             /\ Is([z EXCEPT !.paired = y], v, s, a, b, f, y)
  <2>1. [z EXCEPT !.consumed = y] = [version |-> z.version, shape |-> z.shape, consumed |-> y,
                     outbox |-> z.outbox, results |-> z.results, paired |-> z.paired]
    BY <1>1
  <2>2. [z EXCEPT !.outbox = y] = [version |-> z.version, shape |-> z.shape,
                     consumed |-> z.consumed, outbox |-> y, results |-> z.results,
                     paired |-> z.paired]
    BY <1>1
  <2>3. [z EXCEPT !.results = y] = [version |-> z.version, shape |-> z.shape,
                     consumed |-> z.consumed, outbox |-> z.outbox, results |-> y,
                     paired |-> z.paired]
    BY <1>1
  <2>4. [z EXCEPT !.paired = y] = [version |-> z.version, shape |-> z.shape,
                     consumed |-> z.consumed, outbox |-> z.outbox, results |-> z.results,
                     paired |-> y]
    BY <1>1
  <2> QED
    BY <1>1, <2>1, <2>2, <2>3, <2>4
<1>2. Is(db, db.version, db.shape, db.consumed, db.outbox, db.results, db.paired)
  OBVIOUS
<1>3. ASSUME NEW z, NEW v, NEW s, NEW a, NEW b, NEW f, NEW g, Is(z, v, s, a, b, f, g)
      PROVE  z = [version |-> v, shape |-> s, consumed |-> a, outbox |-> b, results |-> f,
                  paired |-> g]
  BY <1>3
<1> DEFINE w == [db EXCEPT !.consumed = c]
           x == [w EXCEPT !.outbox = o]
           y == [x EXCEPT !.paired = e]
           u == [db EXCEPT !.outbox = o]
           t == [u EXCEPT !.results = d]
<1>4. /\ [db EXCEPT !.consumed = c, !.outbox = o, !.paired = e] = y
      /\ [db EXCEPT !.outbox = o, !.results = d] = t
  OBVIOUS
<1> HIDE DEF Is
<1>5. Is(w, db.version, db.shape, c, db.outbox, db.results, db.paired)
  BY <1>1, <1>2
<1> HIDE DEF w
<1>6. Is(x, db.version, db.shape, c, o, db.results, db.paired)
  BY <1>1, <1>5
<1> HIDE DEF x
<1>7. Is(y, db.version, db.shape, c, o, db.results, e)
  BY <1>1, <1>6
<1> HIDE DEF y
<1>8. Is(u, db.version, db.shape, db.consumed, o, db.results, db.paired)
  BY <1>1, <1>2
<1> HIDE DEF u
<1>9. Is(t, db.version, db.shape, db.consumed, o, d, db.paired)
  BY <1>1, <1>8
<1> HIDE DEF t
<1> QED
  BY <1>3, <1>4, <1>7, <1>9

\* _initialize_schema keeps every row of a ledger it admits, and the rows of the
\* migrated ledger are paired.
LEMMA MigrationKeepsRows ==
  ASSUME NEW db \in Ledgers, NEW m \in ServiceModes, RowsAreSound(db), Opens(db, m)
  PROVE  LET new == Migrated(db, m)
         IN /\ new \in Ledgers
            /\ new.consumed = db.consumed /\ new.paired = db.paired
            /\ new.results = db.results /\ new.outbox = db.outbox
            /\ RowsAreSound(new)
            /\ ValidSchema(new, TargetVersion(m))
<1> DEFINE new == Migrated(db, m)
           first == IF db.version = 0
                    THEN Created(db.shape, {"consumptions", "state"}) ELSE db.shape
           dropped == IF db.version = 3 THEN [first EXCEPT !["outbox"] = "none"] ELSE first
           all == Created(dropped, Tables \ {"consumptions", "state"})
<1>1. /\ db.version \in Int /\ db.shape \in [Tables -> Shapes]
      /\ db.consumed \in SUBSET Approvals /\ db.outbox \in SUBSET Approvals
      /\ db.results \in SUBSET Approvals /\ db.paired \in SUBSET Approvals
      /\ db = [version |-> db.version, shape |-> db.shape, consumed |-> db.consumed,
               outbox |-> db.outbox, results |-> db.results, paired |-> db.paired]
  BY LedgerFields
<1>2. Admissible(db, m) /\ ValidSchema(new, TargetVersion(m))
  BY DEF Opens
<1>3. \A tables : \A shape \in [Tables -> Shapes] : Created(shape, tables) \in [Tables -> Shapes]
  BY DEF Created, Shapes
<1>4. first \in [Tables -> Shapes]
  BY <1>1, <1>3
<1> HIDE DEF first
<1>5. dropped \in [Tables -> Shapes]
  BY <1>4 DEF Shapes
<1> HIDE DEF dropped
<1>6. all \in [Tables -> Shapes]
  BY <1>3, <1>5
<1> HIDE DEF all
<1>7. CASE Governed(m) /\ db.version = 5
  <2>1. new = db
    BY <1>7 DEF Migrated
  <2> QED
    BY <1>2, <2>1
<1>8. CASE Governed(m) /\ db.version # 5
  <2>1. db.version \in {0, 1, 2, 3, 4}
    BY <1>1, <1>2, <1>8 DEF Admissible, Openable
  <2>2. db.outbox = {}
    BY <1>2, <1>8, <2>1 DEF Admissible, Drained, NoTableAhead, RowsAreSound
  <2>3. db.results = {}
    BY <1>2, <1>8, <2>1 DEF Admissible, Drained, NoTableAhead, RowsAreSound
  <2>4. db.paired = {}
    BY <1>2, <1>8, <2>1 DEF Admissible, NoTableAhead, RowsAreSound
  <2>5. new = [db EXCEPT !.version = 5, !.shape = all,
                         !.outbox = IF db.version = 3 THEN {} ELSE @]
    BY <1>8 DEF Migrated, first, dropped, all
  <2>6. new = [version |-> 5, shape |-> all, consumed |-> db.consumed,
               outbox |-> {}, results |-> db.results, paired |-> db.paired]
    BY <1>1, <2>2, <2>5
  <2> HIDE DEF new
  <2>7. /\ new.version = 5 /\ new.shape = all /\ new.consumed = db.consumed
        /\ new.outbox = {} /\ new.results = db.results /\ new.paired = db.paired
    BY <2>6
  <2>8. new \in Ledgers
    BY <1>1, <1>6, <2>6 DEF Ledgers
  <2>9. RowsAreSound(new)
    BY <2>2, <2>3, <2>4, <2>7 DEF RowsAreSound
  <2> QED
    BY <1>2, <2>2, <2>7, <2>8, <2>9 DEF new
<1>9. CASE ~ Governed(m)
  <2>1. new = [db EXCEPT !.version = 1, !.shape = first]
    BY <1>9 DEF Migrated, first
  <2>2. new = [version |-> 1, shape |-> first, consumed |-> db.consumed,
               outbox |-> db.outbox, results |-> db.results, paired |-> db.paired]
    BY <1>1, <2>1
  <2>3. \A t \in Tables : first[t] = "none" => db.shape[t] = "none"
    BY <1>1 DEF first, Created
  <2> HIDE DEF new
  <2>4. /\ new.version = 1 /\ new.shape = first /\ new.consumed = db.consumed
        /\ new.outbox = db.outbox /\ new.results = db.results /\ new.paired = db.paired
    BY <2>2
  <2>5. new \in Ledgers
    BY <1>1, <1>4, <2>2 DEF Ledgers
  <2>6. RowsAreSound(new)
    BY <2>3, <2>4 DEF RowsAreSound, Tables
  <2> QED
    BY <1>2, <2>4, <2>5, <2>6 DEF new
<1> QED
  BY <1>7, <1>8, <1>9

\* What one process does leaves the others as they are.
LEMMA ProcessMoves ==
  ASSUME SchemaInv, NEW p \in Processes,
         NEW r \in [pc : {"down", "load", "look", "create", "open", "serving"}, mode : ServiceModes],
         NEW g \in [Policies -> Nat],
         proc' = [proc EXCEPT ![p] = r], got' = [got EXCEPT ![p] = g],
         disk' \in [Policies -> Nat], ledger' \in Ledgers \union {Absent}, expired' = expired,
         ledger' # Absent => RowsAreSound(ledger'),
         r.pc \in {"look", "create", "open", "serving"} => PoliciesAgree(r.mode, g),
         r.pc = "serving" /\ Governed(r.mode) => ledger' # Absent /\ ValidSchema(ledger', 5),
         \A q \in Processes \ {p} :
            proc[q].pc = "serving" /\ Governed(proc[q].mode) =>
               ledger' # Absent /\ ValidSchema(ledger', 5)
  PROVE  SchemaInv'
<1>1. /\ \A q \in Processes \ {p} : proc'[q] = proc[q] /\ got'[q] = got[q]
      /\ proc'[p] = r /\ got'[p] = g
  BY DEF SchemaInv, SchemaTypeOK
<1>2. SchemaTypeOK'
  BY DEF SchemaInv, SchemaTypeOK
<1>3. PoliciesHeld'
  BY <1>1 DEF SchemaInv, PoliciesHeld
<1>4. GovernedOnCurrent'
  BY <1>1 DEF SchemaInv, GovernedOnCurrent
<1> QED
  BY <1>2, <1>3, <1>4 DEF SchemaInv

\* What a process writes, and who else is served meanwhile.
LEMMA LedgerStep ==
  ASSUME SchemaInv, NEW p \in Processes, ProcessStep(p)
  PROVE  /\ SchemaInv'
         /\ RecordsKept
         /\ ledger' # ledger =>
              proc[p].pc \in {"create", "open", "serving"} /\ PoliciesAgree(proc[p].mode, got[p])
<1> DEFINE Steps == {"down", "load", "look", "create", "open", "serving"}
           Held == ledger' # ledger =>
              proc[p].pc \in {"create", "open", "serving"} /\ PoliciesAgree(proc[p].mode, got[p])
<1>1. /\ disk \in [Policies -> Nat] /\ ledger \in Ledgers \union {Absent}
      /\ proc[p] \in [pc : Steps, mode : ServiceModes] /\ got[p] \in [Policies -> Nat]
      /\ proc[p].pc \in Steps /\ proc[p].mode \in ServiceModes
      /\ proc = [proc EXCEPT ![p] = proc[p]] /\ got = [got EXCEPT ![p] = got[p]]
      /\ ledger # Absent => RowsAreSound(ledger)
      /\ proc[p].pc \in {"look", "create", "open", "serving"} =>
            PoliciesAgree(proc[p].mode, got[p])
      /\ \A q \in Processes :
            proc[q].pc = "serving" /\ Governed(proc[q].mode) =>
               ledger # Absent /\ ValidSchema(ledger, 5)
      /\ expired' = expired
  <2>1. expired' = expired
    BY DEF ProcessStep, StartUp, LoadPolicy, LookForLedger, CreateLedger, OpenLedger, Consume,
       ClaimRecord, CompleteRecord, ReadResult, Stop
  <2> QED
    BY <2>1 DEF SchemaInv, SchemaTypeOK, PoliciesHeld, GovernedOnCurrent
<1>2. /\ Down \in [pc : Steps, mode : ServiceModes] /\ Down.pc = "down"
      /\ Unread \in [Policies -> Nat]
  BY DEF Down, Unread, ServiceModes
<1>0. ASSUME ledger' = ledger
      PROVE  RecordsKept
  BY <1>0 DEF RecordsKept, Lost
<1>3. CASE \E m \in ServiceModes : StartUp(p, m)
  <2>1. PICK m \in ServiceModes : StartUp(p, m)
    BY <1>3
  <2> DEFINE r == [pc |-> "load", mode |-> m]
  <2>2. r \in [pc : Steps, mode : ServiceModes] /\ r.pc = "load"
    OBVIOUS
  <2>3. /\ proc' = [proc EXCEPT ![p] = r] /\ got' = [got EXCEPT ![p] = got[p]]
        /\ disk' = disk /\ ledger' = ledger
    BY <1>1, <2>1 DEF StartUp
  <2> HIDE DEF r
  <2>4. SchemaInv'
    BY <1>1, <2>2, <2>3, ProcessMoves
  <2> QED
    BY <1>0, <2>3, <2>4
<1>4. CASE \E f \in Policies : LoadPolicy(p, f)
  <2>1. PICK f \in Policies : LoadPolicy(p, f)
    BY <1>4
  <2> DEFINE g == [got[p] EXCEPT ![f] = disk[f]]
             m == proc[p].mode
             more == IdentityAgrees(g) /\ \E h \in FilesOf(m) : g[h] = 0
             r == IF more THEN proc[p]
                  ELSE IF PoliciesAgree(m, g) THEN [proc[p] EXCEPT !.pc = "look"] ELSE Down
             h == IF more \/ PoliciesAgree(m, g) THEN g ELSE Unread
  <2>2. /\ proc' = [proc EXCEPT ![p] = r] /\ got' = [got EXCEPT ![p] = h]
        /\ disk' = disk /\ ledger' = ledger /\ proc[p].pc = "load"
    BY <2>1 DEF LoadPolicy, NextFile
  <2>3. g \in [Policies -> Nat] /\ h \in [Policies -> Nat]
    BY <1>1, <1>2
  <2>4. /\ [proc[p] EXCEPT !.pc = "look"] \in [pc : Steps, mode : ServiceModes]
        /\ [proc[p] EXCEPT !.pc = "look"].mode = m
    BY <1>1
  <2> HIDE DEF g, m, more
  <2>5. r \in [pc : Steps, mode : ServiceModes]
    BY <1>1, <1>2, <2>4
  <2>6. r.pc \in {"look", "create", "open", "serving"} => PoliciesAgree(r.mode, h) /\ r.pc # "serving"
    <3>1. CASE more
      BY <2>2, <3>1
    <3>2. CASE ~ more /\ PoliciesAgree(m, g)
      <4>1. [proc[p] EXCEPT !.pc = "look"].pc = "look"
        BY <1>1
      <4> QED
        BY <2>4, <3>2, <4>1
    <3>3. CASE ~ more /\ ~ PoliciesAgree(m, g)
      BY <1>2, <3>3
    <3> QED
      BY <3>1, <3>2, <3>3
  <2>7. r.pc # "serving"
    <3>1. CASE more
      BY <2>2, <3>1
    <3>2. CASE ~ more /\ PoliciesAgree(m, g)
      BY <2>6, <3>2
    <3>3. CASE ~ more /\ ~ PoliciesAgree(m, g)
      BY <1>2, <3>3
    <3> QED
      BY <3>1, <3>2, <3>3
  <2> HIDE DEF r, h
  <2>8. SchemaInv'
    BY <1>1, <2>2, <2>3, <2>5, <2>6, <2>7, ProcessMoves
  <2> QED
    BY <1>0, <2>2, <2>8
<1>5. CASE LookForLedger(p)
  <2> DEFINE to == IF ledger = Absent THEN "create" ELSE "open"
             r == [proc[p] EXCEPT !.pc = to]
  <2>1. /\ proc' = [proc EXCEPT ![p] = r] /\ got' = [got EXCEPT ![p] = got[p]]
        /\ disk' = disk /\ ledger' = ledger /\ proc[p].pc = "look"
    BY <1>1, <1>5 DEF LookForLedger
  <2>2. /\ r \in [pc : Steps, mode : ServiceModes] /\ r.mode = proc[p].mode
        /\ r.pc # "serving"
    BY <1>1
  <2> HIDE DEF r
  <2>3. SchemaInv'
    BY <1>1, <2>1, <2>2, ProcessMoves
  <2> QED
    BY <1>0, <2>1, <2>3
<1>6. ASSUME GivesUp(p), UNCHANGED <<disk, ledger>>
      PROVE  SchemaInv' /\ RecordsKept /\ Held
  <2>1. /\ proc' = [proc EXCEPT ![p] = Down] /\ got' = [got EXCEPT ![p] = Unread]
        /\ disk' = disk /\ ledger' = ledger
    BY <1>6 DEF GivesUp
  <2>2. SchemaInv'
    BY <1>1, <1>2, <2>1, ProcessMoves
  <2> QED
    BY <1>0, <2>1, <2>2
<1>7. CASE CreateLedger(p)
  <2>1. CASE ledger # Absent
    BY <1>6, <1>7, <2>1 DEF CreateLedger
  <2>2. CASE ledger = Absent
    <3> DEFINE r == [proc[p] EXCEPT !.pc = "open"]
    <3>1. /\ proc' = [proc EXCEPT ![p] = r] /\ got' = [got EXCEPT ![p] = got[p]]
          /\ disk' = disk /\ ledger' = EmptyLedger /\ proc[p].pc = "create"
      BY <1>1, <1>7, <2>2 DEF CreateLedger
    <3>2. /\ r \in [pc : Steps, mode : ServiceModes] /\ r.mode = proc[p].mode
          /\ r.pc = "open"
      BY <1>1
    <3>3. EmptyLedger \in Ledgers /\ RowsAreSound(EmptyLedger)
      BY DEF EmptyLedger, Ledgers, Shapes, RowsAreSound
    <3> HIDE DEF r
    <3>4. SchemaInv'
      BY <1>1, <2>2, <3>1, <3>2, <3>3, ProcessMoves
    <3> QED
      BY <1>1, <2>2, <3>1, <3>4 DEF RecordsKept
  <2> QED
    BY <2>1, <2>2
<1>8. CASE OpenLedger(p)
  <2>1. CASE ~ Opens(ledger, proc[p].mode)
    BY <1>6, <1>8, <2>1 DEF OpenLedger
  <2>2. CASE Opens(ledger, proc[p].mode)
    <3> DEFINE r == [proc[p] EXCEPT !.pc = "serving"]
               new == Migrated(ledger, proc[p].mode)
    <3>1. /\ proc' = [proc EXCEPT ![p] = r] /\ got' = [got EXCEPT ![p] = got[p]]
          /\ disk' = disk /\ ledger' = new /\ proc[p].pc = "open" /\ ledger # Absent
      BY <1>1, <1>8, <2>2 DEF OpenLedger
    <3>2. /\ r \in [pc : Steps, mode : ServiceModes] /\ r.mode = proc[p].mode
          /\ r.pc = "serving"
      BY <1>1
    <3>3. /\ new \in Ledgers
          /\ new.consumed = ledger.consumed /\ new.paired = ledger.paired
          /\ new.results = ledger.results /\ new.outbox = ledger.outbox
          /\ RowsAreSound(new)
          /\ ValidSchema(new, TargetVersion(proc[p].mode))
      BY <1>1, <2>2, <3>1, MigrationKeepsRows
    <3>4. ledger.version = 5 => new = ledger
      <4> SUFFICES ASSUME ledger.version = 5
                   PROVE  new = ledger
        OBVIOUS
      <4>1. Governed(proc[p].mode)
        BY <2>2 DEF Opens, Admissible, Openable
      <4> QED
        BY <4>1 DEF Migrated
    <3> HIDE DEF r, new
    <3>5. new # Absent
      BY <3>3, SchemaAssumption
    <3>6. \A q \in Processes \ {p} :
             proc[q].pc = "serving" /\ Governed(proc[q].mode) =>
                new # Absent /\ ValidSchema(new, 5)
      BY <1>1, <3>4, <3>5 DEF ValidSchema
    <3>7. r.pc = "serving" /\ Governed(r.mode) => new # Absent /\ ValidSchema(new, 5)
      BY <3>2, <3>3, <3>5 DEF TargetVersion
    <3>8. SchemaInv'
      BY <1>1, <3>1, <3>2, <3>3, <3>6, <3>7, ProcessMoves
    <3>9. RecordsKept
      BY <3>1, <3>3, <3>5 DEF RecordsKept, Lost
    <3> QED
      BY <1>1, <3>1, <3>8, <3>9
  <2> QED
    BY <2>1, <2>2
<1>9. ASSUME proc[p].pc = "serving", ledger # Absent, UNCHANGED <<disk, proc, got>>,
             NEW c \in SUBSET Approvals, NEW o \in SUBSET Approvals,
             NEW d \in SUBSET Approvals, NEW e \in SUBSET Approvals,
             ledger' = [version |-> ledger.version, shape |-> ledger.shape, consumed |-> c,
                        outbox |-> o, results |-> d, paired |-> e],
             ledger.consumed \subseteq c, ledger.paired \subseteq e,
             NEW gone \in SUBSET expired, gone = {} \/ Governed(proc[p].mode),
             ledger.results \ d \subseteq gone,
             ledger.outbox \ (o \union d) \subseteq gone,
             ledger.shape["outbox"] = "none" => o = {},
             ledger.shape["results"] = "none" => d = {},
             ledger.shape["pairings"] = "none" => e = {},
             ledger.version = 5 => o \union d \subseteq e /\ e \subseteq c
      PROVE  SchemaInv' /\ RecordsKept /\ Held
  <2> DEFINE new == [version |-> ledger.version, shape |-> ledger.shape, consumed |-> c,
                     outbox |-> o, results |-> d, paired |-> e]
  <2>1. /\ new.version = ledger.version /\ new.shape = ledger.shape
        /\ new.consumed = c /\ new.outbox = o /\ new.results = d /\ new.paired = e
    OBVIOUS
  <2>2. ledger' = new
    BY <1>9
  <2>3. new \in Ledgers
    <3>1. ledger.version \in Int /\ ledger.shape \in [Tables -> Shapes]
      BY <1>1, <1>9, LedgerFields
    <3> QED
      BY <1>9, <3>1 DEF Ledgers
  <2> HIDE DEF new
  <2>4. new # Absent /\ RowsAreSound(new)
    BY <1>9, <2>1, <2>3, SchemaAssumption DEF RowsAreSound
  <2>5. ValidSchema(ledger, 5) => ValidSchema(new, 5)
    BY <2>1 DEF ValidSchema
  <2>6. /\ proc' = [proc EXCEPT ![p] = proc[p]] /\ got' = [got EXCEPT ![p] = got[p]]
        /\ disk' = disk
    BY <1>1, <1>9
  <2>7. SchemaInv'
    BY <1>1, <2>2, <2>3, <2>4, <2>5, <2>6, ProcessMoves
  <2>8. Lost \subseteq gone
    BY <1>9, <2>1, <2>2 DEF Lost
  <2>9. RecordsKept
    BY <1>9, <2>1, <2>2, <2>4, <2>8 DEF RecordsKept, ServesGoverned
  <2> QED
    BY <1>1, <1>9, <2>7, <2>9
<1>10. ASSUME proc[p].pc = "serving", ledger # Absent
       PROVE  /\ ledger.consumed \in SUBSET Approvals /\ ledger.outbox \in SUBSET Approvals
              /\ ledger.results \in SUBSET Approvals /\ ledger.paired \in SUBSET Approvals
              /\ ledger = [version |-> ledger.version, shape |-> ledger.shape,
                           consumed |-> ledger.consumed, outbox |-> ledger.outbox,
                           results |-> ledger.results, paired |-> ledger.paired]
              /\ ledger.shape["outbox"] = "none" => ledger.outbox = {}
              /\ ledger.shape["results"] = "none" => ledger.results = {}
              /\ ledger.shape["pairings"] = "none" => ledger.paired = {}
              /\ ledger.version = 5 => /\ ledger.outbox \subseteq ledger.paired
                                       /\ ledger.results \subseteq ledger.paired
                                       /\ ledger.paired \subseteq ledger.consumed
              /\ Governed(proc[p].mode) =>
                   /\ ledger.version = 5 /\ ledger.shape["outbox"] # "none"
                   /\ ledger.shape["results"] # "none" /\ ledger.shape["pairings"] # "none"
  <2>1. ledger \in Ledgers /\ RowsAreSound(ledger)
    BY <1>1, <1>10
  <2>2. Governed(proc[p].mode) => ValidSchema(ledger, 5)
    BY <1>1, <1>10
  <2>3. Governed(proc[p].mode) =>
           /\ ledger.version = 5 /\ ledger.shape["outbox"] # "none"
           /\ ledger.shape["results"] # "none" /\ ledger.shape["pairings"] # "none"
    BY <2>2 DEF ValidSchema, ShapeAt, Tables
  <2> QED
    BY <2>1, <2>3, LedgerFields DEF RowsAreSound
<1>11. ASSUME NEW gone \in SUBSET expired, NEW a \in Approvals, Consume(p, a, gone)
       PROVE  SchemaInv' /\ RecordsKept /\ Held
  <2>1. /\ proc[p].pc = "serving" /\ ledger # Absent /\ UNCHANGED <<disk, proc, got>>
    BY <1>11 DEF Consume
  <2> DEFINE c == ledger.consumed \union {a}
             o == (ledger.outbox \ gone) \union {a}
             d == ledger.results \ gone
             e == ledger.paired \union {a}
  <2>2. CASE proc[p].mode = "durable"
    <3>1. Governed(proc[p].mode)
      BY <2>2 DEF Governed
    <3>2. PICK kept : kept = Retained(ledger, gone)
      OBVIOUS
    <3>3. kept = [version |-> ledger.version, shape |-> ledger.shape,
                  consumed |-> ledger.consumed, outbox |-> ledger.outbox \ gone,
                  results |-> d, paired |-> ledger.paired]
      BY <1>10, <2>1, <3>2, RowsReplaced DEF Retained
    <3>4. /\ kept.version = ledger.version /\ kept.shape = ledger.shape
          /\ kept.consumed = ledger.consumed /\ kept.outbox = ledger.outbox \ gone
          /\ kept.results = d /\ kept.paired = ledger.paired
      BY <3>3
    <3>5. kept = [version |-> kept.version, shape |-> kept.shape, consumed |-> kept.consumed,
                  outbox |-> kept.outbox, results |-> kept.results, paired |-> kept.paired]
      BY <3>3, <3>4
    <3>6. ledger' = [kept EXCEPT !.consumed = c, !.outbox = o, !.paired = e]
      BY <1>11, <2>2, <3>2, <3>4 DEF Consume
    <3>7. ledger' = [version |-> kept.version, shape |-> kept.shape, consumed |-> c,
                     outbox |-> o, results |-> kept.results, paired |-> e]
      BY <3>5, <3>6, RowsReplaced
    <3>8. ledger' = [version |-> ledger.version, shape |-> ledger.shape, consumed |-> c,
                     outbox |-> o, results |-> d, paired |-> e]
      BY <3>4, <3>7
    <3>9. /\ c \in SUBSET Approvals /\ o \in SUBSET Approvals
          /\ d \in SUBSET Approvals /\ e \in SUBSET Approvals
          /\ ledger.consumed \subseteq c /\ ledger.paired \subseteq e
          /\ ledger.results \ d \subseteq gone /\ ledger.outbox \ (o \union d) \subseteq gone
          /\ o \union d \subseteq e /\ e \subseteq c
      BY <1>10, <2>1, <3>1
    <3> HIDE DEF c, o, d, e
    <3> QED
      BY <1>9, <1>10, <2>1, <3>1, <3>8, <3>9
  <2>3. CASE proc[p].mode # "durable"
    <3>1. ledger' = [ledger EXCEPT !.consumed = c]
      BY <1>11, <2>3 DEF Consume
    <3>2. c \in SUBSET Approvals /\ ledger.consumed \subseteq c
      BY <1>10, <2>1
    <3> HIDE DEF c
    <3>3. ledger' = [version |-> ledger.version, shape |-> ledger.shape, consumed |-> c,
                     outbox |-> ledger.outbox, results |-> ledger.results,
                     paired |-> ledger.paired]
      BY <1>10, <2>1, <3>1
    <3>4. /\ ledger.version = 5 => /\ ledger.outbox \union ledger.results \subseteq ledger.paired
                                   /\ ledger.paired \subseteq c
          /\ {} \in SUBSET expired
          /\ ledger.results \ ledger.results \subseteq {}
          /\ ledger.outbox \ (ledger.outbox \union ledger.results) \subseteq {}
          /\ ledger.paired \subseteq ledger.paired
      BY <1>10, <2>1, <3>2
    <3>5. /\ ledger.outbox \in SUBSET Approvals /\ ledger.results \in SUBSET Approvals
          /\ ledger.paired \in SUBSET Approvals
          /\ ledger.shape["outbox"] = "none" => ledger.outbox = {}
          /\ ledger.shape["results"] = "none" => ledger.results = {}
          /\ ledger.shape["pairings"] = "none" => ledger.paired = {}
      BY <1>10, <2>1
    <3>6. PICK rows, found, pairs, none :
            /\ rows = ledger.outbox /\ found = ledger.results /\ pairs = ledger.paired
            /\ none = {}
      OBVIOUS
    <3>7. /\ rows \in SUBSET Approvals /\ found \in SUBSET Approvals
          /\ pairs \in SUBSET Approvals /\ none \in SUBSET expired /\ none = {}
          /\ ledger' = [version |-> ledger.version, shape |-> ledger.shape, consumed |-> c,
                        outbox |-> rows, results |-> found, paired |-> pairs]
          /\ ledger.paired \subseteq pairs /\ ledger.results \ found \subseteq none
          /\ ledger.outbox \ (rows \union found) \subseteq none
          /\ ledger.shape["outbox"] = "none" => rows = {}
          /\ ledger.shape["results"] = "none" => found = {}
          /\ ledger.shape["pairings"] = "none" => pairs = {}
          /\ ledger.version = 5 => rows \union found \subseteq pairs /\ pairs \subseteq c
      BY <3>3, <3>4, <3>5, <3>6
    <3> QED
      BY <1>9, <2>1, <3>2, <3>7
  <2> QED
    BY <2>2, <2>3
<1>12. ASSUME NEW gone \in SUBSET expired, ServesGoverned(p), UNCHANGED <<disk, proc, got>>,
              NEW o \in SUBSET Approvals, NEW d \in SUBSET Approvals,
              ledger' = [ledger EXCEPT !.outbox = o, !.results = d],
              ledger.results \ d \subseteq gone, ledger.outbox \ (o \union d) \subseteq gone,
              o \union d \subseteq ledger.outbox \union ledger.results
       PROVE  SchemaInv' /\ RecordsKept /\ Held
  <2>1. proc[p].pc = "serving" /\ ledger # Absent /\ Governed(proc[p].mode)
    BY <1>12 DEF ServesGoverned
  <2>2. ledger' = [version |-> ledger.version, shape |-> ledger.shape,
                   consumed |-> ledger.consumed, outbox |-> o, results |-> d,
                   paired |-> ledger.paired]
    BY <1>10, <1>12, <2>1, RowsReplaced
  <2>3. /\ o \union d \subseteq ledger.paired /\ ledger.paired \subseteq ledger.consumed
        /\ ledger.consumed \subseteq ledger.consumed /\ ledger.paired \subseteq ledger.paired
    BY <1>10, <1>12, <2>1
  <2>4. /\ ledger.shape["outbox"] = "none" => o = {}
        /\ ledger.shape["results"] = "none" => d = {}
        /\ ledger.shape["pairings"] = "none" => ledger.paired = {}
        /\ ledger.consumed \in SUBSET Approvals /\ ledger.paired \in SUBSET Approvals
    BY <1>10, <2>1
  <2>5. PICK c, e : c = ledger.consumed /\ e = ledger.paired
    OBVIOUS
  <2>6. /\ c \in SUBSET Approvals /\ e \in SUBSET Approvals
        /\ ledger' = [version |-> ledger.version, shape |-> ledger.shape, consumed |-> c,
                      outbox |-> o, results |-> d, paired |-> e]
        /\ ledger.consumed \subseteq c /\ ledger.paired \subseteq e
        /\ ledger.shape["pairings"] = "none" => e = {}
        /\ ledger.version = 5 => o \union d \subseteq e /\ e \subseteq c
    BY <2>2, <2>3, <2>4, <2>5
  <2>7. /\ ledger.shape["outbox"] = "none" => o = {}
        /\ ledger.shape["results"] = "none" => d = {}
        /\ ledger.results \ d \subseteq gone
        /\ ledger.outbox \ (o \union d) \subseteq gone
        /\ UNCHANGED <<disk, proc, got>>
        /\ gone = {} \/ Governed(proc[p].mode)
    BY <1>12, <2>1, <2>4
  <2> QED
    BY <1>9, <2>1, <2>6, <2>7
<1>13. ASSUME NEW gone \in SUBSET expired,
              \/ \E a \in Approvals : CompleteRecord(p, a, gone)
              \/ ClaimRecord(p, gone)
              \/ ReadResult(p, gone)
       PROVE  SchemaInv' /\ RecordsKept /\ Held
  <2>1. ServesGoverned(p) /\ UNCHANGED <<disk, proc, got>>
    BY <1>13 DEF CompleteRecord, ClaimRecord, ReadResult
  <2>2. proc[p].pc = "serving" /\ ledger # Absent
    BY <2>1 DEF ServesGoverned
  <2> DEFINE o == ledger.outbox \ gone
             d == ledger.results \ gone
  <2>3. /\ o \in SUBSET Approvals /\ d \in SUBSET Approvals
        /\ ledger.outbox \in SUBSET Approvals
        /\ ledger.results \ d \subseteq gone /\ ledger.outbox \ (o \union d) \subseteq gone
        /\ o \union d \subseteq ledger.outbox \union ledger.results
        /\ ledger.outbox \ (ledger.outbox \union d) \subseteq gone
        /\ ledger.outbox \union d \subseteq ledger.outbox \union ledger.results
    BY <1>10, <2>2
  <2>4. CASE ledger' = Retained(ledger, gone)
    <3>1. ledger' = [ledger EXCEPT !.outbox = o, !.results = d]
      BY <2>4 DEF Retained
    <3> HIDE DEF o, d
    <3> QED
      BY <1>12, <2>1, <2>3, <3>1
  <2>5. CASE ReadResult(p, gone)
    <3>1. ledger' = [ledger EXCEPT !.results = d]
      BY <2>5 DEF ReadResult
    <3> HIDE DEF d
    <3>2. ledger' = [version |-> ledger.version, shape |-> ledger.shape,
                     consumed |-> ledger.consumed, outbox |-> ledger.outbox, results |-> d,
                     paired |-> ledger.paired]
      BY <1>10, <2>2, <3>1
    <3>3. PICK rows : rows = ledger.outbox
      OBVIOUS
    <3>4. PICK x : x = [ledger EXCEPT !.outbox = rows, !.results = d]
      OBVIOUS
    <3>5. x = [version |-> ledger.version, shape |-> ledger.shape,
               consumed |-> ledger.consumed, outbox |-> rows, results |-> d,
               paired |-> ledger.paired]
      BY <1>10, <2>2, <3>4, RowsReplaced
    <3>6. ledger' = x
      BY <3>2, <3>3, <3>5
    <3>7. ledger' = [ledger EXCEPT !.outbox = rows, !.results = d]
      BY <3>4, <3>6
    <3> QED
      BY <1>12, <2>1, <2>3, <3>3, <3>7
  <2>6. ASSUME NEW a \in Approvals, CompleteRecord(p, a, gone), ledger' # Retained(ledger, gone)
        PROVE  SchemaInv' /\ RecordsKept /\ Held
    <3>1. PICK kept : kept = Retained(ledger, gone)
      OBVIOUS
    <3>2. kept = [version |-> ledger.version, shape |-> ledger.shape,
                  consumed |-> ledger.consumed, outbox |-> o, results |-> d,
                  paired |-> ledger.paired]
      BY <1>10, <2>2, <3>1, RowsReplaced DEF Retained
    <3> DEFINE oo == o \ {a}
               dd == d \union {a}
    <3> HIDE DEF o, d
    <3>3. /\ kept.version = ledger.version /\ kept.shape = ledger.shape
          /\ kept.consumed = ledger.consumed /\ kept.outbox = o
          /\ kept.results = d /\ kept.paired = ledger.paired
      BY <3>2
    <3>4. kept = [version |-> kept.version, shape |-> kept.shape, consumed |-> kept.consumed,
                  outbox |-> kept.outbox, results |-> kept.results, paired |-> kept.paired]
      BY <3>2, <3>3
    <3>5. a \in o /\ ledger' = [kept EXCEPT !.outbox = oo, !.results = dd]
      BY <2>6, <3>1, <3>3 DEF CompleteRecord
    <3>6. /\ oo \in SUBSET Approvals /\ dd \in SUBSET Approvals
          /\ ledger.results \ dd \subseteq gone /\ ledger.outbox \ (oo \union dd) \subseteq gone
          /\ oo \union dd \subseteq ledger.outbox \union ledger.results
      BY <2>3, <3>5
    <3> HIDE DEF oo, dd
    <3>7. ledger' = [version |-> kept.version, shape |-> kept.shape, consumed |-> kept.consumed,
                     outbox |-> oo, results |-> dd, paired |-> kept.paired]
      BY <3>4, <3>5, RowsReplaced
    <3>8. PICK x : x = [ledger EXCEPT !.outbox = oo, !.results = dd]
      OBVIOUS
    <3>9. x = [version |-> ledger.version, shape |-> ledger.shape,
               consumed |-> ledger.consumed, outbox |-> oo, results |-> dd,
               paired |-> ledger.paired]
      BY <1>10, <2>2, <3>8, RowsReplaced
    <3>10. ledger' = [ledger EXCEPT !.outbox = oo, !.results = dd]
      BY <3>3, <3>7, <3>8, <3>9
    <3> QED
      BY <1>12, <2>1, <3>6, <3>10
  <2> QED
    BY <1>13, <2>4, <2>5, <2>6 DEF ClaimRecord
<1>14. CASE Stop(p)
  BY <1>6, <1>14 DEF Stop
<1> QED
  BY <1>3, <1>4, <1>5, <1>7, <1>8, <1>11, <1>13, <1>14 DEF ProcessStep

(* ApprovalLedgerSchema: in every reachable state, however many legacy and  *)
(* governed services come up while the owner replaces policy files, a       *)
(* process past its files holds policies that agree, one that serves as     *)
(* governed has the complete version 5 schema under it, and no table has    *)
(* rows it could not have.                                                  *)
THEOREM SchemaInvariant == SchemaSpec => []SchemaInv
<1>1. SchemaInit => SchemaInv
  <2> SUFFICES ASSUME SchemaInit
               PROVE  SchemaInv
    OBVIOUS
  <2>1. \A p \in Processes : proc[p] = Down /\ got[p] = Unread
    BY DEF SchemaInit
  <2>2. /\ Down \in [pc : {"down", "load", "look", "create", "open", "serving"}, mode : ServiceModes]
        /\ Down.pc = "down" /\ Unread \in [Policies -> Nat]
    BY DEF Down, Unread, ServiceModes
  <2>3. disk \in [Policies -> Nat]
    BY SchemaAssumption DEF SchemaInit
  <2>4. SchemaTypeOK
    BY <2>2, <2>3, SchemaAssumption DEF SchemaInit, SchemaTypeOK
  <2>5. PoliciesHeld /\ GovernedOnCurrent
    BY <2>1, <2>2 DEF PoliciesHeld, GovernedOnCurrent
  <2>6. ledger # Absent => RowsAreSound(ledger)
    BY SchemaAssumption DEF SchemaInit
  <2> QED
    BY <2>4, <2>5, <2>6 DEF SchemaInv
<1>2. SchemaInv /\ [SchemaNext]_schemaVars => SchemaInv'
  <2> SUFFICES ASSUME SchemaInv, [SchemaNext]_schemaVars
               PROVE  SchemaInv'
    OBVIOUS
  <2>1. CASE \E p \in Processes : ProcessStep(p)
    BY <2>1, LedgerStep
  <2>2. CASE UNCHANGED schemaVars
    BY <2>2 DEF schemaVars, SchemaInv, SchemaTypeOK, PoliciesHeld, GovernedOnCurrent
  <2>3. CASE \E f \in Policies : \E g \in Generations[f] : ReplacePolicy(f, g)
    <3>1. PICK f \in Policies : \E g \in Generations[f] : ReplacePolicy(f, g)
      BY <2>3
    <3>2. PICK g \in Generations[f] : ReplacePolicy(f, g)
      BY <3>1
    <3>3. g \in Nat
      BY SchemaAssumption
    <3> QED
      BY <3>2, <3>3 DEF ReplacePolicy, SchemaInv, SchemaTypeOK, PoliciesHeld, GovernedOnCurrent
  <2>4. CASE \E a \in Approvals : Expire(a)
    BY <2>4 DEF Expire, SchemaInv, SchemaTypeOK, PoliciesHeld, GovernedOnCurrent
  <2> QED
    BY <2>1, <2>2, <2>3, <2>4 DEF SchemaNext
<1> QED
  BY <1>1, <1>2, PTL DEF SchemaSpec

(* SchemaIsSound: a governed service that serves finds the schema it was    *)
(* written for, and in a version 5 ledger every queued record and result is *)
(* paired, whoever migrated the file in between.                            *)
THEOREM SchemaStaysSound == SchemaSpec => []SchemaIsSound
<1>1. SchemaInv => SchemaIsSound
  BY DEF SchemaInv, SchemaIsSound, RowsAreSound, CurrentRecordsPaired
<1> QED
  BY <1>1, SchemaInvariant, PTL

(* RecordsSurvive: no migration and no later step loses a consumption or a  *)
(* pairing; a queued record goes only into its result or past its deadline, *)
(* a result only past it, and neither while a service opens the file.       *)
THEOREM SchemaKeepsRecords == SchemaSpec => RecordsSurvive
<1>1. SchemaInv /\ [SchemaNext]_schemaVars => RecordsKept
  <2> SUFFICES ASSUME SchemaInv, [SchemaNext]_schemaVars
               PROVE  RecordsKept
    OBVIOUS
  <2>1. CASE \E p \in Processes : ProcessStep(p)
    BY <2>1, LedgerStep
  <2>2. CASE ledger' = ledger
    BY <2>2 DEF RecordsKept, Lost
  <2> QED
    BY <2>1, <2>2 DEF SchemaNext, ReplacePolicy, Expire, schemaVars
<1> QED
  BY <1>1, SchemaInvariant, PTL DEF SchemaSpec, RecordsSurvive

(* UntouchedUntilAgreed: only a process whose own policies agree creates,   *)
(* migrates or writes the ledger, whatever the owner replaced meanwhile.    *)
THEOREM SchemaUntouchedUntilAgreed == SchemaSpec => UntouchedUntilAgreed
<1>1. SchemaInv /\ [SchemaNext]_schemaVars =>
        (ledger' # ledger =>
         \E p \in Processes :
            /\ proc[p].pc \in {"create", "open", "serving"}
            /\ IdentityAgrees(got[p])
            /\ Governed(proc[p].mode) => KindsAgree(got[p])
            /\ \A f \in FilesOf(proc[p].mode) : got[p][f] # 0)
  <2> SUFFICES ASSUME SchemaInv, [SchemaNext]_schemaVars, ledger' # ledger
               PROVE  \E p \in Processes :
                        /\ proc[p].pc \in {"create", "open", "serving"}
                        /\ IdentityAgrees(got[p])
                        /\ Governed(proc[p].mode) => KindsAgree(got[p])
                        /\ \A f \in FilesOf(proc[p].mode) : got[p][f] # 0
    OBVIOUS
  <2>1. PICK p \in Processes : ProcessStep(p)
    BY DEF SchemaNext, ReplacePolicy, Expire, schemaVars
  <2>2. proc[p].pc \in {"create", "open", "serving"} /\ PoliciesAgree(proc[p].mode, got[p])
    BY <2>1, LedgerStep
  <2> QED
    BY <2>2 DEF PoliciesAgree
<1> QED
  BY <1>1, SchemaInvariant, PTL DEF SchemaSpec, UntouchedUntilAgreed
==============================================================================
