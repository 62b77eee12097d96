------------------------- MODULE ObservableOutboxProofs -------------------------
(***************************************************************************)
(* The outbox keeps its promises for every set of approvals and bindings,  *)
(* every times its callers supply and every number of claims.              *)
(***************************************************************************)
EXTENDS ObservableOutbox, TLAPS

-----------------------------------------------------------------------------
(* The inductive invariant *)

\* Claims and results stem from pairings, and a completed record has left the outbox.
RowsNamed ==
    /\ \A n \in DOMAIN claims : claims[n].approval \in pairings
    /\ \A c \in completed : c.claim \in DOMAIN claims /\ c.approval \notin outbox

\* The lease of a row is the last claim that was issued for it.
LeaseIsLast ==
    \A a \in pairings :
        /\ lease[a] # 0 => claims[lease[a]].approval = a
        /\ \A n \in DOMAIN claims : claims[n].approval = a => n <= lease[a]

\* The unique columns of the two permanent tables.
KeysUnique ==
    /\ \A a, b \in consumptions : NonceOf[a] = NonceOf[b] => a = b
    /\ \A a, b \in pairings :
           StatementOf[a] = StatementOf[b] \/ CommitmentOf[a] = CommitmentOf[b] => a = b

\* The pinned authority and the high-water time bound every consumption.
AuthorityBounds ==
    \A a \in consumptions :
        /\ under[a] \in Bindings
        /\ authority \in Bindings
        /\ Epoch[under[a]] <= Epoch[authority]
        /\ consumed_at[a] <= high_water

OutboxInv ==
    /\ OutboxTypeOK
    /\ RowsNamed
    /\ LeaseIsLast
    /\ KeysUnique
    /\ AuthorityBounds
    /\ LeasesDisjoint
    /\ LeaseWithinRetention
    /\ LastLeaseWins
    /\ NoApprovalLost
    /\ EpochsFollowTime

-----------------------------------------------------------------------------
(* Lemmas *)

\* What appending to a sequence does to its length, domain and elements.
LEMMA AppendFacts ==
    ASSUME NEW S, NEW s \in Seq(S), NEW e \in S
    PROVE  /\ Append(s, e) \in Seq(S)
           /\ Len(s) \in Nat
           /\ Len(Append(s, e)) = Len(s) + 1
           /\ DOMAIN s = 1 .. Len(s)
           /\ DOMAIN Append(s, e) = 1 .. Len(s) + 1
           /\ \A i \in 1 .. Len(s) : Append(s, e)[i] = s[i]
           /\ Append(s, e)[Len(s) + 1] = e
  OBVIOUS

\* The history time only grows and covers the time of the step.
LEMMA LaterFacts ==
    ASSUME NEW s \in Nat, NEW t \in Nat
    PROVE  Later(s, t) \in Nat /\ s <= Later(s, t) /\ t <= Later(s, t)
  BY DEF Later

\* A step that only cleans up preserves the invariant: rows leave the outbox when
\* their retention deadline is over and nothing else changes.
LEMMA CleanupPreserves ==
    ASSUME OutboxInv,
           outbox' \subseteq outbox,
           \A a \in outbox \ outbox' : deadline[a] <= seen',
           results' \subseteq results,
           seen' \in Nat, seen <= seen',
           UNCHANGED <<ledgerVars, pairings, enqueued_at, deadline, lease, claims,
                       completed>>
    PROVE  OutboxInv'
  <1> USE DEF OutboxInv, ledgerVars
  <1>1. OutboxTypeOK'
    BY DEF OutboxTypeOK
  <1>2. RowsNamed'
    BY DEF RowsNamed
  <1>3. LeaseIsLast' /\ KeysUnique' /\ AuthorityBounds'
    BY DEF LeaseIsLast, KeysUnique, AuthorityBounds
  <1>4. LeasesDisjoint' /\ LeaseWithinRetention'
    BY DEF LeasesDisjoint, LeaseWithinRetention
  <1>5. LastLeaseWins' /\ EpochsFollowTime'
    BY DEF LastLeaseWins, EpochsFollowTime
  <1>6. NoApprovalLost'
    <2> SUFFICES ASSUME NEW a \in consumptions, under[a] \in Durable,
                        a \notin outbox', \A c \in completed : c.approval # a
                 PROVE  a \in pairings /\ deadline[a] <= seen'
      BY DEF NoApprovalLost
    <2>1. CASE a \in outbox
      BY <2>1 DEF OutboxTypeOK
    <2>2. CASE a \notin outbox
      <3>1. a \in pairings /\ deadline[a] <= seen
        BY <2>2 DEF NoApprovalLost
      <3>2. deadline[a] \in Nat /\ seen \in Nat
        BY DEF OutboxTypeOK
      <3> QED BY <3>1, <3>2
    <2> QED BY <2>1, <2>2
  <1> QED BY <1>1, <1>2, <1>3, <1>4, <1>5, <1>6

\* A consumption moves authority, time and replay state and keeps what rests on them.
LEMMA ConsumptionPreserves ==
    ASSUME OutboxInv,
           NEW a \in Approvals, NEW g \in Bindings, NEW t \in Nat,
           ConsumeApproval(a, g, t)
    PROVE  /\ authority' = g
           /\ high_water' = t /\ t \in Nat
           /\ a \notin consumptions
           /\ consumptions' = consumptions \cup {a}
           /\ under' \in [Approvals -> Bindings \cup {NoBinding}]
           /\ consumed_at' \in [Approvals -> Nat]
           /\ under'[a] = g
           /\ \A b \in consumptions : under'[b] = under[b] /\ consumed_at'[b] = consumed_at[b]
           /\ \A c, b \in consumptions' : NonceOf[c] = NonceOf[b] => c = b
           /\ AuthorityBounds'
           /\ EpochsFollowTime'
  <1>1. authority' = g /\ high_water' = t /\ t \in Nat
    BY OutboxAssumption DEF ConsumeApproval
  <1>2. a \notin consumptions /\ \A b \in consumptions : NonceOf[b] # NonceOf[a]
    BY DEF ConsumeApproval, Replayed
  <1>3. consumptions' = consumptions \cup {a} /\ consumptions \subseteq Approvals
    BY DEF ConsumeApproval, OutboxInv, OutboxTypeOK
  <1>4. /\ under' \in [Approvals -> Bindings \cup {NoBinding}]
        /\ consumed_at' \in [Approvals -> Nat]
        /\ under'[a] = g /\ consumed_at'[a] = t
    BY <1>1 DEF ConsumeApproval, OutboxInv, OutboxTypeOK
  <1>5. \A b \in consumptions : under'[b] = under[b] /\ consumed_at'[b] = consumed_at[b]
    BY <1>2, <1>3 DEF ConsumeApproval, OutboxInv, OutboxTypeOK
  <1>6. \A c, b \in consumptions' : NonceOf[c] = NonceOf[b] => c = b
    BY <1>2, <1>3 DEF OutboxInv, KeysUnique
  <1>7. \A b \in consumptions : /\ under[b] \in Bindings
                                /\ Epoch[under[b]] <= Epoch[g]
                                /\ consumed_at[b] <= t
    <2> SUFFICES ASSUME NEW b \in consumptions
                 PROVE  /\ under[b] \in Bindings
                        /\ Epoch[under[b]] <= Epoch[g]
                        /\ consumed_at[b] <= t
      OBVIOUS
    <2>1. /\ under[b] \in Bindings /\ authority \in Bindings
          /\ Epoch[under[b]] <= Epoch[authority]
          /\ consumed_at[b] <= high_water
      BY DEF OutboxInv, AuthorityBounds
    <2>2. authority = g \/ Epoch[g] > Epoch[authority]
      BY <2>1, OutboxAssumption DEF ConsumeApproval, AuthorityAllows
    <2>3. high_water <= t
      BY <1>1 DEF ConsumeApproval, ClockBehind, OutboxInv, OutboxTypeOK
    <2>4. /\ consumed_at[b] \in Nat /\ high_water \in Nat
          /\ Epoch[under[b]] \in Nat /\ Epoch[authority] \in Nat /\ Epoch[g] \in Nat
      BY <1>3, <2>1, OutboxAssumption DEF OutboxInv, OutboxTypeOK
    <2> QED BY <1>1, <2>1, <2>2, <2>3, <2>4
  <1>8. AuthorityBounds'
    <2> SUFFICES ASSUME NEW b \in consumptions'
                 PROVE  /\ under'[b] \in Bindings
                        /\ authority' \in Bindings
                        /\ Epoch[under'[b]] <= Epoch[authority']
                        /\ consumed_at'[b] <= high_water'
      BY DEF AuthorityBounds
    <2>1. CASE b = a
      BY <1>1, <1>4, <2>1, OutboxAssumption
    <2>2. CASE b \in consumptions
      BY <1>1, <1>5, <1>7, <2>2
    <2> QED BY <1>3, <2>1, <2>2
  <1>9. EpochsFollowTime'
    <2> SUFFICES ASSUME NEW b \in consumptions', NEW c \in consumptions',
                        consumed_at'[b] < consumed_at'[c]
                 PROVE  Epoch[under'[b]] <= Epoch[under'[c]]
      BY DEF EpochsFollowTime
    <2>1. CASE b = a /\ c = a
      BY <1>4, <2>1, OutboxAssumption
    <2>2. CASE b \in consumptions /\ c = a
      BY <1>4, <1>5, <1>7, <2>2
    <2>3. CASE b = a /\ c \in consumptions
      <3>1. consumed_at[c] <= t /\ consumed_at[c] \in Nat
        BY <1>3, <1>7, <2>3 DEF OutboxInv, OutboxTypeOK
      <3>2. t < consumed_at[c]
        BY <1>4, <1>5, <2>3
      <3> QED BY <1>1, <3>1, <3>2
    <2>4. CASE b \in consumptions /\ c \in consumptions
      BY <1>5, <2>4 DEF OutboxInv, EpochsFollowTime
    <2> QED BY <1>3, <2>1, <2>2, <2>3, <2>4
  <1> QED BY <1>1, <1>2, <1>3, <1>4, <1>5, <1>6, <1>8, <1>9

\* A new row is not leased and shares no statement or bundle with an earlier one.
LEMMA EnqueuePreserves ==
    ASSUME OutboxInv,
           NEW a \in Approvals, NEW g \in Bindings, NEW t \in Nat,
           ConsumeDurable(a, g, t)
    PROVE  OutboxInv'
  <1> DEFINE end == t + MaxRetention[g]
  <1>0. ConsumeApproval(a, g, t) /\ EnqueueOutbox(a, g, t) /\ g \in Durable
    BY DEF ConsumeDurable
  <1>1. /\ authority' = g
        /\ high_water' = t /\ t \in Nat
        /\ a \notin consumptions
        /\ consumptions' = consumptions \cup {a}
        /\ under' \in [Approvals -> Bindings \cup {NoBinding}]
        /\ consumed_at' \in [Approvals -> Nat]
        /\ under'[a] = g
        /\ \A b \in consumptions : under'[b] = under[b]
        /\ \A c, b \in consumptions' : NonceOf[c] = NonceOf[b] => c = b
        /\ AuthorityBounds'
        /\ EpochsFollowTime'
    BY <1>0, ConsumptionPreserves
  <1>2. OutboxTypeOK
    BY DEF OutboxInv
  <1>3. /\ claims' = claims /\ completed' = completed
        /\ pairings' = pairings \cup {a} /\ a \notin pairings
        /\ outbox' = OutboxKept(t) \cup {a}
        /\ results' \subseteq results
        /\ enqueued_at' = [enqueued_at EXCEPT ![a] = t]
        /\ deadline' = [deadline EXCEPT ![a] = end]
        /\ lease' = [lease EXCEPT ![a] = 0]
        /\ seen' = Later(seen, t)
    BY <1>0, <1>1, <1>2 DEF ConsumeDurable, EnqueueOutbox, ResultsKept, OutboxTypeOK
  <1>4. OutboxKept(t) \subseteq outbox
    BY DEF OutboxKept
  <1>5. end \in Nat /\ seen' \in Nat /\ seen <= seen' /\ t <= seen'
    <2>1. end \in Nat
      BY <1>1, OutboxAssumption
    <2>2. seen \in Nat
      BY <1>2 DEF OutboxTypeOK
    <2> QED BY <1>1, <1>3, <2>1, <2>2, LaterFacts
  <1>6. \A n \in DOMAIN claims : claims[n].approval \in pairings
    BY DEF OutboxInv, RowsNamed
  <1>7. /\ \A b \in pairings : deadline'[b] = deadline[b] /\ lease'[b] = lease[b]
        /\ lease'[a] = 0
    BY <1>2, <1>3 DEF OutboxTypeOK
  <1>8. OutboxTypeOK'
    BY <1>1, <1>2, <1>3, <1>4, <1>5 DEF OutboxTypeOK
  <1>9. RowsNamed'
    <2>1. \A c \in completed : c.approval # a
      BY <1>3, <1>6 DEF OutboxInv, RowsNamed, LastLeaseWins
    <2> QED BY <1>3, <1>4, <2>1 DEF OutboxInv, RowsNamed
  <1>10. LeaseIsLast'
    BY <1>3, <1>6, <1>7 DEF OutboxInv, LeaseIsLast
  <1>11. KeysUnique'
    BY <1>0, <1>1, <1>3 DEF OutboxInv, KeysUnique, EnqueueOutbox, PairingTaken
  <1>12. LeasesDisjoint' /\ LastLeaseWins'
    BY <1>3 DEF OutboxInv, LeasesDisjoint, LastLeaseWins
  <1>13. LeaseWithinRetention'
    BY <1>3, <1>6, <1>7 DEF OutboxInv, LeaseWithinRetention
  <1>14. NoApprovalLost'
    <2> SUFFICES ASSUME NEW b \in consumptions, under[b] \in Durable,
                        b \notin outbox', \A c \in completed : c.approval # b
                 PROVE  b \in pairings /\ deadline[b] <= seen'
      BY <1>1, <1>3, <1>7 DEF NoApprovalLost
    <2>1. deadline[b] \in Nat /\ seen \in Nat
      BY <1>2 DEF OutboxTypeOK
    <2>2. CASE b \in outbox
      BY <1>1, <1>2, <1>3, <1>5, <2>1, <2>2 DEF OutboxKept, OutboxTypeOK
    <2>3. CASE b \notin outbox
      BY <1>5, <2>1, <2>3 DEF OutboxInv, NoApprovalLost
    <2> QED BY <2>2, <2>3
  <1> QED BY <1>1, <1>8, <1>9, <1>10, <1>11, <1>12, <1>13, <1>14 DEF OutboxInv

\* A consumption without the outbox leaves all rows alone.
LEMMA GovernedPreserves ==
    ASSUME OutboxInv,
           NEW a \in Approvals, NEW g \in Bindings, NEW t \in Nat,
           ConsumeGoverned(a, g, t)
    PROVE  OutboxInv'
  <1>0. ConsumeApproval(a, g, t) /\ g \notin Durable
    BY DEF ConsumeGoverned
  <1>1. /\ authority' = g
        /\ high_water' = t /\ t \in Nat
        /\ consumptions' = consumptions \cup {a}
        /\ under' \in [Approvals -> Bindings \cup {NoBinding}]
        /\ consumed_at' \in [Approvals -> Nat]
        /\ under'[a] = g
        /\ \A b \in consumptions : under'[b] = under[b]
        /\ \A c, b \in consumptions' : NonceOf[c] = NonceOf[b] => c = b
        /\ AuthorityBounds'
        /\ EpochsFollowTime'
    BY <1>0, ConsumptionPreserves
  <1>2. UNCHANGED <<pairings, outbox, enqueued_at, deadline, lease, claims, results,
                    completed>>
    BY DEF ConsumeGoverned, rowVars
  <1>3. OutboxTypeOK
    BY DEF OutboxInv
  <1>4. seen' \in Nat /\ seen <= seen'
    BY <1>1, <1>3, LaterFacts DEF ConsumeGoverned, OutboxTypeOK
  <1>5. OutboxTypeOK'
    BY <1>1, <1>2, <1>3, <1>4 DEF OutboxTypeOK
  <1>6. RowsNamed' /\ LeaseIsLast'
    BY <1>2 DEF OutboxInv, RowsNamed, LeaseIsLast
  <1>7. KeysUnique'
    BY <1>1, <1>2 DEF OutboxInv, KeysUnique
  <1>8. LeasesDisjoint' /\ LastLeaseWins' /\ LeaseWithinRetention'
    BY <1>2 DEF OutboxInv, LeasesDisjoint, LastLeaseWins, LeaseWithinRetention
  <1>9. NoApprovalLost'
    <2> SUFFICES ASSUME NEW b \in consumptions, under[b] \in Durable,
                        b \notin outbox, \A c \in completed : c.approval # b
                 PROVE  b \in pairings /\ deadline[b] <= seen'
      BY <1>0, <1>1, <1>2 DEF NoApprovalLost
    <2>1. deadline[b] \in Nat /\ seen \in Nat
      BY <1>3 DEF OutboxTypeOK
    <2> QED BY <1>4, <2>1 DEF OutboxInv, NoApprovalLost
  <1> QED BY <1>1, <1>5, <1>6, <1>7, <1>8, <1>9 DEF OutboxInv

\* A claim takes a row whose last lease is over and cuts its own at the deadline.
LEMMA ClaimPreserves ==
    ASSUME OutboxInv, NEW t \in Times, NEW secs \in LeaseSeconds, Claim(t, secs)
    PROVE  OutboxInv'
  <1>1. PICK a \in Approvals :
            /\ Oldest(a, Eligible(t))
            /\ claims' = Append(claims, [approval   |-> a,
                                         claimed_at |-> t,
                                         expires    |-> LeaseEnd(a, t, secs)])
            /\ lease' = [lease EXCEPT ![a] = Len(claims) + 1]
    BY DEF Claim
  <1> DEFINE new == Len(claims) + 1
             c0  == [approval |-> a, claimed_at |-> t, expires |-> LeaseEnd(a, t, secs)]
  <1>2. /\ UNCHANGED <<ledgerVars, pairings, enqueued_at, deadline, completed>>
        /\ outbox' = OutboxKept(t) /\ results' \subseteq results
        /\ seen' = Later(seen, t)
    BY DEF Claim, CleanUp, ResultsKept
  <1>3. OutboxTypeOK
    BY DEF OutboxInv
  <1>4. t \in Nat /\ secs \in Nat /\ secs > 0
    BY OutboxAssumption
  <1>5. a \in outbox /\ a \in pairings /\ deadline[a] > t /\ LeaseOver(a, t)
    BY <1>1, <1>3 DEF Oldest, Eligible, OutboxKept, OutboxTypeOK
  <1>6. /\ c0 \in ClaimRecords
        /\ t < c0.expires /\ c0.expires <= deadline[a]
    BY <1>3, <1>4, <1>5 DEF LeaseEnd, ClaimRecords, OutboxTypeOK
  <1>7. /\ claims' \in Seq(ClaimRecords)
        /\ Len(claims) \in Nat /\ Len(claims') = new
        /\ DOMAIN claims = 1 .. Len(claims)
        /\ DOMAIN claims' = 1 .. new
        /\ \A i \in 1 .. Len(claims) : claims'[i] = claims[i]
        /\ claims'[new] = c0
    BY <1>1, <1>3, <1>6, AppendFacts DEF OutboxTypeOK
  <1>8. seen' \in Nat /\ seen <= seen' /\ t <= seen'
    BY <1>2, <1>3, <1>4, LaterFacts DEF OutboxTypeOK
  <1>9. /\ lease' \in [Approvals -> 0 .. new]
        /\ lease'[a] = new
        /\ \A b \in Approvals : b # a => lease'[b] = lease[b]
    BY <1>1, <1>3, <1>7 DEF OutboxTypeOK
  <1>10. OutboxTypeOK'
    BY <1>2, <1>3, <1>7, <1>8, <1>9 DEF OutboxTypeOK, OutboxKept, ledgerVars
  <1>11. RowsNamed'
    BY <1>2, <1>5, <1>7 DEF OutboxInv, RowsNamed, OutboxKept
  <1>12. LeaseIsLast'
    <2> SUFFICES ASSUME NEW b \in pairings
                 PROVE  /\ lease'[b] # 0 => claims'[lease'[b]].approval = b
                        /\ \A n \in DOMAIN claims' :
                               claims'[n].approval = b => n <= lease'[b]
      BY <1>2 DEF LeaseIsLast
    <2>1. CASE b = a
      BY <1>7, <1>9, <2>1
    <2>2. CASE b # a
      <3>1. lease'[b] = lease[b] /\ lease[b] \in 0 .. Len(claims)
        BY <1>3, <1>9, <2>2 DEF OutboxTypeOK
      <3>2. lease[b] # 0 => claims'[lease[b]].approval = b
        BY <1>7, <3>1 DEF OutboxInv, LeaseIsLast
      <3>3. \A n \in 1 .. Len(claims) : claims'[n].approval = b => n <= lease[b]
        BY <1>7 DEF OutboxInv, LeaseIsLast
      <3>4. claims'[new].approval # b
        BY <1>7, <2>2
      <3> HIDE DEF new
      <3>5. \A n \in 1 .. new : n = new \/ n \in 1 .. Len(claims)
        BY <1>7 DEF new
      <3> QED BY <1>7, <3>1, <3>2, <3>3, <3>4, <3>5
    <2> QED BY <2>1, <2>2
  <1>13. KeysUnique' /\ AuthorityBounds' /\ EpochsFollowTime'
    BY <1>2 DEF OutboxInv, KeysUnique, AuthorityBounds, EpochsFollowTime, ledgerVars
  <1>14. LeasesDisjoint'
    <2> SUFFICES ASSUME NEW i \in 1 .. new, NEW j \in 1 .. new, i < j,
                        claims'[i].approval = claims'[j].approval
                 PROVE  claims'[i].expires <= claims'[j].claimed_at
      BY <1>7 DEF LeasesDisjoint
    <2>1. CASE j # new
      BY <1>7, <2>1 DEF OutboxInv, LeasesDisjoint
    <2>2. CASE j = new
      <3>1. i \in DOMAIN claims /\ claims'[i] = claims[i] /\ claims[i].approval = a
        BY <1>7, <2>2
      <3>2. i <= lease[a] /\ lease[a] \in 0 .. Len(claims)
        BY <1>3, <1>5, <3>1 DEF OutboxInv, LeaseIsLast, OutboxTypeOK
      <3>3. lease[a] \in DOMAIN claims /\ claims[lease[a]].approval = a
        BY <1>5, <1>7, <3>1, <3>2 DEF OutboxInv, LeaseIsLast
      <3>4. claims[lease[a]].expires <= t
        BY <1>5, <1>7, <3>3 DEF LeaseOver
      <3>5. claims[i].expires <= t
        <4>1. CASE i = lease[a]
          BY <3>4, <4>1
        <4>2. CASE i # lease[a]
          <5>1. claims[i].expires <= claims[lease[a]].claimed_at
            BY <1>7, <3>1, <3>2, <3>3, <4>2 DEF OutboxInv, LeasesDisjoint
          <5>2. claims[lease[a]].claimed_at < claims[lease[a]].expires
            BY <3>3 DEF OutboxInv, LeaseWithinRetention
          <5>3. /\ claims[i] \in ClaimRecords
                /\ claims[lease[a]] \in ClaimRecords
            BY <1>3, <1>7, <3>1, <3>3 DEF OutboxTypeOK
          <5> QED BY <1>4, <3>4, <5>1, <5>2, <5>3 DEF ClaimRecords
        <4> QED BY <4>1, <4>2
      <3> QED BY <1>7, <2>2, <3>1, <3>5
    <2> QED BY <2>1, <2>2
  <1>15. LeaseWithinRetention'
    BY <1>2, <1>6, <1>7 DEF OutboxInv, LeaseWithinRetention
  <1>16. LastLeaseWins'
    <2>1. \A c \in completed : c.claim \in DOMAIN claims /\ c.approval # a
      BY <1>5 DEF OutboxInv, RowsNamed
    <2> QED BY <1>2, <1>7, <2>1 DEF OutboxInv, LastLeaseWins
  <1>17. NoApprovalLost'
    <2> SUFFICES ASSUME NEW b \in consumptions, under[b] \in Durable,
                        b \notin OutboxKept(t), \A c \in completed : c.approval # b
                 PROVE  b \in pairings /\ deadline[b] <= seen'
      BY <1>2 DEF NoApprovalLost, ledgerVars
    <2>1. deadline[b] \in Nat /\ seen \in Nat
      BY <1>3 DEF OutboxTypeOK
    <2>2. CASE b \in outbox
      BY <1>3, <1>4, <1>8, <2>1, <2>2 DEF OutboxKept, OutboxTypeOK
    <2>3. CASE b \notin outbox
      BY <1>8, <2>1, <2>3 DEF OutboxInv, NoApprovalLost
    <2> QED BY <2>2, <2>3
  <1> QED BY <1>10, <1>11, <1>12, <1>13, <1>14, <1>15, <1>16, <1>17 DEF OutboxInv

\* A completion consumes the live lease of its row and is the row's only one.
LEMMA CompletePreserves ==
    ASSUME OutboxInv, NEW n \in DOMAIN claims, NEW wire \in Wires, NEW t \in Times,
           Complete(n, wire, t)
    PROVE  OutboxInv'
  <1> DEFINE a == claims[n].approval
             c0 == Completion(n, wire, t)
  <1>1. /\ UNCHANGED <<ledgerVars, pairings, enqueued_at, deadline, lease, claims>>
        /\ outbox' = OutboxKept(t) \ {a}
        /\ results' \subseteq results \cup {c0}
        /\ completed' = completed \cup {c0}
        /\ seen' = Later(seen, t)
        /\ a \in OutboxKept(t) /\ lease[a] = n /\ claims[n].expires > t
    BY DEF Complete, HoldsLease, ResultsKept
  <1>2. OutboxTypeOK
    BY DEF OutboxInv
  <1>3. t \in Nat
    BY OutboxAssumption
  <1>4. OutboxKept(t) \subseteq outbox /\ a \in outbox /\ a \in pairings /\ a \in Approvals
    BY <1>1, <1>2 DEF OutboxKept, OutboxTypeOK
  <1>5. /\ n \in Nat
        /\ c0 \in CompletionRecords
        /\ c0.approval = a /\ c0.claim = n /\ c0.completed_at = t
    BY <1>2, <1>3, <1>4 DEF Completion, CompletionRecords, OutboxTypeOK
  <1>6. seen' \in Nat /\ seen <= seen' /\ t <= seen'
    BY <1>1, <1>2, <1>3, LaterFacts DEF OutboxTypeOK
  <1> HIDE DEF a, c0
  <1>7. OutboxTypeOK'
    BY <1>1, <1>2, <1>4, <1>5, <1>6 DEF OutboxTypeOK, ledgerVars
  <1>8. RowsNamed'
    BY <1>1, <1>4, <1>5 DEF OutboxInv, RowsNamed
  <1>9. LeaseIsLast' /\ KeysUnique' /\ AuthorityBounds' /\ EpochsFollowTime'
    BY <1>1 DEF OutboxInv, LeaseIsLast, KeysUnique, AuthorityBounds, EpochsFollowTime,
                ledgerVars
  <1>10. LeasesDisjoint' /\ LeaseWithinRetention'
    BY <1>1 DEF OutboxInv, LeasesDisjoint, LeaseWithinRetention
  <1>11. LastLeaseWins'
    <2>1. /\ claims[c0.claim].approval = c0.approval
          /\ c0.completed_at < claims[c0.claim].expires
      <3>1. claims[n].expires \in Nat
        <4>1. claims \in Seq(ClaimRecords)
          BY <1>2 DEF OutboxTypeOK
        <4>2. claims[n] \in ClaimRecords
          BY <4>1
        <4> QED BY <4>2 DEF ClaimRecords
      <3> QED BY <1>1, <1>3, <1>5, <3>1 DEF a
    <2>2. \A m \in DOMAIN claims : claims[m].approval = a => m <= n
      BY <1>1, <1>4 DEF OutboxInv, LeaseIsLast
    <2>3. \A d \in completed : d.approval # a
      BY <1>4 DEF OutboxInv, RowsNamed
    <2> QED BY <1>1, <1>5, <2>1, <2>2, <2>3 DEF OutboxInv, LastLeaseWins
  <1>12. NoApprovalLost'
    <2> SUFFICES ASSUME NEW b \in consumptions, under[b] \in Durable,
                        b \notin OutboxKept(t), b # a,
                        \A c \in completed : c.approval # b
                 PROVE  b \in pairings /\ deadline[b] <= seen'
      BY <1>1, <1>5 DEF NoApprovalLost, ledgerVars
    <2>1. deadline[b] \in Nat /\ seen \in Nat
      BY <1>2 DEF OutboxTypeOK
    <2>2. CASE b \in outbox
      BY <1>2, <1>3, <1>6, <2>1, <2>2 DEF OutboxKept, OutboxTypeOK
    <2>3. CASE b \notin outbox
      BY <1>6, <2>1, <2>3 DEF OutboxInv, NoApprovalLost
    <2> QED BY <2>2, <2>3
  <1> QED BY <1>7, <1>8, <1>9, <1>10, <1>11, <1>12 DEF OutboxInv

\* The cleanup of claim, complete and result removes only rows that are over.
LEMMA CleanUpFacts ==
    ASSUME OutboxInv, NEW t \in Times
    PROVE  /\ OutboxKept(t) \subseteq outbox
           /\ ResultsKept(t) \subseteq results
           /\ Later(seen, t) \in Nat /\ seen <= Later(seen, t)
           /\ \A a \in outbox \ OutboxKept(t) : deadline[a] <= Later(seen, t)
  <1>1. t \in Nat /\ seen \in Nat
    BY OutboxAssumption DEF OutboxInv, OutboxTypeOK
  <1>2. Later(seen, t) \in Nat /\ seen <= Later(seen, t) /\ t <= Later(seen, t)
    BY <1>1, LaterFacts
  <1>3. \A a \in outbox : deadline[a] \in Nat
    BY DEF OutboxInv, OutboxTypeOK
  <1> QED BY <1>1, <1>2, <1>3 DEF OutboxKept, ResultsKept

\* The invariant holds of an empty ledger.
LEMMA OutboxInitially == OutboxInit => OutboxInv
  <1> SUFFICES ASSUME OutboxInit PROVE OutboxInv
    OBVIOUS
  <1>1. OutboxTypeOK
    BY DEF OutboxInit, OutboxTypeOK, Zero
  <1>2. RowsNamed /\ LeaseIsLast /\ KeysUnique /\ AuthorityBounds
    BY DEF OutboxInit, RowsNamed, LeaseIsLast, KeysUnique, AuthorityBounds
  <1>3. LeasesDisjoint /\ LeaseWithinRetention
    BY DEF OutboxInit, LeasesDisjoint, LeaseWithinRetention
  <1>4. LastLeaseWins /\ NoApprovalLost /\ EpochsFollowTime
    BY DEF OutboxInit, LastLeaseWins, NoApprovalLost, EpochsFollowTime
  <1> QED BY <1>1, <1>2, <1>3, <1>4 DEF OutboxInv

-----------------------------------------------------------------------------
(* Theorems *)

\* The inductive invariant holds in every behaviour of the ledger and its outbox.
THEOREM OutboxInvariant == OutboxSpec => []OutboxInv
  <1>1. OutboxInit => OutboxInv
    BY OutboxInitially
  <1>2. OutboxInv /\ [OutboxNext]_outboxVars => OutboxInv'
    <2> SUFFICES ASSUME OutboxInv, [OutboxNext]_outboxVars PROVE OutboxInv'
      OBVIOUS
    <2>1. CASE UNCHANGED outboxVars
      <3>1. seen \in Nat /\ seen <= seen
        BY DEF OutboxInv, OutboxTypeOK
      <3> QED BY <2>1, <3>1, CleanupPreserves DEF outboxVars, rowVars, ledgerVars
    <2>2. CASE OutboxNext
      <3>1. PICK t \in Times :
                \/ \E a \in Approvals, g \in Bindings :
                       ConsumeDurable(a, g, t) \/ ConsumeGoverned(a, g, t)
                \/ \E secs \in LeaseSeconds : Claim(t, secs)
                \/ ClaimNothing(t)
                \/ \E n \in DOMAIN claims, wire \in Wires :
                       Complete(n, wire, t) \/ RetryComplete(n, wire, t)
                \/ Result(t)
        BY <2>2 DEF OutboxNext
      <3>2. /\ OutboxKept(t) \subseteq outbox
            /\ ResultsKept(t) \subseteq results
            /\ Later(seen, t) \in Nat /\ seen <= Later(seen, t)
            /\ \A a \in outbox \ OutboxKept(t) : deadline[a] <= Later(seen, t)
        BY CleanUpFacts
      <3>3. ASSUME NEW a \in Approvals, NEW g \in Bindings,
                   ConsumeDurable(a, g, t) \/ ConsumeGoverned(a, g, t)
            PROVE  OutboxInv'
        BY <3>3, OutboxAssumption, EnqueuePreserves, GovernedPreserves
      <3>4. ASSUME NEW secs \in LeaseSeconds, Claim(t, secs)
            PROVE  OutboxInv'
        BY <3>4, ClaimPreserves
      <3>5. CASE ClaimNothing(t)
        BY <3>2, <3>5, CleanupPreserves DEF ClaimNothing, CleanUp
      <3>6. ASSUME NEW n \in DOMAIN claims, NEW wire \in Wires, Complete(n, wire, t)
            PROVE  OutboxInv'
        BY <3>6, CompletePreserves
      <3>7. ASSUME NEW n \in DOMAIN claims, NEW wire \in Wires, RetryComplete(n, wire, t)
            PROVE  OutboxInv'
        BY <3>2, <3>7, CleanupPreserves DEF RetryComplete, CleanUp
      <3>8. CASE Result(t)
        BY <3>2, <3>8, CleanupPreserves DEF Result, rowVars
      <3> QED BY <3>1, <3>3, <3>4, <3>5, <3>6, <3>7, <3>8
    <2> QED BY <2>1, <2>2
  <1> QED BY <1>1, <1>2, PTL DEF OutboxSpec

\* Leases of one record never overlap, for any times in any order.
THEOREM OutboxLeasesDisjoint == OutboxSpec => []LeasesDisjoint
  <1>1. OutboxInv => LeasesDisjoint
    BY DEF OutboxInv
  <1> QED BY <1>1, OutboxInvariant, PTL

\* No lease outlives the retention of its record, so cleanup removes none that runs.
THEOREM OutboxLeaseWithinRetention == OutboxSpec => []LeaseWithinRetention
  <1>1. OutboxInv => LeaseWithinRetention
    BY DEF OutboxInv
  <1> QED BY <1>1, OutboxInvariant, PTL

\* Each record has at most one result, stored under its last lease and within it.
THEOREM OutboxLastLeaseWins == OutboxSpec => []LastLeaseWins
  <1>1. OutboxInv => LastLeaseWins
    BY DEF OutboxInv
  <1> QED BY <1>1, OutboxInvariant, PTL

\* A durably consumed approval waits, is completed or has reached its deadline.
THEOREM OutboxKeepsApprovals == OutboxSpec => []NoApprovalLost
  <1>1. OutboxInv => NoApprovalLost
    BY DEF OutboxInv
  <1> QED BY <1>1, OutboxInvariant, PTL

\* No nonce, statement or bundle is analysed under two approvals.
THEOREM OutboxOneApproval == OutboxSpec => []AnalysedUnderOneApproval
  <1>1. OutboxInv => AnalysedUnderOneApproval
    <2> SUFFICES ASSUME OutboxInv, NEW i \in DOMAIN claims, NEW j \in DOMAIN claims,
                        claims[i].approval # claims[j].approval
                 PROVE  /\ NonceOf[claims[i].approval] # NonceOf[claims[j].approval]
                        /\ StatementOf[claims[i].approval] # StatementOf[claims[j].approval]
                        /\ CommitmentOf[claims[i].approval] # CommitmentOf[claims[j].approval]
      BY DEF AnalysedUnderOneApproval
    <2>1. claims[i].approval \in pairings /\ claims[j].approval \in pairings
      BY DEF OutboxInv, RowsNamed
    <2>2. pairings \subseteq consumptions
      BY DEF OutboxInv, OutboxTypeOK
    <2> QED BY <2>1, <2>2 DEF OutboxInv, KeysUnique
  <1> QED BY <1>1, OutboxInvariant, PTL

\* Authority epochs never run against the time of consumption.
THEOREM OutboxEpochsFollowTime == OutboxSpec => []EpochsFollowTime
  <1>1. OutboxInv => EpochsFollowTime
    BY DEF OutboxInv
  <1> QED BY <1>1, OutboxInvariant, PTL
=============================================================================
