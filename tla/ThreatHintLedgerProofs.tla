-------------------------- MODULE ThreatHintLedgerProofs --------------------------
(***************************************************************************)
(* ThreatHintLedger for every set of hints, every skew and age and every   *)
(* order of the callers' clock values: the prune inside admit never        *)
(* reopens a replay window and never loses a job.                          *)
(***************************************************************************)
EXTENDS ThreatHintLedger, TLAPS

\* Only accepted hints have a delivery time.
DeliveredWasAccepted ==
    \A h \in Hints : delivered_at[h] # Null => h \in accepted

\* The strengthening the invariants need: each of them leans on the others.
LedgerInv ==
    /\ LedgerTypeOK
    /\ ForgottenIsExpired
    /\ RowsConsistent
    /\ NoJobLost
    /\ DeliveredWasAccepted

\* A fresh ledger file satisfies the invariant.
LEMMA LedgerInitInv == LedgerInit => LedgerInv
<1>1. (CHOOSE net \in Networks : TRUE) \in Networks
  BY HintAssumption
<1> QED
  BY <1>1, HintAssumption DEF LedgerInit, LedgerInv, LedgerTypeOK, ForgottenIsExpired,
     RowsConsistent, NoJobLost, DeliveredWasAccepted, Null

\* What the two DELETEs of admit leave behind: outbox and replay table stay the same
\* set, and whatever went had expired before now and was delivered.
LEMMA PruneLemma ==
  ASSUME LedgerInv, NEW now \in Nat
  PROVE  /\ OutboxAfterPrune(now) = AdmissionsAfterPrune(now)
         /\ AdmissionsAfterPrune(now) \subseteq admissions
         /\ \A g \in admissions \ AdmissionsAfterPrune(now) :
                ExpiresAt(g) < now /\ delivered_at[g] # Null
<1>1. \A g \in Hints : ExpiresAt(g) \in Nat
  BY HintAssumption DEF ExpiresAt
<1>2. now \in Nat
  BY HintAssumption
<1>3. outbox = admissions /\ admissions \subseteq Hints
  BY DEF LedgerInv, LedgerTypeOK, RowsConsistent
<1> QED
  BY <1>1, <1>2, <1>3 DEF OutboxAfterPrune, AdmissionsAfterPrune

\* The commit of admit preserves the invariant.
LEMMA AdmitInv ==
  ASSUME LedgerInv, NEW h \in Hints, NEW now \in Nat, NEW net \in Networks,
         AdmitCommit(h, now, net)
  PROVE  LedgerInv'
<1> USE DEF LedgerInv
<1>1. /\ now \in Nat
      /\ now >= high_water
      /\ \A g \in Hints : ExpiresAt(g) \in Nat
  <2>1. now \in Nat /\ high_water \in Nat /\ ~ (now < high_water)
    BY HintAssumption DEF AdmitCommit, ClockBehind, LedgerTypeOK
  <2>2. \A g \in Hints : ExpiresAt(g) \in Nat
    BY HintAssumption DEF ExpiresAt
  <2> QED
    BY <2>1, <2>2
<1>2. admissions' = AdmissionsAfterPrune(now) \cup {h} /\ outbox' = admissions'
  BY PruneLemma DEF AdmitCommit
<1>3. LedgerTypeOK'
  <2>1. admissions' \in SUBSET Hints
    BY <1>2, PruneLemma DEF LedgerTypeOK
  <2>2. accepted' \in SUBSET Hints
    BY DEF AdmitCommit, LedgerTypeOK
  <2>3. delivered_at' \in [Hints -> Nat \cup {Null}]
    BY DEF AdmitCommit, LedgerTypeOK
  <2>4. admitted_at' \in [Hints -> Nat] /\ network_of' \in [Hints -> Networks]
    BY <1>1 DEF AdmitCommit, LedgerTypeOK
  <2>5. high_water' \in Nat
    BY <1>1 DEF AdmitCommit
  <2> QED
    BY <1>2, <2>1, <2>2, <2>3, <2>4, <2>5 DEF LedgerTypeOK
<1>4. ForgottenIsExpired'
  <2> SUFFICES ASSUME NEW g \in accepted', g \notin admissions'
               PROVE  ExpiresAt(g) < high_water'
    BY DEF ForgottenIsExpired, ExpiresAt
  <2>1. g # h /\ g \in accepted /\ g \in Hints /\ g \notin AdmissionsAfterPrune(now)
    BY <1>2 DEF AdmitCommit, LedgerTypeOK
  <2>2. high_water' = now
    BY DEF AdmitCommit
  <2>3. CASE g \in admissions
    BY <2>1, <2>2, <2>3, PruneLemma
  <2>4. CASE g \notin admissions
    BY <1>1, <2>1, <2>2, <2>4 DEF ForgottenIsExpired, LedgerTypeOK
  <2> QED
    BY <2>3, <2>4
<1>5. RowsConsistent'
  <2>1. admissions' \subseteq accepted'
    BY <1>2, PruneLemma DEF AdmitCommit, RowsConsistent
  <2>2. ASSUME NEW f \in admissions', NEW g \in admissions', f # g
        PROVE  ~ SharesKey(f, g)
    <3>1. \A e \in AdmissionsAfterPrune(now) : ~ SharesKey(h, e) /\ ~ SharesKey(e, h)
      BY DEF AdmitCommit, KeyTaken, SharesKey
    <3> QED
      BY <1>2, <2>2, <3>1, PruneLemma DEF RowsConsistent
  <2> QED
    BY <1>2, <2>1, <2>2 DEF RowsConsistent, SharesKey
<1>6. NoJobLost'
  <2> SUFFICES ASSUME NEW g \in accepted', delivered_at'[g] = Null
               PROVE  g \in outbox'
    BY DEF NoJobLost
  <2>1. CASE g = h
    BY <1>2, <2>1
  <2>2. CASE g # h
    <3>1. g \in accepted /\ g \in Hints /\ delivered_at[g] = Null
      BY <2>2 DEF AdmitCommit, LedgerTypeOK
    <3>2. g \in admissions
      BY <3>1 DEF NoJobLost, RowsConsistent
    <3> QED
      BY <1>2, <3>1, <3>2, PruneLemma
  <2> QED
    BY <2>1, <2>2
<1>7. DeliveredWasAccepted'
  BY DEF AdmitCommit, LedgerTypeOK, DeliveredWasAccepted
<1> QED
  BY <1>3, <1>4, <1>5, <1>6, <1>7

\* mark_delivered preserves the invariant.
LEMMA MarkInv ==
  ASSUME LedgerInv, NEW h \in Hints, NEW now \in Nat, MarkDelivered(h, now)
  PROVE  LedgerInv'
<1>1. LedgerTypeOK'
  BY HintAssumption DEF LedgerInv, LedgerTypeOK, MarkDelivered, Null
<1>2. ForgottenIsExpired' /\ RowsConsistent'
  BY DEF LedgerInv, MarkDelivered, ForgottenIsExpired, RowsConsistent, ExpiresAt, SharesKey
<1>3. NoJobLost'
  BY HintAssumption DEF LedgerInv, LedgerTypeOK, MarkDelivered, NoJobLost, Null
<1>4. DeliveredWasAccepted'
  <2>1. h \in accepted
    BY DEF LedgerInv, MarkDelivered, RowsConsistent
  <2> QED
    BY <2>1 DEF LedgerInv, LedgerTypeOK, MarkDelivered, DeliveredWasAccepted
<1> QED
  BY <1>1, <1>2, <1>3, <1>4 DEF LedgerInv

\* The invariant holds in every state of the ledger.
THEOREM LedgerInvariant == LedgerSpec => []LedgerInv
<1>1. LedgerInv /\ [LedgerNext]_ledgerVars => LedgerInv'
  <2> SUFFICES ASSUME LedgerInv, [LedgerNext]_ledgerVars PROVE LedgerInv'
    OBVIOUS
  <2>1. CASE LedgerNext
    BY <2>1, HintAssumption, AdmitInv, MarkInv DEF LedgerNext
  <2>2. CASE UNCHANGED ledgerVars
    BY <2>2 DEF ledgerVars, LedgerInv, LedgerTypeOK, ForgottenIsExpired, RowsConsistent,
       NoJobLost, DeliveredWasAccepted, ExpiresAt, SharesKey
  <2> QED
    BY <2>1, <2>2
<1> QED
  BY <1>1, LedgerInitInv, PTL DEF LedgerSpec

\* An accepted hint that was not delivered is never pruned from analyzer_outbox.
THEOREM LedgerKeepsJobs == LedgerSpec => []NoJobLost
BY LedgerInvariant, PTL DEF LedgerInv

\* A row that admit's prune forgets is expired for every later admission.
THEOREM LedgerForgetsOnlyExpired == LedgerSpec => []ForgottenIsExpired
BY LedgerInvariant, PTL DEF LedgerInv

\* UNIQUE columns and the foreign key hold across the prune.
THEOREM LedgerRowsConsistent == LedgerSpec => []RowsConsistent
BY LedgerInvariant, PTL DEF LedgerInv

\* Where admit commits, every earlier hint with a common key has expired; in
\* particular the hint itself was never accepted before.
LEMMA CommitIsNew ==
  ASSUME LedgerInv, NEW h \in Hints, NEW now \in Nat, NEW net \in Networks,
         AdmitCommit(h, now, net)
  PROVE  /\ now \in Nat /\ high_water \in Nat /\ high_water' = now /\ now >= high_water
         /\ now <= ExpiresAt(h)
         /\ \A g \in accepted : SharesKey(h, g) => ExpiresAt(g) < now
         /\ h \notin accepted
<1>1. now \in Nat /\ high_water \in Nat /\ high_water' = now /\ now >= high_water
  BY HintAssumption DEF AdmitCommit, ClockBehind, LedgerInv, LedgerTypeOK
<1>2. \A g \in Hints : ExpiresAt(g) \in Nat
  BY HintAssumption DEF ExpiresAt
<1>3. now <= ExpiresAt(h)
  BY DEF AdmitCommit, IsFresh
<1>4. ASSUME NEW g \in accepted, SharesKey(h, g)
      PROVE  ExpiresAt(g) < now
  <2>1. g \notin AdmissionsAfterPrune(now)
    BY <1>4 DEF AdmitCommit, KeyTaken
  <2>2. CASE g \in admissions
    BY <2>1, <2>2, PruneLemma
  <2>3. CASE g \notin admissions
    BY <1>1, <1>2, <2>3 DEF LedgerInv, ForgottenIsExpired, LedgerTypeOK
  <2> QED
    BY <2>2, <2>3
<1>5. h \notin accepted
  BY <1>1, <1>2, <1>3, <1>4 DEF SharesKey
<1> QED
  BY <1>1, <1>3, <1>4, <1>5

\* A commit of admit, at any time a caller brings, is a use of ReplayGuard.
LEMMA CommitIsUse ==
  ASSUME LedgerInv, NEW h \in Hints, NEW now \in Nat, NEW net \in Networks,
         AdmitCommit(h, now, net)
  PROVE  Guard!Use(h)
<1>1. \A g \in accepted : g \in Hints
  BY DEF LedgerInv, LedgerTypeOK
<1>2. accepted' = accepted \cup {h}
  BY DEF AdmitCommit
<1> QED
  BY <1>1, <1>2, HintAssumption, CommitIsNew DEF Guard!Use

\* Each transaction of the ledger is a step of ReplayGuard.
LEMMA LedgerStepIsGuardStep ==
  ASSUME LedgerInv, [LedgerNext]_ledgerVars
  PROVE  [Guard!Next]_(Guard!guardVars)
<1> USE DEF Guard!Next, Guard!guardVars
<1>1. ASSUME NEW h \in Hints, NEW now \in Times, NEW net \in Networks,
             AdmitCommit(h, now, net)
      PROVE  Guard!Use(h)
  BY <1>1, HintAssumption, CommitIsUse
<1>2. ASSUME NEW h \in Hints, NEW now \in Times, MarkDelivered(h, now)
      PROVE  UNCHANGED Guard!guardVars
  BY <1>2 DEF MarkDelivered
<1>3. CASE LedgerNext
  BY <1>1, <1>2, <1>3 DEF LedgerNext
<1>4. CASE UNCHANGED ledgerVars
  BY <1>4 DEF ledgerVars
<1> QED
  BY <1>3, <1>4

\* The ledger with its prune implements the guard that forgets nothing: a hint, and
\* any hint with its nonce or threat hash, is accepted at most once per freshness
\* window, at whatever times and in whatever order admit is called.
THEOREM LedgerReplaySafe == LedgerSpec => ReplaySafe
<1>1. LedgerInit => Guard!Init
  BY DEF LedgerInit, Guard!Init
<1> QED
  BY <1>1, LedgerInvariant, LedgerStepIsGuardStep, PTL DEF LedgerSpec, ReplaySafe, Guard!Spec

\* Delivery times are final and the high-water time never moves back: the delivery
\* time admit resets for its new row was not set, because the hint is new.
THEOREM LedgerDeliveryIsFinal == LedgerSpec => DeliveryIsFinal
<1> DEFINE Final ==
      /\ high_water' >= high_water
      /\ \A h \in Hints : delivered_at[h] # Null => delivered_at'[h] = delivered_at[h]
<1>1. LedgerInv /\ [LedgerNext]_ledgerVars => [Final]_ledgerVars
  <2> SUFFICES ASSUME LedgerInv, LedgerNext PROVE Final
    OBVIOUS
  <2>1. ASSUME NEW h \in Hints, NEW now \in Times, NEW net \in Networks,
               AdmitCommit(h, now, net)
        PROVE  Final
    <3>1. delivered_at[h] = Null
      BY <2>1, HintAssumption, CommitIsNew DEF LedgerInv, DeliveredWasAccepted
    <3>2. delivered_at' = [delivered_at EXCEPT ![h] = Null]
      BY <2>1 DEF AdmitCommit
    <3>3. delivered_at \in [Hints -> Nat \cup {Null}]
      BY DEF LedgerInv, LedgerTypeOK
    <3>4. high_water' >= high_water
      BY <2>1, HintAssumption, CommitIsNew
    <3> QED
      BY <3>1, <3>2, <3>3, <3>4
  <2>2. ASSUME NEW h \in Hints, NEW now \in Times, MarkDelivered(h, now)
        PROVE  Final
    BY <2>2 DEF MarkDelivered, LedgerInv, LedgerTypeOK
  <2> QED
    BY <2>1, <2>2 DEF LedgerNext
<1> QED
  BY <1>1, LedgerInvariant, PTL DEF LedgerSpec, DeliveryIsFinal
================================================================================
