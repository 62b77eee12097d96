------------------------------ MODULE BallotProofs ------------------------------
(***************************************************************************)
(* BallotLedger for every committee, every set of ballots and every order  *)
(* of the callers' clock values: pruning reopens no session, nobody votes  *)
(* twice, and a session has at most one outcome.  Then BallotIngress for   *)
(* any number of connections: permits balance and what a client is told    *)
(* stands in the ledger.  Then BallotProtocol for any committee, any faulty *)
(* members and any carrier: honest guardians are never misquoted.          *)
(***************************************************************************)
EXTENDS BallotIngress, BallotProtocol, FiniteSetTheorems, WellFoundedInduction, TLAPS

\* What pruning relies on: a row is dropped once no ballot of its session can be
\* verified any more, and accepted ballots had passed verification.
PrunedIsOver ==
    /\ rows \subseteq accepted
    /\ \A b \in accepted \ rows : ValidUntil[SessionOf[b]] <= high_water

AcceptedWasVerified ==
    \A b \in accepted : b \in Authentic /\ GuardianOf[b] \in Committee[SessionOf[b]]

\* An outcome is what the ensemble says of a complete set of accepted ballots.
OutcomesExplained ==
    \A o \in outcomes :
        /\ o.ballots \subseteq accepted
        /\ \A b \in o.ballots : SessionOf[b] = o.session
        /\ Complete(o.session, o.ballots)
        /\ o.approved = Approved(o.session, o.ballots)

\* The inductive invariant.
BallotInv ==
    /\ BallotTypeOK
    /\ PrunedIsOver
    /\ AcceptedWasVerified
    /\ OneBallotPerGuardian
    /\ OutcomesExplained

\* Where consume commits no accepted ballot, pruned or not, has a common key.
LEMMA ConsumeIsNew ==
  ASSUME BallotInv, NEW b \in Ballots, NEW now \in Nat, Consume(b, now)
  PROVE  /\ now \in Nat /\ high_water \in Nat /\ high_water' = now /\ now >= high_water
         /\ now < ValidUntil[SessionOf[b]]
         /\ \A c \in accepted : ~ SharesKey(b, c)
         /\ b \notin accepted
<1>1. now \in Nat /\ high_water \in Nat /\ high_water' = now /\ now >= high_water
  BY BallotAssumption DEF BallotInv, BallotTypeOK, Consume, ClockBehind
<1>2. now < ValidUntil[SessionOf[b]]
  <2>1. now < ExpiresAt[b] /\ ExpiresAt[b] <= ValidUntil[SessionOf[b]]
    BY DEF Consume, Verify, IsFreshEnvelope
  <2>2. ExpiresAt[b] \in Nat /\ ValidUntil[SessionOf[b]] \in Nat
    BY BallotAssumption
  <2> QED
    BY <1>1, <2>1, <2>2
<1>3. ASSUME NEW c \in accepted, SharesKey(b, c)
      PROVE  FALSE
  <2>1. c \notin rows
    BY <1>3 DEF Consume, KeyTaken
  <2>2. ValidUntil[SessionOf[b]] <= high_water
    BY <1>3, <2>1 DEF BallotInv, PrunedIsOver, SharesKey
  <2>3. ValidUntil[SessionOf[b]] \in Nat
    BY BallotAssumption
  <2> QED
    BY <1>1, <1>2, <2>2, <2>3
<1>4. b \notin accepted
  BY <1>3 DEF SharesKey
<1> QED
  BY <1>1, <1>2, <1>3, <1>4

\* consume preserves the invariant.
LEMMA ConsumeInv ==
  ASSUME BallotInv, NEW b \in Ballots, NEW now \in Nat, Consume(b, now)
  PROVE  BallotInv'
<1>1. /\ rows' = rows \cup {b}
      /\ accepted' = accepted \cup {b}
      /\ outcomes' = outcomes
      /\ high_water' = now
  BY DEF Consume
<1>2. BallotTypeOK'
  BY <1>1, BallotAssumption DEF BallotInv, BallotTypeOK
<1>3. PrunedIsOver'
  <2> SUFFICES ASSUME NEW c \in accepted, c \notin rows
               PROVE  ValidUntil[SessionOf[c]] <= now
    BY <1>1 DEF BallotInv, PrunedIsOver
  <2>1. ValidUntil[SessionOf[c]] \in Nat
    BY BallotAssumption DEF BallotInv, BallotTypeOK
  <2>2. ValidUntil[SessionOf[c]] <= high_water
    BY DEF BallotInv, PrunedIsOver
  <2> QED
    BY <2>1, <2>2, ConsumeIsNew
<1>4. AcceptedWasVerified'
  BY <1>1 DEF BallotInv, AcceptedWasVerified, Consume, Verify
<1>5. OneBallotPerGuardian'
  <2>1. \A c \in accepted : ~ SharesKey(b, c) /\ ~ SharesKey(c, b)
    BY ConsumeIsNew DEF SharesKey
  <2> QED
    BY <1>1, <2>1 DEF BallotInv, OneBallotPerGuardian, SharesKey
<1>6. OutcomesExplained'
  BY <1>1 DEF BallotInv, OutcomesExplained, Complete, Approved
<1> QED
  BY <1>2, <1>3, <1>4, <1>5, <1>6 DEF BallotInv

\* prune_expired preserves the invariant.
LEMMA PruneInv ==
  ASSUME BallotInv, NEW now \in Nat, PruneExpired(now)
  PROVE  BallotInv'
<1>1. /\ rows' = {b \in rows : ValidUntil[SessionOf[b]] > now}
      /\ accepted' = accepted
      /\ outcomes' = outcomes
      /\ high_water' = now
  BY DEF PruneExpired
<1>2. now \in Nat /\ high_water \in Nat /\ high_water <= now
  BY BallotAssumption DEF PruneExpired, ClockBehind, BallotInv, BallotTypeOK
<1>3. BallotTypeOK'
  BY <1>1, <1>2 DEF BallotInv, BallotTypeOK
<1>4. PrunedIsOver'
  <2> SUFFICES ASSUME NEW c \in accepted, c \notin rows'
               PROVE  ValidUntil[SessionOf[c]] <= now
    BY <1>1 DEF BallotInv, PrunedIsOver
  <2>1. ValidUntil[SessionOf[c]] \in Nat
    BY BallotAssumption DEF BallotInv, BallotTypeOK
  <2>2. CASE c \in rows
    BY <1>1, <1>2, <2>1, <2>2
  <2>3. CASE c \notin rows
    BY <1>2, <2>1, <2>3 DEF BallotInv, PrunedIsOver
  <2> QED
    BY <2>2, <2>3
<1>5. AcceptedWasVerified' /\ OneBallotPerGuardian'
  BY <1>1 DEF BallotInv, AcceptedWasVerified, OneBallotPerGuardian, SharesKey
<1>6. OutcomesExplained'
  BY <1>1 DEF BallotInv, OutcomesExplained, Complete, Approved
<1> QED
  BY <1>3, <1>4, <1>5, <1>6 DEF BallotInv

\* evaluate preserves the invariant.
LEMMA EvaluateInv ==
  ASSUME BallotInv, NEW s \in Sessions, NEW now \in Times, Evaluate(s, now)
  PROVE  BallotInv'
<1> DEFINE cast == Votes(s, now)
           outcome == [session |-> s, ballots |-> cast, approved |-> Approved(s, cast)]
<1>1. /\ outcomes' = outcomes \cup {outcome}
      /\ Complete(s, cast)
      /\ UNCHANGED <<rows, high_water, accepted>>
  BY DEF Evaluate
<1>2. cast \subseteq rows /\ \A b \in cast : SessionOf[b] = s
  BY DEF Votes, SessionWires
<1>3. cast \subseteq accepted /\ cast \in SUBSET Ballots
  BY <1>2 DEF BallotInv, BallotTypeOK, PrunedIsOver
<1>4. BallotTypeOK'
  <2>1. Approved(s, cast) \in BOOLEAN
    BY DEF Approved
  <2>2. outcome \in [session : Sessions, ballots : SUBSET Ballots, approved : BOOLEAN]
    BY <1>3, <2>1
  <2> HIDE DEF outcome
  <2> QED
    BY <1>1, <2>2 DEF BallotInv, BallotTypeOK
<1>5. PrunedIsOver' /\ AcceptedWasVerified' /\ OneBallotPerGuardian'
  BY <1>1 DEF BallotInv, PrunedIsOver, AcceptedWasVerified, OneBallotPerGuardian, SharesKey
<1>6. OutcomesExplained'
  <2> SUFFICES ASSUME NEW o \in outcomes'
               PROVE  /\ o.ballots \subseteq accepted
                      /\ \A b \in o.ballots : SessionOf[b] = o.session
                      /\ Complete(o.session, o.ballots)
                      /\ o.approved = Approved(o.session, o.ballots)
    BY <1>1 DEF OutcomesExplained, Complete, Approved
  <2>1. CASE o \in outcomes
    BY <2>1 DEF BallotInv, OutcomesExplained
  <2>2. CASE o = outcome
    <3>1. o.session = s /\ o.ballots = cast /\ o.approved = Approved(s, cast)
      BY <2>2
    <3> HIDE DEF cast, outcome
    <3> QED
      BY <1>1, <1>2, <1>3, <3>1
  <2> QED
    BY <1>1, <2>1, <2>2
<1> QED
  BY <1>4, <1>5, <1>6 DEF BallotInv

\* The invariant holds in every state of the ledger.
THEOREM BallotInvariant == BallotSpec => []BallotInv
<1>1. BallotInit => BallotInv
  BY DEF BallotInit, BallotInv, BallotTypeOK, PrunedIsOver, AcceptedWasVerified,
     OneBallotPerGuardian, OutcomesExplained
<1>2. BallotInv /\ [BallotNext]_ballotVars => BallotInv'
  <2> SUFFICES ASSUME BallotInv, [BallotNext]_ballotVars PROVE BallotInv'
    OBVIOUS
  <2>1. CASE BallotNext
    BY <2>1, BallotAssumption, ConsumeInv, PruneInv, EvaluateInv DEF BallotNext
  <2>2. CASE UNCHANGED ballotVars
    BY <2>2 DEF ballotVars, BallotInv, BallotTypeOK, PrunedIsOver, AcceptedWasVerified,
       OneBallotPerGuardian, OutcomesExplained, SharesKey, Complete, Approved
  <2> QED
    BY <2>1, <2>2
<1> QED
  BY <1>1, <1>2, PTL DEF BallotSpec

\* No member of a committee has two ballots accepted in one session, and no nonce is
\* accepted twice, however sessions are pruned and clocks are set.
THEOREM BallotOncePerGuardian == BallotSpec => []OneBallotPerGuardian
BY BallotInvariant, PTL DEF BallotInv

\* Two complete evaluations of a session see the same ballots: the committee is the
\* same and each member has one ballot.  So they decide the same.
THEOREM BallotOutcomeStable == BallotSpec => []OutcomeStable
<1>1. BallotInv => OutcomeStable
  <2> SUFFICES ASSUME BallotInv, NEW o \in outcomes, NEW p \in outcomes,
                      o.session = p.session
               PROVE  o = p
    BY DEF OutcomeStable
  <2>1. ASSUME NEW q \in outcomes, NEW r \in outcomes, q.session = r.session
        PROVE  q.ballots \subseteq r.ballots
    <3> SUFFICES ASSUME NEW b \in q.ballots PROVE b \in r.ballots
      OBVIOUS
    <3>1. PICK c \in r.ballots : GuardianOf[b] = GuardianOf[c]
      BY <2>1 DEF BallotInv, OutcomesExplained, Complete
    <3>2. b \in accepted /\ c \in accepted /\ SessionOf[b] = SessionOf[c]
      BY <2>1 DEF BallotInv, OutcomesExplained
    <3> QED
      BY <3>1, <3>2 DEF BallotInv, OneBallotPerGuardian, SharesKey
  <2>2. o.ballots = p.ballots
    <3>1. o.ballots \subseteq p.ballots
      BY <2>1
    <3>2. p.ballots \subseteq o.ballots
      BY <2>1
    <3> QED
      BY <3>1, <3>2
  <2>3. o.approved = p.approved
    BY <2>2 DEF BallotInv, OutcomesExplained
  <2> QED
    BY <2>2, <2>3 DEF BallotInv, BallotTypeOK
<1> QED
  BY <1>1, BallotInvariant, PTL

\* Pruning whole sessions is safe: the ledger implements the guard that forgets nothing.
THEOREM BallotReplaySafe == BallotSpec => ReplaySafe
<1> USE DEF Guard!Next, Guard!Use, Guard!Advance, Guard!guardVars
<1>1. BallotInit => Guard!Init
  BY DEF BallotInit, Guard!Init
<1>2. BallotInv /\ [BallotNext]_ballotVars => [Guard!Next]_(Guard!guardVars)
  <2> SUFFICES ASSUME BallotInv, [BallotNext]_ballotVars
               PROVE  [Guard!Next]_(Guard!guardVars)
    OBVIOUS
  <2>1. ASSUME NEW b \in Ballots, NEW now \in Times, Consume(b, now)
        PROVE  Guard!Use(b)
    <3>1. accepted' = accepted \cup {b} /\ accepted \subseteq Ballots
      BY <2>1 DEF Consume, BallotInv, BallotTypeOK
    <3>2. now <= ValidUntil[SessionOf[b]] - 1
      <4>1. ValidUntil[SessionOf[b]] \in Nat
        BY BallotAssumption
      <4> QED
        BY <2>1, <4>1, BallotAssumption, ConsumeIsNew
    <3> QED
      BY <2>1, <3>1, <3>2, BallotAssumption, ConsumeIsNew
  <2>2. ASSUME NEW now \in Times, PruneExpired(now)
        PROVE  Guard!Advance
    BY <2>2, BallotAssumption DEF PruneExpired, ClockBehind, BallotInv, BallotTypeOK
  <2>3. ASSUME NEW s \in Sessions, NEW now \in Times, Evaluate(s, now)
        PROVE  UNCHANGED Guard!guardVars
    BY <2>3 DEF Evaluate
  <2>4. CASE BallotNext
    BY <2>1, <2>2, <2>3, <2>4 DEF BallotNext
  <2>5. CASE UNCHANGED ballotVars
    BY <2>5 DEF ballotVars
  <2> QED
    BY <2>4, <2>5
<1> QED
  BY <1>1, <1>2, BallotInvariant, PTL DEF BallotSpec, ReplaySafe, Guard!Spec

\* An approved rule rests on more than half of the committee.  The members behind the
\* approving ballots are as many as the ballots, because no two are of one member.
THEOREM BallotApprovalBacked == BallotSpec => []ApprovalBacked
<1>1. BallotInv => ApprovalBacked
  <2> SUFFICES ASSUME BallotInv, NEW o \in outcomes, o.approved
               PROVE  \E A \in SUBSET (o.ballots \cap Approving) :
                        /\ A \subseteq accepted \cap Authentic \cap Confident
                        /\ 2 * Cardinality({GuardianOf[b] : b \in A})
                             > Cardinality(Committee[o.session])
    BY DEF ApprovalBacked
  <2> DEFINE C == Committee[o.session]
             A == o.ballots \cap Approving
             M == {GuardianOf[b] : b \in A}
             f == [b \in A |-> GuardianOf[b]]
  <2>1. /\ o.ballots \subseteq accepted
        /\ \A b \in o.ballots : SessionOf[b] = o.session
        /\ {GuardianOf[b] : b \in o.ballots} = C
        /\ A \subseteq Confident
        /\ Cardinality(A) > Cardinality(C) \div 2
    BY DEF BallotInv, OutcomesExplained, Complete, Approved
  <2>2. A \subseteq accepted \cap Authentic \cap Confident
    BY <2>1 DEF BallotInv, AcceptedWasVerified
  <2>3. f \in Injection(A, M) /\ f \in Surjection(A, M)
    <3>1. \A b, c \in A : GuardianOf[b] = GuardianOf[c] => b = c
      BY <2>1 DEF BallotInv, OneBallotPerGuardian, SharesKey
    <3> QED
      BY <3>1 DEF Injection, IsInjective, Surjection
  <2>4. IsFiniteSet(C) /\ M \subseteq C
    BY <2>1, BallotAssumption DEF BallotInv, BallotTypeOK
  <2>5. IsFiniteSet(M)
    BY <2>4, FS_Subset
  <2> HIDE DEF A, M, f, C
  <2>6. Cardinality(A) = Cardinality(M)
    BY <2>3, <2>5, FS_Injection
  <2>7. Cardinality(M) \in Nat /\ Cardinality(C) \in Nat
    BY <2>4, <2>5, FS_CardinalityType
  <2>8. 2 * Cardinality(M) > Cardinality(C)
    BY <2>1, <2>6, <2>7
  <2> QED
    BY <2>2, <2>8 DEF A, M, C
<1> QED
  BY <1>1, BallotInvariant, PTL

-----------------------------------------------------------------------------
(* BallotIngress *)

HandlerStates ==
    {Idle} \cup [pc : {"connected", "reading", "refusing", "waiting"}, frame : Frames]
           \cup [pc : {"reply"}, frame : Frames,
                 status : {"accepted", "duplicate", "rejected", "busy", "undigested"}]

WorkerStates ==
    {Idle} \cup [pc : {"created"}, frame : Frames]
           \cup [pc : {"verify", "consume", "lookup"}, frame : Frames, now : Nat]

\* A handler k and the worker w of its connection: a handler waits for a worker of its
\* own frame and otherwise has none, only ballots come before the ledger, and the
\* answers that count are given for ballots of the ledger's history.
PairOK(k, w, history) ==
    /\ k \in HandlerStates /\ w \in WorkerStates
    /\ k.pc \in {"connected", "reading", "refusing", "reply"} => w = Idle
    /\ k.pc = "waiting" => w # Idle /\ w.frame = k.frame
    /\ w.pc \in {"consume", "lookup"} => w.frame \in Ballots
    /\ k.pc = "reply" => (k.status \in {"accepted", "duplicate"} => k.frame \in history)

\* The permits a connection accounts for.
Permits(k, w) == (IF k.pc \in {"reading", "refusing"} THEN 1 ELSE 0) + (IF w # Idle THEN 1 ELSE 0)

Readers(f) == {c \in Conns : f[c].pc \in {"reading", "refusing"}}
Workers(f) == {c \in Conns : f[c] # Idle}

\* The strengthening of BooksAreKept: what happens between a handler and its worker.
SocketInv ==
    /\ BallotInv
    /\ clock \in Nat
    /\ active \in Nat
    /\ conn \in [Conns -> HandlerStates]
    /\ worker \in [Conns -> WorkerStates]
    /\ \A c \in Conns : PairOK(conn[c], worker[c], accepted)
    /\ counted \subseteq accepted
    /\ PermitsBalanced

\* Two sets of connections that differ at most in c.
LEMMA CountChange ==
  ASSUME NEW S \in SUBSET Conns, NEW T \in SUBSET Conns, NEW c \in Conns,
         \A d \in Conns \ {c} : d \in S <=> d \in T
  PROVE  /\ Cardinality(S) \in Nat /\ Cardinality(T) \in Nat
         /\ Cardinality(T) + (IF c \in S THEN 1 ELSE 0)
              = Cardinality(S) + (IF c \in T THEN 1 ELSE 0)
<1>1. /\ IsFiniteSet(S) /\ Cardinality(S) \in Nat
      /\ IsFiniteSet(T) /\ Cardinality(T) \in Nat
  BY IngressAssumption, FS_Subset, FS_CardinalityType
<1>2. CASE c \in S <=> c \in T
  <2>1. S = T
    BY <1>2
  <2> QED
    BY <1>1, <2>1
<1>3. CASE c \in S /\ c \notin T
  <2>1. T = S \ {c}
    BY <1>3
  <2> QED
    BY <1>1, <1>3, <2>1, FS_RemoveElement
<1>4. CASE c \notin S /\ c \in T
  <2>1. T = S \cup {c}
    BY <1>4
  <2> QED
    BY <1>1, <1>4, <2>1, FS_AddElement
<1> QED
  BY <1>2, <1>3, <1>4

\* An idle connection, and the states by the fields they have.
LEMMA StateShapes ==
  /\ Idle.pc = "idle"
  /\ Idle \in HandlerStates /\ Idle \in WorkerStates
  /\ \A history : PairOK(Idle, Idle, history)
  /\ \A w \in WorkerStates : w # Idle => w.pc # "idle" /\ w.frame \in Frames
  /\ \A k \in HandlerStates : k # Idle => k.pc # "idle" /\ k.frame \in Frames
BY DEF Idle, HandlerStates, WorkerStates, PairOK

\* A step of one connection: its permits change as _active does.
LEMMA ConnectionStep ==
  ASSUME SocketInv, NEW c \in Conns, NEW k, NEW w,
         BallotInv', accepted \subseteq accepted', counted' \subseteq accepted',
         clock' \in Nat,
         PairOK(k, w, accepted'),
         conn' = [conn EXCEPT ![c] = k],
         worker' = [worker EXCEPT ![c] = w],
         active' = active + Permits(k, w) - Permits(conn[c], worker[c]),
         active' <= MaxConnections
  PROVE  SocketInv'
<1> USE DEF SocketInv
<1>1. k \in HandlerStates /\ w \in WorkerStates
  BY DEF PairOK
<1>2. /\ conn' \in [Conns -> HandlerStates] /\ worker' \in [Conns -> WorkerStates]
      /\ conn'[c] = k /\ worker'[c] = w
      /\ \A d \in Conns \ {c} : conn'[d] = conn[d] /\ worker'[d] = worker[d]
  BY <1>1
<1>3. (\A d \in Conns : PairOK(conn[d], worker[d], accepted))'
  <2> SUFFICES ASSUME NEW d \in Conns PROVE PairOK(conn'[d], worker'[d], accepted')
    BY DEF PairOK, HandlerStates, WorkerStates, Idle
  <2>1. CASE d = c
    BY <1>2, <2>1
  <2>2. CASE d # c
    BY <1>2, <2>2 DEF PairOK
  <2> QED
    BY <2>1, <2>2
<1>4. PermitsBalanced' /\ active' \in Nat
  <2>0. PICK r, rr, b, bb, p, pp, q, qq :
          /\ r = Cardinality(Readers(conn)) /\ rr = Cardinality(Readers(conn'))
          /\ b = Cardinality(Workers(worker)) /\ bb = Cardinality(Workers(worker'))
          /\ p = (IF conn[c].pc \in {"reading", "refusing"} THEN 1 ELSE 0)
          /\ pp = (IF k.pc \in {"reading", "refusing"} THEN 1 ELSE 0)
          /\ q = (IF worker[c] # Idle THEN 1 ELSE 0)
          /\ qq = (IF w # Idle THEN 1 ELSE 0)
    OBVIOUS
  <2>1. /\ r \in Nat /\ rr \in Nat
        /\ rr + (IF conn[c].pc \in {"reading", "refusing"} THEN 1 ELSE 0)
             = r + (IF k.pc \in {"reading", "refusing"} THEN 1 ELSE 0)
    <3>1. Readers(conn) \in SUBSET Conns /\ Readers(conn') \in SUBSET Conns
      BY DEF Readers
    <3>2. \A d \in Conns \ {c} : d \in Readers(conn) <=> d \in Readers(conn')
      BY <1>2 DEF Readers
    <3>3. /\ c \in Readers(conn) <=> conn[c].pc \in {"reading", "refusing"}
          /\ c \in Readers(conn') <=> k.pc \in {"reading", "refusing"}
      BY <1>2 DEF Readers
    <3>4. /\ r \in Nat /\ rr \in Nat
          /\ rr + (IF c \in Readers(conn) THEN 1 ELSE 0)
               = r + (IF c \in Readers(conn') THEN 1 ELSE 0)
      BY ONLY <2>0, <3>1, <3>2, c \in Conns, CountChange
    <3> QED
      BY <3>3, <3>4
  <2>2. /\ b \in Nat /\ bb \in Nat
        /\ bb + (IF worker[c] # Idle THEN 1 ELSE 0) = b + (IF w # Idle THEN 1 ELSE 0)
    <3>1. Workers(worker) \in SUBSET Conns /\ Workers(worker') \in SUBSET Conns
      BY DEF Workers
    <3>2. \A d \in Conns \ {c} : d \in Workers(worker) <=> d \in Workers(worker')
      BY <1>2 DEF Workers
    <3>3. /\ c \in Workers(worker) <=> worker[c] # Idle
          /\ c \in Workers(worker') <=> w # Idle
      BY <1>2 DEF Workers
    <3>4. /\ b \in Nat /\ bb \in Nat
          /\ bb + (IF c \in Workers(worker) THEN 1 ELSE 0)
               = b + (IF c \in Workers(worker') THEN 1 ELSE 0)
      BY ONLY <2>0, <3>1, <3>2, c \in Conns, CountChange
    <3> QED
      BY <3>3, <3>4
  <2>3. active = r + b
    BY <2>0 DEF PermitsBalanced, Readers, Workers
  <2>4. active' = rr + bb
    <3>1. p \in Nat /\ pp \in Nat /\ q \in Nat /\ qq \in Nat
      BY <2>0
    <3>2. rr + p = r + pp /\ bb + q = b + qq
      BY <2>0, <2>1, <2>2
    <3>3. /\ Permits(k, w) = pp + qq /\ Permits(conn[c], worker[c]) = p + q
          /\ Permits(k, w) \in Int /\ Permits(conn[c], worker[c]) \in Int
      BY <2>0 DEF Permits
    <3>4. r \in Int /\ rr \in Int /\ b \in Int /\ bb \in Int
      BY <2>1, <2>2
    <3>5. rr = r + pp - p
      BY ONLY <3>1, <3>2, <3>4
    <3>6. bb = b + qq - q
      BY ONLY <3>1, <3>2, <3>4
    <3>7. active' = (r + b) + (pp + qq) - (p + q)
      BY <2>3, <3>3
    <3> QED
      BY ONLY <3>1, <3>4, <3>5, <3>6, <3>7
  <2>5. active' = Cardinality(Readers(conn')) + Cardinality(Workers(worker'))
    BY <2>0, <2>4
  <2>6. PermitsBalanced'
    BY <2>5, Zenon DEF PermitsBalanced, Readers, Workers
  <2> QED
    BY <2>1, <2>2, <2>4, <2>6
<1> QED
  BY <1>2, <1>3, <1>4

\* What the invariant says of one connection.
LEMMA ConnectionFacts ==
  ASSUME SocketInv, NEW c \in Conns
  PROVE  /\ conn[c] \in HandlerStates /\ worker[c] \in WorkerStates
         /\ PairOK(conn[c], worker[c], accepted)
         /\ conn = [conn EXCEPT ![c] = conn[c]] /\ worker = [worker EXCEPT ![c] = worker[c]]
         /\ active \in Nat /\ active <= MaxConnections /\ MaxConnections \in Nat
         /\ BallotInv /\ clock \in Nat /\ counted \subseteq accepted
BY IngressAssumption DEF SocketInv, PermitsBalanced

\* The ledger invariant does not depend on the server.
LEMMA LedgerUntouched ==
  ASSUME BallotInv, UNCHANGED ballotVars
  PROVE  BallotInv' /\ accepted' = accepted
BY DEF ballotVars, BallotInv, BallotTypeOK, PrunedIsOver, AcceptedWasVerified,
   OneBallotPerGuardian, OutcomesExplained, SharesKey, Complete, Approved

\* The worker ends: its permit goes back, a handler that still waits answers or closes.
LEMMA FinishInv ==
  ASSUME SocketInv, NEW c \in Conns,
         NEW status \in {"accepted", "duplicate", "rejected", "none"},
         worker[c].pc \in {"verify", "consume", "lookup"}, Finish(c, status),
         BallotInv', accepted \subseteq accepted', UNCHANGED <<clock, counted>>,
         status \in {"accepted", "duplicate"} => worker[c].frame \in accepted'
  PROVE  SocketInv'
<1>1. /\ conn[c] \in HandlerStates /\ PairOK(conn[c], worker[c], accepted)
      /\ conn = [conn EXCEPT ![c] = conn[c]]
      /\ active \in Nat /\ active <= MaxConnections /\ MaxConnections \in Nat
      /\ clock' \in Nat /\ counted' \subseteq accepted'
  BY ConnectionFacts
<1>2. worker[c] # Idle
  BY StateShapes
<1>3. conn[c] = Idle \/ conn[c].pc = "waiting"
  BY <1>1, <1>2 DEF PairOK, HandlerStates
<1>4. worker' = [worker EXCEPT ![c] = Idle] /\ active' = active - 1
  BY DEF Finish
<1>5. ASSUME NEW k, PairOK(k, Idle, accepted'), k.pc \notin {"reading", "refusing"},
             conn' = [conn EXCEPT ![c] = k]
      PROVE  SocketInv'
  <2>1. Permits(k, Idle) = 0
    BY <1>5 DEF Permits
  <2>2. Permits(conn[c], worker[c]) = 1
    BY <1>2, <1>3, StateShapes DEF Permits
  <2>3. active' = active + Permits(k, Idle) - Permits(conn[c], worker[c])
    BY <1>1, <1>4, <2>1, <2>2
  <2>4. active' <= MaxConnections
    BY <1>1, <1>4
  <2> QED
    BY <1>1, <1>4, <1>5, <2>3, <2>4, ConnectionStep
<1>6. CASE conn[c] = Idle
  <2>1. conn' = [conn EXCEPT ![c] = Idle]
    BY <1>1, <1>6, StateShapes DEF Finish
  <2> QED
    BY <1>5, <2>1, StateShapes
<1>7. CASE conn[c].pc = "waiting" /\ status = "none"
  <2>1. conn' = [conn EXCEPT ![c] = Idle]
    BY <1>7 DEF Finish
  <2> QED
    BY <1>5, <2>1, StateShapes
<1>8. CASE conn[c].pc = "waiting" /\ status # "none"
  <2> DEFINE k == [pc |-> "reply", frame |-> conn[c].frame, status |-> status]
  <2>1. conn' = [conn EXCEPT ![c] = k]
    BY <1>8 DEF Finish, Reply
  <2>2. conn[c].frame \in Frames /\ worker[c].frame = conn[c].frame
    BY <1>1, <1>8, StateShapes DEF PairOK
  <2>3. k \in HandlerStates /\ k.pc = "reply" /\ k.frame = conn[c].frame /\ k.status = status
    BY <1>8, <2>2 DEF HandlerStates
  <2> HIDE DEF k
  <2>4. PairOK(k, Idle, accepted')
    BY <2>2, <2>3, StateShapes DEF PairOK
  <2> QED
    BY <1>5, <2>1, <2>3, <2>4
<1> QED
  BY <1>3, <1>6, <1>7, <1>8

\* A step of one connection over an unchanged ledger.
LEMMA QuietStep ==
  ASSUME SocketInv, NEW c \in Conns, NEW k, NEW w,
         UNCHANGED <<ballotVars, clock>>, counted' \subseteq accepted,
         PairOK(k, w, accepted),
         conn' = [conn EXCEPT ![c] = k], worker' = [worker EXCEPT ![c] = w],
         active' = active + Permits(k, w) - Permits(conn[c], worker[c]),
         active' <= MaxConnections
  PROVE  SocketInv'
<1>1. BallotInv' /\ accepted' = accepted /\ clock' \in Nat
  BY LedgerUntouched DEF SocketInv
<1> QED
  BY <1>1, ConnectionStep

\* A frame arrives, the handler takes a permit or says busy, and reads the frame.
LEMMA HandlerInv ==
  ASSUME SocketInv, NEW c \in Conns,
         HandlerStep(c) \/ \E f \in Frames : Submit(c, f)
  PROVE  SocketInv'
<1>1. /\ conn[c] \in HandlerStates /\ worker[c] \in WorkerStates
      /\ PairOK(conn[c], worker[c], accepted)
      /\ conn = [conn EXCEPT ![c] = conn[c]] /\ worker = [worker EXCEPT ![c] = worker[c]]
      /\ active \in Nat /\ active <= MaxConnections /\ MaxConnections \in Nat
      /\ counted \subseteq accepted
  BY ConnectionFacts
<1>2. Permits(Idle, Idle) = 0
  BY StateShapes DEF Permits
<1>3. ASSUME NEW f \in Frames, Submit(c, f) PROVE SocketInv'
  <2> DEFINE k == [pc |-> "connected", frame |-> f]
  <2>1. PairOK(k, Idle, accepted) /\ Permits(k, Idle) = 0
    BY StateShapes DEF PairOK, HandlerStates, Permits
  <2>2. /\ conn[c] = Idle /\ worker[c] = Idle
        /\ conn' = [conn EXCEPT ![c] = k] /\ worker' = worker
        /\ active' = active /\ counted' = counted /\ UNCHANGED <<ballotVars, clock>>
    BY <1>3 DEF Submit
  <2> HIDE DEF k
  <2>3. /\ worker' = [worker EXCEPT ![c] = Idle] /\ active' <= MaxConnections
        /\ active' = active + Permits(k, Idle) - Permits(conn[c], worker[c])
    BY <1>1, <1>2, <2>1, <2>2
  <2> QED
    BY <1>1, <1>2, <2>1, <2>2, <2>3, QuietStep
<1>4. ASSUME NEW n \in {0, 1},
             conn[c].pc \in IF n = 0 THEN {"connected"} ELSE {"reading", "refusing"}
      PROVE  /\ worker[c] = Idle /\ conn[c].frame \in Frames
             /\ conn[c] \in [pc : {"connected", "reading", "refusing", "waiting"}, frame : Frames]
             /\ Permits(conn[c], worker[c]) = n
  BY <1>1, <1>4, StateShapes DEF PairOK, Permits, HandlerStates
<1>5. CASE Admit(c)
  <2>1. /\ worker[c] = Idle /\ conn[c].frame \in Frames
        /\ conn[c] \in [pc : {"connected", "reading", "refusing", "waiting"}, frame : Frames]
        /\ Permits(conn[c], worker[c]) = 0
    BY <1>4, <1>5 DEF Admit
  <2>2. /\ UNCHANGED <<ballotVars, clock>> /\ counted' \subseteq accepted
        /\ worker' = [worker EXCEPT ![c] = Idle]
    BY <1>1, <1>5, <2>1 DEF Admit
  <2>3. CASE HasPermit
    <3> DEFINE k == [pc |-> "reading", frame |-> conn[c].frame]
    <3>1. conn' = [conn EXCEPT ![c] = k]
      BY <1>1, <1>5, <2>1, <2>3 DEF Admit
    <3>2. PairOK(k, Idle, accepted) /\ Permits(k, Idle) = 1
      BY <2>1, StateShapes DEF PairOK, HandlerStates, Permits
    <3>3. /\ active' = active + Permits(k, Idle) - Permits(conn[c], worker[c])
          /\ active' <= MaxConnections
      BY <1>1, <1>5, <2>1, <2>3, <3>2 DEF Admit, HasPermit
    <3> HIDE DEF k
    <3> QED
      BY <2>1, <2>2, <3>1, <3>2, <3>3, QuietStep
  <2>4. CASE ~ HasPermit
    <3> DEFINE k == [pc |-> "reply", frame |-> conn[c].frame, status |-> "busy"]
    <3>1. conn' = [conn EXCEPT ![c] = k]
      BY <1>5, <2>4 DEF Admit, Reply
    <3>2. PairOK(k, Idle, accepted) /\ Permits(k, Idle) = 0
      BY <2>1, StateShapes DEF PairOK, HandlerStates, Permits
    <3>3. /\ active' = active + Permits(k, Idle) - Permits(conn[c], worker[c])
          /\ active' <= MaxConnections
      BY <1>1, <1>5, <2>1, <2>4, <3>2 DEF Admit
    <3> HIDE DEF k
    <3> QED
      BY <2>1, <2>2, <3>1, <3>2, <3>3, QuietStep
  <2> QED
    BY <2>3, <2>4
<1>6. CASE ReadFrame(c)
  <2> DEFINE k == [pc |-> "waiting", frame |-> conn[c].frame]
             w == [pc |-> "created", frame |-> conn[c].frame]
  <2>1. /\ worker[c] = Idle /\ conn[c].frame \in Frames
        /\ conn[c] \in [pc : {"connected", "reading", "refusing", "waiting"}, frame : Frames]
        /\ Permits(conn[c], worker[c]) = 1
    BY <1>4, <1>6 DEF ReadFrame
  <2>2. conn' = [conn EXCEPT ![c] = k] /\ worker' = [worker EXCEPT ![c] = w]
    <3>1. [conn[c] EXCEPT !.pc = "waiting"] = k
      BY <2>1
    <3>2. conn' = [conn EXCEPT ![c] = [conn[c] EXCEPT !.pc = "waiting"]]
      BY <1>6 DEF ReadFrame
    <3>3. worker' = [worker EXCEPT ![c] = w]
      BY <1>6 DEF ReadFrame
    <3> HIDE DEF k, w
    <3> QED
      BY <3>1, <3>2, <3>3
  <2>3. w \in WorkerStates /\ w.pc = "created" /\ w.frame = k.frame /\ w # Idle
    BY <2>1 DEF WorkerStates, Idle
  <2>4. k \in HandlerStates /\ k.pc = "waiting"
    BY <2>1 DEF HandlerStates
  <2>5. /\ UNCHANGED <<ballotVars, clock>> /\ counted' \subseteq accepted
        /\ active' = active
    BY <1>1, <1>6 DEF ReadFrame
  <2> HIDE DEF k, w
  <2>6. PairOK(k, w, accepted) /\ Permits(k, w) = 1
    BY <2>3, <2>4 DEF PairOK, Permits
  <2>7. /\ active' = active + Permits(k, w) - Permits(conn[c], worker[c])
        /\ active' <= MaxConnections
    BY <1>1, <2>1, <2>5, <2>6
  <2> QED
    BY <2>2, <2>5, <2>6, <2>7, QuietStep
<1>r. CASE ReadBadSize(c)
  <2> DEFINE k == [pc |-> "refusing", frame |-> conn[c].frame]
  <2>1. /\ worker[c] = Idle /\ conn[c].frame \in Frames
        /\ conn[c] \in [pc : {"connected", "reading", "refusing", "waiting"}, frame : Frames]
        /\ Permits(conn[c], worker[c]) = 1
    BY <1>4, <1>r DEF ReadBadSize
  <2>2. conn' = [conn EXCEPT ![c] = k] /\ worker' = [worker EXCEPT ![c] = Idle]
    <3>1. [conn[c] EXCEPT !.pc = "refusing"] = k
      BY <2>1
    <3>2. conn' = [conn EXCEPT ![c] = [conn[c] EXCEPT !.pc = "refusing"]]
      BY <1>r DEF ReadBadSize
    <3>3. worker' = [worker EXCEPT ![c] = Idle]
      BY <1>1, <1>r, <2>1 DEF ReadBadSize
    <3> HIDE DEF k
    <3> QED
      BY <3>1, <3>2, <3>3
  <2>3. PairOK(k, Idle, accepted) /\ Permits(k, Idle) = 1
    BY <2>1, StateShapes DEF PairOK, HandlerStates, Permits
  <2> HIDE DEF k
  <2>4. /\ UNCHANGED <<ballotVars, clock>> /\ counted' \subseteq accepted
        /\ active' = active + Permits(k, Idle) - Permits(conn[c], worker[c])
        /\ active' <= MaxConnections
    BY <1>1, <1>r, <2>1, <2>3 DEF ReadBadSize
  <2> QED
    BY <2>1, <2>2, <2>3, <2>4, QuietStep
<1>7. CASE WriteRefusal(c)
  <2> DEFINE k == [pc |-> "reply", frame |-> conn[c].frame, status |-> "undigested"]
  <2>1. /\ worker[c] = Idle /\ conn[c].frame \in Frames
        /\ Permits(conn[c], worker[c]) = 1
    BY <1>4, <1>7 DEF WriteRefusal
  <2>2. conn' = [conn EXCEPT ![c] = k] /\ worker' = [worker EXCEPT ![c] = Idle]
    BY <1>1, <1>7, <2>1 DEF WriteRefusal, Reply
  <2>3. PairOK(k, Idle, accepted) /\ Permits(k, Idle) = 0
    BY <2>1, StateShapes DEF PairOK, HandlerStates, Permits
  <2>4. /\ UNCHANGED <<ballotVars, clock>> /\ counted' \subseteq accepted
        /\ active' = active + Permits(k, Idle) - Permits(conn[c], worker[c])
        /\ active' <= MaxConnections
    BY <1>1, <1>7, <2>1, <2>3 DEF WriteRefusal
  <2> HIDE DEF k
  <2> QED
    BY <2>1, <2>2, <2>3, <2>4, QuietStep
<1>8. CASE ReadFails(c)
  <2>1. worker[c] = Idle /\ Permits(conn[c], worker[c]) = 1
    BY <1>4, <1>8 DEF ReadFails
  <2>2. conn' = [conn EXCEPT ![c] = Idle] /\ worker' = [worker EXCEPT ![c] = Idle]
    BY <1>1, <1>8, <2>1 DEF ReadFails
  <2>3. /\ UNCHANGED <<ballotVars, clock>> /\ counted' \subseteq accepted
        /\ active' = active + Permits(Idle, Idle) - Permits(conn[c], worker[c])
        /\ active' <= MaxConnections
    BY <1>1, <1>2, <1>8, <2>1 DEF ReadFails
  <2> QED
    BY <2>2, <2>3, StateShapes, QuietStep
<1>9. CASE WaitFails(c) \/ ReadAck(c)
  <2>1. /\ conn[c].pc \in {"waiting", "reply"} /\ conn' = [conn EXCEPT ![c] = Idle]
        /\ worker' = [worker EXCEPT ![c] = worker[c]]
        /\ UNCHANGED <<ballotVars, clock>>
    BY <1>1, <1>9 DEF WaitFails, ReadAck
  <2>2. counted' \subseteq accepted
    BY <1>1, <1>9, <2>1 DEF WaitFails, ReadAck, PairOK
  <2>3. PairOK(Idle, worker[c], accepted)
    BY <1>1, StateShapes DEF PairOK
  <2>4. /\ Permits(Idle, worker[c]) = Permits(conn[c], worker[c])
        /\ Permits(conn[c], worker[c]) \in Nat
    BY <2>1, StateShapes DEF Permits
  <2>5. /\ active' = active + Permits(Idle, worker[c]) - Permits(conn[c], worker[c])
        /\ active' <= MaxConnections
    BY <1>1, <1>9, <2>4 DEF WaitFails, ReadAck
  <2> QED
    BY <2>1, <2>2, <2>3, <2>5, QuietStep
<1> QED
  BY <1>3, <1>5, <1>6, <1>r, <1>7, <1>8, <1>9 DEF HandlerStep

\* The worker reads the clock, verifies, consumes, looks up or fails.
LEMMA WorkerInv ==
  ASSUME SocketInv, NEW c \in Conns, WorkerStep(c)
  PROVE  SocketInv'
<1>1. /\ conn[c] \in HandlerStates /\ worker[c] \in WorkerStates
      /\ PairOK(conn[c], worker[c], accepted)
      /\ conn = [conn EXCEPT ![c] = conn[c]]
      /\ active \in Nat /\ active <= MaxConnections /\ MaxConnections \in Nat
      /\ BallotInv /\ clock \in Nat /\ counted \subseteq accepted
  BY ConnectionFacts
<1>2. ASSUME NEW w \in WorkerStates, worker[c] # Idle, w # Idle, w.frame = worker[c].frame,
             w.pc \in {"consume", "lookup"} => w.frame \in Ballots,
             UNCHANGED <<ballotVars, clock, active, conn, counted>>,
             worker' = [worker EXCEPT ![c] = w]
      PROVE  SocketInv'
  <2>1. PairOK(conn[c], w, accepted)
    BY <1>1, <1>2 DEF PairOK
  <2>2. Permits(conn[c], w) = Permits(conn[c], worker[c]) /\ Permits(conn[c], w) \in Nat
    BY <1>2 DEF Permits
  <2>3. /\ active' = active + Permits(conn[c], w) - Permits(conn[c], worker[c])
        /\ active' <= MaxConnections
    BY <1>1, <1>2, <2>2
  <2> QED
    BY <1>1, <1>2, <2>1, <2>3, QuietStep
<1>3. CASE ReadClock(c)
  <2> DEFINE w == [pc |-> "verify", frame |-> worker[c].frame, now |-> clock]
  <2>1. worker[c] # Idle /\ worker[c].frame \in Frames
    BY <1>1, <1>3, StateShapes DEF ReadClock
  <2>2. w \in WorkerStates /\ w # Idle /\ w.frame = worker[c].frame /\ w.pc = "verify"
    BY <1>1, <2>1 DEF WorkerStates, Idle
  <2>3. worker' = [worker EXCEPT ![c] = w]
    BY <1>3 DEF ReadClock
  <2> HIDE DEF w
  <2> QED
    BY <1>2, <1>3, <2>1, <2>2, <2>3 DEF ReadClock
<1>4. ASSUME worker[c].pc \in {"verify", "consume"}, NEW pc \in {"consume", "lookup"}
      PROVE  LET w == [worker[c] EXCEPT !.pc = pc]
             IN  /\ worker[c] # Idle
                 /\ w \in WorkerStates /\ w # Idle /\ w.frame = worker[c].frame
  BY <1>1, <1>4 DEF WorkerStates, Idle
<1>5. CASE VerifyWire(c)
  <2> DEFINE f == worker[c].frame
             w == [worker[c] EXCEPT !.pc = "consume"]
             known == f \in Ballots /\ SessionOf[f] \in contexts
  <2>1. worker[c].pc = "verify" /\ UNCHANGED <<ballotVars, clock, counted>>
    BY <1>5 DEF VerifyWire
  <2>2. CASE known /\ Verify(f, worker[c].now)
    <3>1. worker' = [worker EXCEPT ![c] = w] /\ UNCHANGED <<active, conn>>
      BY <1>5, <2>2 DEF VerifyWire
    <3>2. /\ worker[c] # Idle /\ w \in WorkerStates /\ w # Idle
          /\ w.frame = worker[c].frame /\ w.frame \in Ballots
      BY <1>4, <2>1, <2>2
    <3> HIDE DEF w
    <3> QED
      BY <1>2, <2>1, <3>1, <3>2
  <2>3. CASE ~ (known /\ Verify(f, worker[c].now))
    <3>1. PICK status \in {"none", "rejected"} : Finish(c, status)
      BY <1>5, <2>3 DEF VerifyWire
    <3> QED
      BY <1>1, <2>1, <3>1, LedgerUntouched, FinishInv
  <2> QED
    BY <2>2, <2>3
<1>6. CASE ConsumeWire(c)
  <2>1. /\ worker[c].pc = "consume" /\ Consume(worker[c].frame, worker[c].now)
        /\ Finish(c, "accepted") /\ UNCHANGED <<clock, counted>>
    BY <1>6 DEF ConsumeWire
  <2>2. worker[c].frame \in Ballots /\ worker[c].now \in Nat
    BY <1>1, <2>1 DEF PairOK, WorkerStates, Idle
  <2>3. BallotInv'
    BY <1>1, <2>1, <2>2, ConsumeInv
  <2>4. accepted \subseteq accepted' /\ worker[c].frame \in accepted'
    BY <2>1 DEF Consume
  <2> QED
    BY <2>1, <2>3, <2>4, FinishInv
<1>7. CASE ConsumeRefused(c)
  <2> DEFINE w == [worker[c] EXCEPT !.pc = "lookup"]
  <2>1. /\ worker[c].pc = "consume" /\ worker' = [worker EXCEPT ![c] = w]
        /\ UNCHANGED <<ballotVars, clock, active, conn, counted>>
    BY <1>7 DEF ConsumeRefused
  <2>2. /\ worker[c] # Idle /\ w \in WorkerStates /\ w # Idle
        /\ w.frame = worker[c].frame /\ w.frame \in Ballots
    BY <1>1, <1>4, <2>1 DEF PairOK
  <2> HIDE DEF w
  <2> QED
    BY <1>2, <2>1, <2>2
<1>8. CASE LookUp(c)
  <2> DEFINE status == IF ContainsWire(worker[c].frame) THEN "duplicate" ELSE "rejected"
  <2>1. /\ worker[c].pc = "lookup" /\ Finish(c, status)
        /\ UNCHANGED <<ballotVars, clock, counted>>
    BY <1>8 DEF LookUp
  <2>2. /\ status \in {"accepted", "duplicate", "rejected", "none"}
        /\ status \in {"accepted", "duplicate"} => worker[c].frame \in accepted
    BY <1>1 DEF ContainsWire, BallotInv, PrunedIsOver
  <2>3. BallotInv' /\ accepted' = accepted
    BY <1>1, <2>1, LedgerUntouched
  <2> HIDE DEF status
  <2> QED
    BY <2>1, <2>2, <2>3, FinishInv
<1>9. CASE LedgerFails(c)
  <2>1. /\ worker[c].pc \in {"consume", "lookup"} /\ Finish(c, "none")
        /\ UNCHANGED <<ballotVars, clock, counted>>
    BY <1>9 DEF LedgerFails
  <2> QED
    BY <1>1, <2>1, LedgerUntouched, FinishInv
<1> QED
  BY <1>3, <1>5, <1>6, <1>7, <1>8, <1>9 DEF WorkerStep

\* A state without connections holds no permit.
LEMMA AllIdle ==
  ASSUME BallotInv, clock \in Nat, counted \subseteq accepted, active = 0,
         conn = [c \in Conns |-> Idle], worker = [c \in Conns |-> Idle]
  PROVE  SocketInv
<1>1. Readers(conn) = {} /\ Workers(worker) = {}
  BY StateShapes DEF Readers, Workers
<1>2. Cardinality(Readers(conn)) = 0 /\ Cardinality(Workers(worker)) = 0
  BY <1>1, FS_EmptySet
<1>3. active = Cardinality(Readers(conn)) + Cardinality(Workers(worker))
  BY <1>2
<1>4. active <= MaxConnections
  BY IngressAssumption
<1>5. PermitsBalanced
  BY <1>3, <1>4 DEF PermitsBalanced, Readers, Workers
<1>6. conn \in [Conns -> HandlerStates] /\ worker \in [Conns -> WorkerStates]
  BY StateShapes
<1>7. \A c \in Conns : PairOK(conn[c], worker[c], accepted)
  BY StateShapes
<1> QED
  BY <1>5, <1>6, <1>7 DEF SocketInv

\* The invariant of the socket holds in every state, crashes included.
THEOREM SocketInvariant == IngressSpec => []SocketInv
<1>1. IngressInit => SocketInv
  <2> SUFFICES ASSUME IngressInit PROVE SocketInv
    OBVIOUS
  <2>1. BallotInv
    BY DEF IngressInit, BallotInit, BallotInv, BallotTypeOK, PrunedIsOver,
       AcceptedWasVerified, OneBallotPerGuardian, OutcomesExplained
  <2> QED
    BY <2>1, AllIdle DEF IngressInit, BallotInit
<1>2. SocketInv /\ [IngressNext]_ingressVars => SocketInv'
  <2> SUFFICES ASSUME SocketInv, [IngressNext]_ingressVars PROVE SocketInv'
    OBVIOUS
  <2>1. ASSUME BallotInv', accepted' = accepted, clock' \in Nat,
               UNCHANGED <<active, conn, worker, counted>>
        PROVE  SocketInv'
    <3>1. (\A c \in Conns : PairOK(conn[c], worker[c], accepted))'
      BY <2>1 DEF SocketInv
    <3> QED
      BY <2>1, <3>1 DEF SocketInv, PermitsBalanced
  <2>2. BallotInv /\ clock \in Nat
    BY DEF SocketInv
  <2>3. CASE Start \/ Close \/ Tick \/ SetBack \/ \E s \in Sessions : RegisterContext(s)
    <3>1. UNCHANGED <<ballotVars, active, conn, worker, counted>>
      BY <2>3 DEF Start, Close, Tick, SetBack, RegisterContext
    <3>2. clock' \in Nat
      BY <2>2, <2>3 DEF Start, Close, Tick, SetBack, RegisterContext
    <3> QED
      BY <2>1, <2>2, <3>1, <3>2, LedgerUntouched
  <2>4. CASE UNCHANGED ingressVars
    <3>1. UNCHANGED <<ballotVars, active, conn, worker, counted, clock>>
      BY <2>4 DEF ingressVars, serverVars
    <3> QED
      BY <2>1, <2>2, <3>1, LedgerUntouched
  <2>5. CASE Prune
    <3>1. PruneExpired(clock) /\ UNCHANGED <<active, conn, worker, counted, clock>>
      BY <2>5 DEF Prune, serverVars
    <3>2. BallotInv' /\ accepted' = accepted
      BY <2>2, <3>1, PruneInv DEF PruneExpired
    <3> QED
      BY <2>1, <2>2, <3>1, <3>2
  <2>6. CASE Crash
    <3>1. BallotInv' /\ accepted' = accepted
      BY <2>2, <2>6, LedgerUntouched DEF Crash
    <3>2. /\ (clock \in Nat)' /\ (counted \subseteq accepted)' /\ (active = 0)'
          /\ (conn = [c \in Conns |-> Idle])' /\ (worker = [c \in Conns |-> Idle])'
      BY <2>2, <2>6, <3>1 DEF Crash, SocketInv
    <3> QED
      BY <3>1, <3>2, AllIdle, PTL
  <2> QED
    BY <2>3, <2>4, <2>5, <2>6, HandlerInv, WorkerInv DEF IngressNext, ServerNext
<1> QED
  BY <1>1, <1>2, PTL DEF IngressSpec

\* Permits are neither lost nor minted, and a client that counts a ballot finds it in
\* the ledger's history, where no two ballots exclude each other.
THEOREM SocketBooksAreKept == IngressSpec => []BooksAreKept
<1>1. SocketInv => BooksAreKept
  BY DEF SocketInv, BooksAreKept, AcknowledgedCounts, BallotInv, OneBallotPerGuardian
<1> QED
  BY <1>1, SocketInvariant, PTL

\* "Exact retransmission is idempotent": no prune, no other worker and no change of
\* the clock makes a ballot the ledger has accepted a rejected one while the worker
\* that has it read a time in its window and its session is not over.
THEOREM SocketRetransmissionIsKnown == IngressSpec => RetransmissionIsKnown
<1>1. SocketInv /\ [IngressNext]_ingressVars => [\A c \in Conns : NotRejected(c)]_ingressVars
  <2> SUFFICES ASSUME SocketInv, IngressNext, NEW c \in Conns, NEW f, f = worker[c].frame,
                      conn[c].pc = "waiting", conn'[c].pc = "reply",
                      conn'[c].status = "rejected", f \in accepted
               PROVE  \/ SessionOf[f] \notin contexts
                      \/ ~ IsFreshEnvelope(f, worker[c].now)
                      \/ ValidUntil[SessionOf[f]] <= high_water
    BY DEF NotRejected
  <2>1. conn \in [Conns -> HandlerStates]
    BY DEF SocketInv
  <2>2. conn'[c] # conn[c] /\ conn'[c] # Idle
    BY StateShapes
  <2>3. ~ (Start \/ Close \/ Tick \/ SetBack \/ Prune \/ Crash)
        /\ \A s \in Sessions : ~ RegisterContext(s)
    BY <2>2 DEF Start, Close, Tick, SetBack, Prune, Crash, RegisterContext, serverVars
  <2>4. ASSUME NEW d \in Conns, NEW g \in Frames, Submit(d, g) PROVE FALSE
    BY <2>1, <2>2, <2>4, StateShapes DEF Submit
  <2>5. ASSUME NEW d \in Conns, HandlerStep(d) PROVE FALSE
    <3>1. d = c
      BY <2>1, <2>2, <2>5 DEF HandlerStep, Admit, ReadFrame, ReadBadSize, WriteRefusal,
         ReadFails, WaitFails, ReadAck, Reply
    <3> QED
      BY <2>1, <2>2, <2>5, <3>1 DEF HandlerStep, Admit, ReadFrame, ReadBadSize, WriteRefusal,
         ReadFails, WaitFails, ReadAck
  <2>6. ASSUME NEW d \in Conns, WorkerStep(d)
        PROVE  \/ SessionOf[f] \notin contexts
               \/ ~ IsFreshEnvelope(f, worker[c].now)
               \/ ValidUntil[SessionOf[f]] <= high_water
    <3>1. ASSUME NEW status, Finish(d, status)
          PROVE  d = c /\ (status # "none" => conn'[c].status = status)
      BY <2>1, <2>2, <3>1 DEF Finish, Reply
    <3>2. d = c
      BY <2>2, <2>6, <3>1 DEF WorkerStep, ReadClock, VerifyWire, ConsumeWire,
         ConsumeRefused, LookUp, LedgerFails
    <3>3. CASE LookUp(c)
      <4>1. ASSUME f \in rows PROVE FALSE
        <5>1. Finish(d, "duplicate")
          BY <3>2, <3>3, <4>1 DEF LookUp, ContainsWire
        <5> QED
          BY <3>1, <5>1
      <4> QED
        BY <4>1 DEF SocketInv, BallotInv, PrunedIsOver
    <3>4. CASE VerifyWire(c)
      <4>1. f \in Ballots /\ f \in Authentic /\ GuardianOf[f] \in Committee[SessionOf[f]]
        BY DEF SocketInv, BallotInv, BallotTypeOK, AcceptedWasVerified
      <4>2. ASSUME SessionOf[f] \in contexts, Verify(f, worker[c].now) PROVE FALSE
        BY <2>2, <3>4, <4>1, <4>2 DEF VerifyWire
      <4> QED
        BY <4>1, <4>2 DEF Verify
    <3>5. CASE ConsumeWire(c)
      <4>1. Finish(d, "accepted")
        BY <3>2, <3>5 DEF ConsumeWire
      <4> QED
        BY <3>1, <4>1
    <3>6. CASE LedgerFails(c)
      BY <2>1, <2>2, <3>6 DEF LedgerFails, Finish
    <3> QED
      BY <2>2, <2>6, <3>2, <3>3, <3>4, <3>5, <3>6 DEF WorkerStep, ReadClock, ConsumeRefused
  <2> QED
    BY <2>3, <2>4, <2>5, <2>6 DEF IngressNext, ServerNext
<1> QED
  BY <1>1, SocketInvariant, PTL DEF IngressSpec, RetransmissionIsKnown

---------------------------------------------------------------------------
(* BallotProtocol: what a signature of an honest guardian says. *)

EnvelopeShape(e) ==
    e = [session |-> e.session, network |-> e.network, guardian |-> e.guardian,
         snapshot |-> e.snapshot, candidate |-> e.candidate, decision |-> e.decision,
         bps |-> e.bps, artifact |-> e.artifact, issued |-> e.issued,
         expires |-> e.expires, payload |-> e.payload, signature |-> e.signature]

\* A context holds the keys of the whole committee, whatever else was changed in it.
ContextShape(x) ==
    /\ x = [candidate |-> x.candidate, snapshot |-> x.snapshot, session |-> x.session]
    /\ x.candidate = [content |-> x.candidate.content, bps |-> x.candidate.bps,
                      artifact |-> x.candidate.artifact, rule |-> x.candidate.rule,
                      digest |-> x.candidate.digest]
    /\ x.session.signers = [g \in Guardians |-> g]

EstablishedOK(x) ==
    /\ ContextShape(x)
    /\ x.snapshot.members = Guardians
    /\ IsValidSession(x.session, x.candidate, x.snapshot)

\* An envelope as attach_signature let it out.
SignedOK(e, x) ==
    /\ IsValidSession(x.session, x.candidate, x.snapshot)
    /\ IsValidGuardianVote(Vote(e), x.candidate, x.snapshot)
    /\ BallotWindow(x.session, e.issued, e.expires)
    /\ {e.issued, e.expires} \subseteq Nat
    /\ e.guardian \in Guardians
    /\ e.session = x.session.id /\ e.network = x.session.network
    /\ e.payload = PayloadDigest(e)
    /\ e.signature = [key |-> e.guardian, digest |-> e.payload]

\* What is in flight carries a signature somebody made.
CarriedOK ==
    carried # Nothing =>
        /\ carried = [envelope |-> carried.envelope, context |-> carried.context,
                      tampered |-> carried.tampered]
        /\ EnvelopeShape(carried.envelope)
        /\ ContextShape(carried.context)
        /\ carried.envelope.signature \in signatures
        /\ ~ carried.tampered => SignedOK(carried.envelope, carried.context)

\* The digest d is of a ballot that request r asks for.
Quotes(d, r) ==
    /\ d.of["guardian"] = r.guardian
    /\ d.of["decision"] = r.decision /\ d.of["bps"] = r.bps
    /\ d.of["session"] = r.session /\ d.of["network"] = r.network
    /\ d.of["candidate"].of.content = r.content

\* An honest guardian's signer signs what it was asked to sign.
HonestSigned ==
    \A s \in signatures : s.key \in Honest =>
        \E r \in requests : r.guardian = s.key /\ Quotes(s.digest, r)

\* A verified vote is on the candidate its context holds.
VotesBound ==
    \A v \in votes :
        /\ IsValidCandidate(v.context.candidate)
        /\ v.vote.candidate = v.context.candidate.digest

ProtocolInv ==
    /\ \A x \in established : EstablishedOK(x)
    /\ CarriedOK
    /\ HonestSigned
    /\ VotesBound
    /\ VerifiedWasRequested

\* The envelope with its digest and signature.
LEMMA Attached ==
  ASSUME NEW e, EnvelopeShape(e), NEW p, NEW q
  PROVE  [e EXCEPT !.payload = p, !.signature = q] =
           [session |-> e.session, network |-> e.network, guardian |-> e.guardian,
            snapshot |-> e.snapshot, candidate |-> e.candidate, decision |-> e.decision,
            bps |-> e.bps, artifact |-> e.artifact, issued |-> e.issued,
            expires |-> e.expires, payload |-> p, signature |-> q]
<1> DEFINE m == [e EXCEPT !.payload = p]
<1>1. m = [session |-> e.session, network |-> e.network, guardian |-> e.guardian,
           snapshot |-> e.snapshot, candidate |-> e.candidate, decision |-> e.decision,
           bps |-> e.bps, artifact |-> e.artifact, issued |-> e.issued,
           expires |-> e.expires, payload |-> p, signature |-> e.signature]
  BY DEF EnvelopeShape
<1>2. [e EXCEPT !.payload = p, !.signature = q] = [m EXCEPT !.signature = q]
  OBVIOUS
<1> HIDE DEF m
<1>3. /\ EnvelopeShape(m)
      /\ m.session = e.session /\ m.network = e.network /\ m.guardian = e.guardian
      /\ m.snapshot = e.snapshot /\ m.candidate = e.candidate /\ m.decision = e.decision
      /\ m.bps = e.bps /\ m.artifact = e.artifact /\ m.issued = e.issued
      /\ m.expires = e.expires /\ m.payload = p
  BY <1>1 DEF EnvelopeShape
<1>4. [m EXCEPT !.signature = q] =
         [session |-> m.session, network |-> m.network, guardian |-> m.guardian,
          snapshot |-> m.snapshot, candidate |-> m.candidate, decision |-> m.decision,
          bps |-> m.bps, artifact |-> m.artifact, issued |-> m.issued,
          expires |-> m.expires, payload |-> m.payload, signature |-> q]
  BY <1>3 DEF EnvelopeShape
<1> QED
  BY <1>2, <1>3, <1>4

\* create and attach_signature of one request.
LEMMA RequestSigned ==
  ASSUME ProtocolInv, NEW x \in established, NEW g \in Guardians,
         NEW d \in {"approve", "reject"}, NEW bps, NEW issued \in Nat, NEW expires \in Nat,
         RequestAndSign(x, g, d, bps, issued, expires)
  PROVE  ProtocolInv'
<1> DEFINE body == [session |-> x.session.id, network |-> x.session.network, guardian |-> g,
                 snapshot |-> x.snapshot.id, candidate |-> x.candidate.digest,
                 decision |-> d, bps |-> bps, artifact |-> x.snapshot.artifactOf[g],
                 issued |-> issued, expires |-> expires, payload |-> Nothing, signature |-> Nothing]
           digest == PayloadDigest(body)
           signature == [key |-> g, digest |-> digest]
           e == [body EXCEPT !.payload = digest, !.signature = signature]
           r == [guardian |-> g, decision |-> d, bps |-> bps, content |-> x.candidate.content,
                 network |-> x.session.network, session |-> x.session.id]
<1>1. /\ IsValidSession(x.session, x.candidate, x.snapshot)
      /\ IsValidGuardianVote(body, x.candidate, x.snapshot)
      /\ BallotWindow(x.session, issued, expires)
      /\ requests' = requests \union {r}
      /\ signatures' = signatures \union {signature}
      /\ carried' = [envelope |-> e, context |-> x, tampered |-> FALSE]
      /\ UNCHANGED <<established, votes>>
  BY DEF RequestAndSign
<1>2. /\ EstablishedOK(x) /\ HonestSigned /\ VotesBound /\ VerifiedWasRequested
  BY DEF ProtocolInv
<1>3. e = [session |-> x.session.id, network |-> x.session.network, guardian |-> g,
           snapshot |-> x.snapshot.id, candidate |-> x.candidate.digest,
           decision |-> d, bps |-> bps, artifact |-> x.snapshot.artifactOf[g],
           issued |-> issued, expires |-> expires, payload |-> digest, signature |-> signature]
  <2>1. /\ EnvelopeShape(body)
        /\ body.session = x.session.id /\ body.network = x.session.network /\ body.guardian = g
        /\ body.snapshot = x.snapshot.id /\ body.candidate = x.candidate.digest
        /\ body.decision = d /\ body.bps = bps /\ body.artifact = x.snapshot.artifactOf[g]
        /\ body.issued = issued /\ body.expires = expires
    BY DEF EnvelopeShape
  <2> HIDE DEF digest, signature, body, e, r
  <2>2. EnvelopeShape(body)
    BY <2>1
  <2>3. [body EXCEPT !.payload = digest, !.signature = signature] =
          [session |-> body.session, network |-> body.network, guardian |-> body.guardian,
           snapshot |-> body.snapshot, candidate |-> body.candidate, decision |-> body.decision,
           bps |-> body.bps, artifact |-> body.artifact, issued |-> body.issued,
           expires |-> body.expires, payload |-> digest, signature |-> signature]
    BY <2>2, Attached
  <2> QED
    BY <2>1, <2>3, Zenon DEF e
<1>4. EnvelopeShape(e)
  BY <1>3 DEF EnvelopeShape
<1>5. PayloadDigest(e) = digest
  <2> HIDE DEF e
  <2>1. \A f \in SignedFields : e[f] = body[f]
    BY <1>3 DEF SignedFields
  <2> QED
    BY <2>1 DEF PayloadDigest
<1>6. Quotes(digest, r)
  <2>1. IsValidCandidate(x.candidate)
    BY <1>1 DEF IsValidSession
  <2>2. x.candidate.digest.of.content = x.candidate.content
    BY <2>1 DEF IsValidCandidate, CandidateDigest, Digest
  <2>3. /\ digest.of["guardian"] = g /\ digest.of["decision"] = d /\ digest.of["bps"] = bps
        /\ digest.of["session"] = x.session.id /\ digest.of["network"] = x.session.network
        /\ digest.of["candidate"] = x.candidate.digest
    BY DEF PayloadDigest, Digest, SignedFields
  <2> QED
    BY <2>2, <2>3 DEF Quotes
<1>7. SignedOK(e, x)
  <2>1. Vote(e) = [guardian |-> g, snapshot |-> x.snapshot.id, candidate |-> x.candidate.digest,
                   decision |-> d, bps |-> bps, artifact |-> x.snapshot.artifactOf[g]]
    BY <1>3 DEF Vote
  <2>2. /\ body.guardian = g /\ body.snapshot = x.snapshot.id /\ body.decision = d
        /\ body.candidate = x.candidate.digest /\ body.bps = bps
        /\ body.artifact = x.snapshot.artifactOf[g]
    OBVIOUS
  <2>3. IsValidGuardianVote(Vote(e), x.candidate, x.snapshot)
    <3> HIDE DEF body, e
    <3> QED
      BY <1>1, <2>1, <2>2 DEF IsValidGuardianVote, IsValidVote
  <2> HIDE DEF digest
  <2>4. /\ e.issued = issued /\ e.expires = expires /\ e.guardian = g
        /\ e.session = x.session.id /\ e.network = x.session.network
        /\ e.payload = digest /\ e.signature = [key |-> g, digest |-> digest]
    BY <1>3
  <2> HIDE DEF e
  <2> QED
    BY <1>1, <1>5, <2>3, <2>4 DEF SignedOK
<1> HIDE DEF body, digest, signature, e, r
<1>8. CarriedOK'
  <2>1. e.signature = signature /\ signature \in signatures'
    BY <1>1, <1>3
  <2> QED
    BY <1>1, <1>2, <1>4, <1>7, <2>1 DEF CarriedOK, EstablishedOK
<1>9. HonestSigned'
  <2>1. signature.key = g /\ signature.digest = digest /\ r.guardian = g
    BY DEF signature, r
  <2> QED
    BY <1>1, <1>2, <1>6, <2>1 DEF HonestSigned
<1>10. VerifiedWasRequested' /\ VotesBound'
  BY <1>1, <1>2 DEF VerifiedWasRequested, VotesBound
<1> QED
  BY <1>1, <1>8, <1>9, <1>10 DEF ProtocolInv

\* What passes verify in the name of an honest guardian is what it asked to sign.
LEMMA VerifiedHonest ==
  ASSUME ProtocolInv, carried # Nothing, NEW now,
         Verifies(carried.envelope, carried.context, now),
         carried.envelope.guardian \in Honest
  PROVE  \E r \in requests :
            /\ r.guardian = carried.envelope.guardian
            /\ r.decision = carried.envelope.decision /\ r.bps = carried.envelope.bps
            /\ r.session = carried.context.session.id
            /\ r.network = carried.context.session.network
            /\ r.content = carried.context.candidate.content
<1> DEFINE e == carried.envelope
           x == carried.context
<1>1. /\ e.signature \in signatures
      /\ x.session.signers = [g \in Guardians |-> g]
  BY DEF ProtocolInv, CarriedOK, ContextShape
<1>2. /\ IsValidCandidate(x.candidate)
      /\ e.payload = PayloadDigest(e)
      /\ e.session = x.session.id /\ e.network = x.session.network
      /\ e.candidate = x.candidate.digest
      /\ e.signature = [key |-> x.session.signers[e.guardian], digest |-> e.payload]
  BY DEF Verifies, IsValidSession, IsValidEnvelopeShape, VerifySignature
<1>3. e.signature.key = e.guardian /\ e.signature.digest = PayloadDigest(e)
  BY <1>1, <1>2 DEF Honest
<1>4. PICK r \in requests : r.guardian = e.guardian /\ Quotes(e.signature.digest, r)
  BY <1>1, <1>3 DEF ProtocolInv, HonestSigned
<1>5. /\ PayloadDigest(e).of["decision"] = e.decision /\ PayloadDigest(e).of["bps"] = e.bps
      /\ PayloadDigest(e).of["session"] = e.session /\ PayloadDigest(e).of["network"] = e.network
      /\ PayloadDigest(e).of["candidate"] = e.candidate
  BY DEF PayloadDigest, Digest, SignedFields
<1>6. e.candidate.of.content = x.candidate.content
  BY <1>2 DEF IsValidCandidate, CandidateDigest, Digest
<1> QED
  BY <1>2, <1>3, <1>4, <1>5, <1>6 DEF Quotes

\* BallotSession.create: what it established is valid, and it signs nothing.
LEMMA SessionCreated ==
  ASSUME ProtocolInv, NEW content, NEW bps, NEW artifact, NEW artifactOf, NEW network,
         NEW from, NEW until,
         CreateSession(content, bps, artifact, artifactOf, network, from, until)
  PROVE  ProtocolInv'
<1> DEFINE candidate == Candidate(content, bps, artifact)
           snapshot == Snapshot(Guardians, artifactOf)
           signers == [g \in Guardians |-> g]
           body == [network |-> network, snapshot |-> snapshot.id, candidate |-> candidate.digest,
                    from |-> from, until |-> until, signers |-> signers, id |-> Nothing]
           session == [body EXCEPT !.id = SessionId(body)]
           x == [candidate |-> candidate, snapshot |-> snapshot, session |-> session]
<1>1. /\ IsValidCandidate(candidate) /\ IsValidSnapshot(snapshot)
      /\ ValidatedSigners(signers, snapshot)
      /\ ValidWindow(from, until)
      /\ established' = established \union {x}
      /\ UNCHANGED <<requests, signatures, carried, votes>>
  BY DEF CreateSession
<1>2. /\ candidate = [content |-> candidate.content, bps |-> candidate.bps,
                      artifact |-> candidate.artifact, rule |-> candidate.rule,
                      digest |-> candidate.digest]
      /\ snapshot.members = Guardians
  BY DEF Candidate, Snapshot
<1> HIDE DEF candidate, snapshot
<1>3. session = [network |-> network, snapshot |-> snapshot.id, candidate |-> candidate.digest,
                 from |-> from, until |-> until, signers |-> signers, id |-> SessionId(body)]
  OBVIOUS
<1>4. SessionId(session) = SessionId(body)
  BY <1>3 DEF SessionId
<1> HIDE DEF session
<1>5. IsValidSession(session, candidate, snapshot)
  <2>1. /\ session.from = from /\ session.until = until /\ session.signers = signers
        /\ session.snapshot = snapshot.id /\ session.candidate = candidate.digest
        /\ session.id = SessionId(session)
    BY <1>3, <1>4
  <2> QED
    BY <1>1, <2>1 DEF IsValidSession
<1>6. EstablishedOK(x)
  <2>1. x.candidate = candidate /\ x.snapshot = snapshot /\ x.session = session
    OBVIOUS
  <2>2. session.signers = signers
    BY <1>3
  <2> QED
    BY <1>2, <1>5, <2>1, <2>2 DEF EstablishedOK, ContextShape
<1> HIDE DEF x
<1>7. \A y \in established' : EstablishedOK(y)
  BY <1>1, <1>6 DEF ProtocolInv
<1>8. CarriedOK' /\ HonestSigned' /\ VotesBound' /\ VerifiedWasRequested'
  BY <1>1 DEF ProtocolInv, CarriedOK, HonestSigned, VotesBound, VerifiedWasRequested
<1> QED
  BY <1>7, <1>8 DEF ProtocolInv

\* The fields of an envelope that stay when one of them is replaced.
LEMMA Replaced ==
  ASSUME NEW e, EnvelopeShape(e), NEW y
  PROVE  /\ EnvelopeShape([e EXCEPT !.session = y])
         /\ [e EXCEPT !.session = y].signature = e.signature
         /\ EnvelopeShape([e EXCEPT !.network = y])
         /\ [e EXCEPT !.network = y].signature = e.signature
         /\ EnvelopeShape([e EXCEPT !.candidate = y])
         /\ [e EXCEPT !.candidate = y].signature = e.signature
         /\ EnvelopeShape([e EXCEPT !.guardian = y])
         /\ [e EXCEPT !.guardian = y].signature = e.signature
         /\ EnvelopeShape([e EXCEPT !.decision = y])
         /\ [e EXCEPT !.decision = y].signature = e.signature
         /\ EnvelopeShape([e EXCEPT !.bps = y])
         /\ [e EXCEPT !.bps = y].signature = e.signature
         /\ EnvelopeShape([e EXCEPT !.issued = y])
         /\ [e EXCEPT !.issued = y].signature = e.signature
         /\ EnvelopeShape([e EXCEPT !.artifact = y])
         /\ [e EXCEPT !.artifact = y].signature = e.signature
         /\ EnvelopeShape([e EXCEPT !.snapshot = y])
         /\ [e EXCEPT !.snapshot = y].signature = e.signature
         /\ EnvelopeShape([e EXCEPT !.expires = y])
         /\ [e EXCEPT !.expires = y].signature = e.signature
         /\ EnvelopeShape([e EXCEPT !.payload = y])
         /\ [e EXCEPT !.payload = y].signature = e.signature
         /\ EnvelopeShape([e EXCEPT !.signature = y])
         /\ [e EXCEPT !.signature = y].signature = y
<1> DEFINE Is(a, b, c, d, f, g, h, i, j, k, l, m) ==
             [session |-> a, network |-> b, guardian |-> c, snapshot |-> d, candidate |-> f,
              decision |-> g, bps |-> h, artifact |-> i, issued |-> j, expires |-> k,
              payload |-> l, signature |-> m]
<1>1. \A a, b, c, d, f, g, h, i, j, k, l, m : EnvelopeShape(Is(a, b, c, d, f, g, h, i, j, k, l, m))
  BY DEF EnvelopeShape
<1>2. \A a, b, c, d, f, g, h, i, j, k, l, m : Is(a, b, c, d, f, g, h, i, j, k, l, m).signature = m
  OBVIOUS
<1>3. e = Is(e.session, e.network, e.guardian, e.snapshot, e.candidate, e.decision, e.bps,
             e.artifact, e.issued, e.expires, e.payload, e.signature)
  BY DEF EnvelopeShape
<1>4. [e EXCEPT !.guardian = y] =
         Is(e.session, e.network, y, e.snapshot, e.candidate, e.decision, e.bps,
            e.artifact, e.issued, e.expires, e.payload, e.signature)
  BY <1>3
<1>5. [e EXCEPT !.decision = y] =
         Is(e.session, e.network, e.guardian, e.snapshot, e.candidate, y, e.bps,
            e.artifact, e.issued, e.expires, e.payload, e.signature)
  BY <1>3
<1>6. [e EXCEPT !.bps = y] =
         Is(e.session, e.network, e.guardian, e.snapshot, e.candidate, e.decision, y,
            e.artifact, e.issued, e.expires, e.payload, e.signature)
  BY <1>3
<1>7. [e EXCEPT !.expires = y] =
         Is(e.session, e.network, e.guardian, e.snapshot, e.candidate, e.decision, e.bps,
            e.artifact, e.issued, y, e.payload, e.signature)
  BY <1>3
<1>8. [e EXCEPT !.payload = y] =
         Is(e.session, e.network, e.guardian, e.snapshot, e.candidate, e.decision, e.bps,
            e.artifact, e.issued, e.expires, y, e.signature)
  BY <1>3
<1>9. [e EXCEPT !.signature = y] =
         Is(e.session, e.network, e.guardian, e.snapshot, e.candidate, e.decision, e.bps,
            e.artifact, e.issued, e.expires, e.payload, y)
  BY <1>3
<1>10. [e EXCEPT !.session = y] =
         Is(y, e.network, e.guardian, e.snapshot, e.candidate, e.decision, e.bps,
            e.artifact, e.issued, e.expires, e.payload, e.signature)
  BY <1>3
<1>11. [e EXCEPT !.network = y] =
         Is(e.session, y, e.guardian, e.snapshot, e.candidate, e.decision, e.bps,
            e.artifact, e.issued, e.expires, e.payload, e.signature)
  BY <1>3
<1>12. [e EXCEPT !.candidate = y] =
         Is(e.session, e.network, e.guardian, e.snapshot, y, e.decision, e.bps,
            e.artifact, e.issued, e.expires, e.payload, e.signature)
  BY <1>3
<1>13. [e EXCEPT !.issued = y] =
         Is(e.session, e.network, e.guardian, e.snapshot, e.candidate, e.decision, e.bps,
            e.artifact, y, e.expires, e.payload, e.signature)
  BY <1>3
<1>14. [e EXCEPT !.artifact = y] =
         Is(e.session, e.network, e.guardian, e.snapshot, e.candidate, e.decision, e.bps,
            y, e.issued, e.expires, e.payload, e.signature)
  BY <1>3
<1>15. [e EXCEPT !.snapshot = y] =
         Is(e.session, e.network, e.guardian, y, e.candidate, e.decision, e.bps,
            e.artifact, e.issued, e.expires, e.payload, e.signature)
  BY <1>3
<1> HIDE DEF Is
<1> QED
  BY <1>1, <1>2, <1>4, <1>5, <1>6, <1>7, <1>8, <1>9, <1>10, <1>11, <1>12,
     <1>13, <1>14, <1>15

\* The keys and the digest of a context whose candidate has another content.
LEMMA OtherContent ==
  ASSUME NEW x, ContextShape(x), NEW c
  PROVE  ContextShape([x EXCEPT !.candidate.content = c])
<1>1. [x EXCEPT !.candidate.content = c] = [x EXCEPT !.candidate = [x.candidate EXCEPT !.content = c]]
  OBVIOUS
<1> DEFINE y == x.candidate
           z == [y EXCEPT !.content = c]
           w == [x EXCEPT !.candidate = z]
<1>2. y = [content |-> y.content, bps |-> y.bps, artifact |-> y.artifact, rule |-> y.rule,
           digest |-> y.digest]
  BY DEF ContextShape
<1> HIDE DEF y
<1>3. z = [content |-> c, bps |-> y.bps, artifact |-> y.artifact, rule |-> y.rule,
           digest |-> y.digest]
  BY <1>2
<1> HIDE DEF z
<1>4. w = [candidate |-> z, snapshot |-> x.snapshot, session |-> x.session]
  BY DEF ContextShape
<1> HIDE DEF w
<1>5. /\ w.candidate = z /\ w.snapshot = x.snapshot /\ w.session = x.session
      /\ w = [candidate |-> w.candidate, snapshot |-> w.snapshot, session |-> w.session]
  BY <1>4
<1>6. z = [content |-> z.content, bps |-> z.bps, artifact |-> z.artifact, rule |-> z.rule,
           digest |-> z.digest]
  BY <1>3
<1>7. ContextShape(w)
  BY <1>5, <1>6 DEF ContextShape
<1> QED
  BY <1>1, <1>7 DEF w, z, y

\* An envelope with signature s in flight, to be checked against x.
Flies(m, s, x) ==
    /\ m = [envelope |-> m.envelope, context |-> m.context, tampered |-> m.tampered]
    /\ EnvelopeShape(m.envelope)
    /\ m.envelope.signature = s
    /\ m.context = x

\* One part of what flies, replaced.
LEMMA Refitted ==
  ASSUME NEW m, NEW s, NEW x, Flies(m, s, x), NEW e, EnvelopeShape(e), NEW y
  PROVE  /\ Flies([m EXCEPT !.envelope = e], e.signature, x)
         /\ Flies([m EXCEPT !.context = y], s, y)
         /\ [m EXCEPT !.tampered = TRUE] =
              [envelope |-> m.envelope, context |-> m.context, tampered |-> TRUE]
<1> DEFINE a == [m EXCEPT !.envelope = e]
           b == [m EXCEPT !.context = y]
<1>1. a = [envelope |-> e, context |-> m.context, tampered |-> m.tampered]
  BY DEF Flies
<1>2. b = [envelope |-> m.envelope, context |-> y, tampered |-> m.tampered]
  BY DEF Flies
<1> HIDE DEF a, b
<1>3. Flies(a, e.signature, x)
  BY <1>1 DEF Flies
<1>4. Flies(b, s, y)
  BY <1>2 DEF Flies
<1>5. ASSUME NEW p
      PROVE  [m EXCEPT !.tampered = p] =
               [envelope |-> m.envelope, context |-> m.context, tampered |-> p]
  BY DEF Flies
<1>6. [m EXCEPT !.tampered = TRUE] =
        [envelope |-> m.envelope, context |-> m.context, tampered |-> TRUE]
  BY <1>5, Zenon
<1> QED
  BY <1>3, <1>4, <1>6 DEF a, b

\* One field of the envelope that flies, replaced.
LEMMA Readdressed ==
  ASSUME NEW m, NEW s, NEW x, Flies(m, s, x), NEW y
  PROVE  /\ Flies([m EXCEPT !.envelope.session = y], s, x)
         /\ Flies([m EXCEPT !.envelope.network = y], s, x)
         /\ Flies([m EXCEPT !.envelope.candidate = y], s, x)
         /\ Flies([m EXCEPT !.envelope.guardian = y], s, x)
         /\ Flies([m EXCEPT !.envelope.decision = y], s, x)
         /\ Flies([m EXCEPT !.envelope.bps = y], s, x)
         /\ Flies([m EXCEPT !.envelope.expires = y], s, x)
         /\ Flies([m EXCEPT !.envelope.snapshot = y], s, x)
         /\ Flies([m EXCEPT !.envelope.artifact = y], s, x)
         /\ Flies([m EXCEPT !.envelope.issued = y], s, x)
         /\ Flies([m EXCEPT !.envelope.payload = y], s, x)
         /\ Flies([m EXCEPT !.envelope.signature = y], y, x)
<1>1. EnvelopeShape(m.envelope) /\ m.envelope.signature = s
  BY DEF Flies
<1>2. \A e : EnvelopeShape(e) => Flies([m EXCEPT !.envelope = e], e.signature, x)
  BY Refitted
<1>3. [m EXCEPT !.envelope.session = y] = [m EXCEPT !.envelope = [m.envelope EXCEPT !.session = y]]
  OBVIOUS
<1>4. [m EXCEPT !.envelope.network = y] = [m EXCEPT !.envelope = [m.envelope EXCEPT !.network = y]]
  OBVIOUS
<1>5. [m EXCEPT !.envelope.candidate = y] = [m EXCEPT !.envelope = [m.envelope EXCEPT !.candidate = y]]
  OBVIOUS
<1>6. [m EXCEPT !.envelope.guardian = y] = [m EXCEPT !.envelope = [m.envelope EXCEPT !.guardian = y]]
  OBVIOUS
<1>7. [m EXCEPT !.envelope.decision = y] = [m EXCEPT !.envelope = [m.envelope EXCEPT !.decision = y]]
  OBVIOUS
<1>8. [m EXCEPT !.envelope.bps = y] = [m EXCEPT !.envelope = [m.envelope EXCEPT !.bps = y]]
  OBVIOUS
<1>9. [m EXCEPT !.envelope.expires = y] = [m EXCEPT !.envelope = [m.envelope EXCEPT !.expires = y]]
  OBVIOUS
<1>10. [m EXCEPT !.envelope.payload = y] = [m EXCEPT !.envelope = [m.envelope EXCEPT !.payload = y]]
  OBVIOUS
<1>11. [m EXCEPT !.envelope.signature = y] = [m EXCEPT !.envelope = [m.envelope EXCEPT !.signature = y]]
  OBVIOUS
<1>12. Flies([m EXCEPT !.envelope.session = y], s, x)
  <2>1. EnvelopeShape([m.envelope EXCEPT !.session = y])
        /\ [m.envelope EXCEPT !.session = y].signature = s
    BY <1>1, Replaced, Zenon
  <2>2. Flies([m EXCEPT !.envelope = [m.envelope EXCEPT !.session = y]], s, x)
    BY <1>2, <2>1, Zenon
  <2> QED
    BY <1>3, <2>2, Zenon
<1>13. Flies([m EXCEPT !.envelope.network = y], s, x)
  <2>1. EnvelopeShape([m.envelope EXCEPT !.network = y])
        /\ [m.envelope EXCEPT !.network = y].signature = s
    BY <1>1, Replaced, Zenon
  <2>2. Flies([m EXCEPT !.envelope = [m.envelope EXCEPT !.network = y]], s, x)
    BY <1>2, <2>1, Zenon
  <2> QED
    BY <1>4, <2>2, Zenon
<1>14. Flies([m EXCEPT !.envelope.candidate = y], s, x)
  <2>1. EnvelopeShape([m.envelope EXCEPT !.candidate = y])
        /\ [m.envelope EXCEPT !.candidate = y].signature = s
    BY <1>1, Replaced, Zenon
  <2>2. Flies([m EXCEPT !.envelope = [m.envelope EXCEPT !.candidate = y]], s, x)
    BY <1>2, <2>1, Zenon
  <2> QED
    BY <1>5, <2>2, Zenon
<1>15. Flies([m EXCEPT !.envelope.guardian = y], s, x)
  <2>1. EnvelopeShape([m.envelope EXCEPT !.guardian = y])
        /\ [m.envelope EXCEPT !.guardian = y].signature = s
    BY <1>1, Replaced, Zenon
  <2>2. Flies([m EXCEPT !.envelope = [m.envelope EXCEPT !.guardian = y]], s, x)
    BY <1>2, <2>1, Zenon
  <2> QED
    BY <1>6, <2>2, Zenon
<1>16. Flies([m EXCEPT !.envelope.decision = y], s, x)
  <2>1. EnvelopeShape([m.envelope EXCEPT !.decision = y])
        /\ [m.envelope EXCEPT !.decision = y].signature = s
    BY <1>1, Replaced, Zenon
  <2>2. Flies([m EXCEPT !.envelope = [m.envelope EXCEPT !.decision = y]], s, x)
    BY <1>2, <2>1, Zenon
  <2> QED
    BY <1>7, <2>2, Zenon
<1>17. Flies([m EXCEPT !.envelope.bps = y], s, x)
  <2>1. EnvelopeShape([m.envelope EXCEPT !.bps = y])
        /\ [m.envelope EXCEPT !.bps = y].signature = s
    BY <1>1, Replaced, Zenon
  <2>2. Flies([m EXCEPT !.envelope = [m.envelope EXCEPT !.bps = y]], s, x)
    BY <1>2, <2>1, Zenon
  <2> QED
    BY <1>8, <2>2, Zenon
<1>18. Flies([m EXCEPT !.envelope.expires = y], s, x)
  <2>1. EnvelopeShape([m.envelope EXCEPT !.expires = y])
        /\ [m.envelope EXCEPT !.expires = y].signature = s
    BY <1>1, Replaced, Zenon
  <2>2. Flies([m EXCEPT !.envelope = [m.envelope EXCEPT !.expires = y]], s, x)
    BY <1>2, <2>1, Zenon
  <2> QED
    BY <1>9, <2>2, Zenon
<1>19. Flies([m EXCEPT !.envelope.payload = y], s, x)
  <2>1. EnvelopeShape([m.envelope EXCEPT !.payload = y])
        /\ [m.envelope EXCEPT !.payload = y].signature = s
    BY <1>1, Replaced, Zenon
  <2>2. Flies([m EXCEPT !.envelope = [m.envelope EXCEPT !.payload = y]], s, x)
    BY <1>2, <2>1, Zenon
  <2> QED
    BY <1>10, <2>2, Zenon
<1>20. Flies([m EXCEPT !.envelope.signature = y], y, x)
  <2>1. EnvelopeShape([m.envelope EXCEPT !.signature = y])
        /\ [m.envelope EXCEPT !.signature = y].signature = y
    BY <1>1, Replaced, Zenon
  <2>2. Flies([m EXCEPT !.envelope = [m.envelope EXCEPT !.signature = y]], y, x)
    BY <1>2, <2>1, Zenon
  <2> QED
    BY <1>11, <2>2, Zenon
<1>e0. [m EXCEPT !.envelope.issued = y] = [m EXCEPT !.envelope = [m.envelope EXCEPT !.issued = y]]
  OBVIOUS
<1>f0. Flies([m EXCEPT !.envelope.issued = y], s, x)
  <2>1. EnvelopeShape([m.envelope EXCEPT !.issued = y])
        /\ [m.envelope EXCEPT !.issued = y].signature = s
    BY <1>1, Replaced, Zenon
  <2>2. Flies([m EXCEPT !.envelope = [m.envelope EXCEPT !.issued = y]], s, x)
    BY <1>2, <2>1, Zenon
  <2> QED
    BY <1>e0, <2>2, Zenon
<1>e1. [m EXCEPT !.envelope.artifact = y] = [m EXCEPT !.envelope = [m.envelope EXCEPT !.artifact = y]]
  OBVIOUS
<1>f1. Flies([m EXCEPT !.envelope.artifact = y], s, x)
  <2>1. EnvelopeShape([m.envelope EXCEPT !.artifact = y])
        /\ [m.envelope EXCEPT !.artifact = y].signature = s
    BY <1>1, Replaced, Zenon
  <2>2. Flies([m EXCEPT !.envelope = [m.envelope EXCEPT !.artifact = y]], s, x)
    BY <1>2, <2>1, Zenon
  <2> QED
    BY <1>e1, <2>2, Zenon
<1>e2. [m EXCEPT !.envelope.snapshot = y] = [m EXCEPT !.envelope = [m.envelope EXCEPT !.snapshot = y]]
  OBVIOUS
<1>f2. Flies([m EXCEPT !.envelope.snapshot = y], s, x)
  <2>1. EnvelopeShape([m.envelope EXCEPT !.snapshot = y])
        /\ [m.envelope EXCEPT !.snapshot = y].signature = s
    BY <1>1, Replaced, Zenon
  <2>2. Flies([m EXCEPT !.envelope = [m.envelope EXCEPT !.snapshot = y]], s, x)
    BY <1>2, <2>1, Zenon
  <2> QED
    BY <1>e2, <2>2, Zenon
<1> QED
  BY <1>f0, <1>f1, <1>f2, <1>12, <1>13, <1>14, <1>15, <1>16, <1>17, <1>18, <1>19, <1>20

\* A changed envelope still carries a signature that was made; it is marked.
LEMMA AlteredInv ==
  ASSUME ProtocolInv,
         NEW m, NEW s, NEW x, Flies(m, s, x), ContextShape(x), s \in signatures',
         \A t \in signatures' \ signatures : t.key \notin Honest,
         Alter(m)
  PROVE  ProtocolInv'
<1>1. /\ carried' = [m EXCEPT !.tampered = TRUE]
      /\ UNCHANGED <<established, requests, votes>>
  BY DEF Alter
<1>2. carried' = [envelope |-> m.envelope, context |-> m.context, tampered |-> TRUE]
  BY <1>1, Refitted DEF Flies
<1>3. CarriedOK'
  <2>1. /\ carried'.envelope = m.envelope /\ carried'.context = x /\ carried'.tampered
        /\ carried' = [envelope |-> carried'.envelope, context |-> carried'.context,
                       tampered |-> carried'.tampered]
    BY <1>2 DEF Flies
  <2> QED
    BY <2>1 DEF CarriedOK, Flies
<1>4. HonestSigned' /\ VotesBound' /\ VerifiedWasRequested'
  BY <1>1 DEF ProtocolInv, HonestSigned, VotesBound, VerifiedWasRequested
<1> QED
  BY <1>1, <1>3, <1>4 DEF ProtocolInv

\* Carrier, faulty signer and the verifier's caller.
LEMMA CarriageStep ==
  ASSUME ProtocolInv,
         AlterField \/ AlterDigest \/ AlterSignature \/ FaultySigns \/ AlterContext
  PROVE  ProtocolInv'
<1>1. carried # Nothing
  BY DEF AlterField, AlterDigest, AlterSignature, FaultySigns, AlterContext, Alter
<1> DEFINE s == carried.envelope.signature
           x == carried.context
<1>2. Flies(carried, s, x) /\ ContextShape(x) /\ s \in signatures
  BY <1>1 DEF ProtocolInv, CarriedOK, Flies
<1> HIDE DEF s, x
<1>3. ASSUME NEW m, Flies(m, s, x), Alter(m), UNCHANGED signatures
      PROVE  ProtocolInv'
  <2>1. s \in signatures' /\ \A t \in signatures' \ signatures : t.key \notin Honest
    BY <1>2, <1>3
  <2> QED
    BY <1>2, <1>3, <2>1, AlteredInv
<1>4. CASE AlterField
  <2>1. CASE \E g \in Guardians : Alter([carried EXCEPT !.envelope.guardian = g])
    <3>1. PICK g \in Guardians : Alter([carried EXCEPT !.envelope.guardian = g])
      BY <2>1
    <3>2. Flies([carried EXCEPT !.envelope.guardian = g], s, x)
      BY <1>2, Readdressed, Zenon
    <3> QED
      BY <1>3, <1>4, <3>1, <3>2 DEF AlterField
  <2>2. CASE \E d \in {"approve", "reject"} : Alter([carried EXCEPT !.envelope.decision = d])
    <3>1. PICK d \in {"approve", "reject"} : Alter([carried EXCEPT !.envelope.decision = d])
      BY <2>2
    <3>2. Flies([carried EXCEPT !.envelope.decision = d], s, x)
      BY <1>2, Readdressed, Zenon
    <3> QED
      BY <1>3, <1>4, <3>1, <3>2 DEF AlterField
  <2>3. CASE \E b \in Confidences : Alter([carried EXCEPT !.envelope.bps = b])
    <3>1. PICK b \in Confidences : Alter([carried EXCEPT !.envelope.bps = b])
      BY <2>3
    <3>2. Flies([carried EXCEPT !.envelope.bps = b], s, x)
      BY <1>2, Readdressed, Zenon
    <3> QED
      BY <1>3, <1>4, <3>1, <3>2 DEF AlterField
  <2>i. CASE \E t \in VerifyTimes :
               Alter([carried EXCEPT !.envelope.issued = t])
    <3>1. PICK t \in VerifyTimes :
               Alter([carried EXCEPT !.envelope.issued = t])
      BY <2>i
    <3>2. Flies([carried EXCEPT !.envelope.issued = t], s, x)
      BY <1>2, Readdressed, Zenon
    <3> QED
      BY <1>3, <1>4, <3>1, <3>2 DEF AlterField
  <2>a. CASE \E a \in CarrierArtifacts :
               Alter([carried EXCEPT !.envelope.artifact = a])
    <3>1. PICK a \in CarrierArtifacts :
               Alter([carried EXCEPT !.envelope.artifact = a])
      BY <2>a
    <3>2. Flies([carried EXCEPT !.envelope.artifact = a], s, x)
      BY <1>2, Readdressed, Zenon
    <3> QED
      BY <1>3, <1>4, <3>1, <3>2 DEF AlterField
  <2>n. CASE \E i \in {y.snapshot.id : y \in established} \union {Nothing} :
               Alter([carried EXCEPT !.envelope.snapshot = i])
    <3>1. PICK i \in {y.snapshot.id : y \in established} \union {Nothing} :
               Alter([carried EXCEPT !.envelope.snapshot = i])
      BY <2>n
    <3>2. Flies([carried EXCEPT !.envelope.snapshot = i], s, x)
      BY <1>2, Readdressed, Zenon
    <3> QED
      BY <1>3, <1>4, <3>1, <3>2 DEF AlterField
  <2>4. CASE \E t \in VerifyTimes : Alter([carried EXCEPT !.envelope.expires = t])
    <3>1. PICK t \in VerifyTimes : Alter([carried EXCEPT !.envelope.expires = t])
      BY <2>4
    <3>2. Flies([carried EXCEPT !.envelope.expires = t], s, x)
      BY <1>2, Readdressed, Zenon
    <3> QED
      BY <1>3, <1>4, <3>1, <3>2 DEF AlterField
  <2>5. CASE \E y \in established : Alter([carried EXCEPT !.envelope.session = y.session.id,
                                                    !.envelope.network = y.session.network,
                                                    !.envelope.candidate = y.candidate.digest])
    <3>1. PICK y \in established : Alter([carried EXCEPT !.envelope.session = y.session.id,
                                                    !.envelope.network = y.session.network,
                                                    !.envelope.candidate = y.candidate.digest])
      BY <2>5
    <3> DEFINE m == [carried EXCEPT !.envelope.session = y.session.id]
               n == [m EXCEPT !.envelope.network = y.session.network]
               o == [n EXCEPT !.envelope.candidate = y.candidate.digest]
    <3>2. Flies(m, s, x)
      BY <1>2, Readdressed, Zenon
    <3>3. Flies(n, s, x)
      <4> HIDE DEF m
      <4> QED
        BY <3>2, Readdressed, Zenon
    <3>4. Flies(o, s, x)
      <4> HIDE DEF n
      <4> QED
        BY <3>3, Readdressed, Zenon
    <3>5. Alter(o)
      BY <3>1
    <3> HIDE DEF o
    <3> QED
      BY <1>3, <1>4, <3>4, <3>5 DEF AlterField
  <2> QED
    BY <1>4, <2>1, <2>2, <2>3, <2>i, <2>a, <2>n, <2>4, <2>5 DEF AlterField
<1>5. CASE AlterDigest
  <2> DEFINE m == [carried EXCEPT !.envelope.payload = PayloadDigest(carried.envelope)]
  <2>1. Flies(m, s, x)
    BY <1>2, Readdressed, Zenon
  <2>2. Alter(m) /\ UNCHANGED signatures
    BY <1>5 DEF AlterDigest
  <2> HIDE DEF m
  <2> QED
    BY <1>3, <2>1, <2>2
<1>6. CASE AlterSignature
  <2>1. PICK t \in signatures : Alter([carried EXCEPT !.envelope.signature = t])
    BY <1>6 DEF AlterSignature
  <2>2. Flies([carried EXCEPT !.envelope.signature = t], t, x)
    BY <1>2, Readdressed, Zenon
  <2>3. t \in signatures' /\ \A u \in signatures' \ signatures : u.key \notin Honest
    BY <1>6, <2>1 DEF AlterSignature
  <2> QED
    BY <1>2, <2>1, <2>2, <2>3, AlteredInv
<1>7. CASE FaultySigns
  <2>1. PICK g \in Faulty :
           LET t == [key |-> g, digest |-> carried.envelope.payload]
           IN /\ Alter([carried EXCEPT !.envelope.signature = t])
              /\ signatures' = signatures \union {t}
    BY <1>7 DEF FaultySigns
  <2> DEFINE t == [key |-> g, digest |-> carried.envelope.payload]
  <2>2. t.key \notin Honest
    BY DEF Honest
  <2>3. Flies([carried EXCEPT !.envelope.signature = t], t, x)
    <3> HIDE DEF t
    <3> QED
      BY <1>2, Readdressed, Zenon
  <2>4. /\ Alter([carried EXCEPT !.envelope.signature = t])
        /\ signatures' = signatures \cup {t}
    BY <2>1
  <2> HIDE DEF t
  <2>5. t \in signatures' /\ \A u \in signatures' \ signatures : u.key \notin Honest
    BY <2>2, <2>4
  <2> QED
    BY <1>2, <2>3, <2>4, <2>5, AlteredInv
<1>8. CASE AlterContext
  <2>1. ASSUME NEW y, ContextShape(y), Alter([carried EXCEPT !.context = y])
        PROVE  ProtocolInv'
    <3>1. EnvelopeShape(carried.envelope)
      BY <1>2 DEF Flies
    <3>2. Flies([carried EXCEPT !.context = y], s, y)
      BY <1>2, <3>1, Refitted, Zenon
    <3>3. s \in signatures' /\ \A t \in signatures' \ signatures : t.key \notin Honest
      BY <1>2, <1>8 DEF AlterContext
    <3> QED
      BY <2>1, <3>2, <3>3, AlteredInv
  <2>2. CASE \E y \in established : Alter([carried EXCEPT !.context = y])
    BY <2>1, <2>2 DEF ProtocolInv, EstablishedOK
  <2>3. CASE \E c \in Contents : Alter([carried EXCEPT !.context.candidate.content = c])
    <3>1. PICK c \in Contents : Alter([carried EXCEPT !.context.candidate.content = c])
      BY <2>3
    <3>2. [carried EXCEPT !.context.candidate.content = c] =
             [carried EXCEPT !.context = [carried.context EXCEPT !.candidate.content = c]]
      OBVIOUS
    <3>3. ContextShape([carried.context EXCEPT !.candidate.content = c])
      BY <1>2, OtherContent, Zenon DEF x
    <3> DEFINE y == [carried.context EXCEPT !.candidate.content = c]
    <3>4. Alter([carried EXCEPT !.context = y]) /\ ContextShape(y)
      BY <3>1, <3>2, <3>3, Zenon
    <3> HIDE DEF y
    <3> QED
      BY <2>1, <3>4
  <2> QED
    BY <1>8, <2>2, <2>3 DEF AlterContext
<1> QED
  BY <1>4, <1>5, <1>6, <1>7, <1>8

\* Verify records the vote of an envelope that is what its guardian asked for.
LEMMA EnvelopeVerified ==
  ASSUME ProtocolInv, NEW now, VerifyEnvelope(now)
  PROVE  ProtocolInv'
<1> DEFINE e == carried.envelope
           x == carried.context
           v == [vote |-> Vote(e), context |-> x]
<1>1. /\ carried # Nothing /\ Verifies(e, x, now)
      /\ votes' = votes \union {v} /\ carried' = Nothing
      /\ UNCHANGED <<established, requests, signatures>>
  BY DEF VerifyEnvelope
<1>2. /\ v.context = x /\ v.vote.candidate = e.candidate /\ v.vote.guardian = e.guardian
      /\ v.vote.decision = e.decision /\ v.vote.bps = e.bps
  BY DEF Vote
<1>3. IsValidCandidate(x.candidate) /\ e.candidate = x.candidate.digest
  BY <1>1 DEF Verifies, IsValidSession
<1>4. v.vote.guardian \in Honest =>
        \E r \in requests :
            /\ r.guardian = v.vote.guardian /\ r.decision = v.vote.decision /\ r.bps = v.vote.bps
            /\ r.session = v.context.session.id /\ r.network = v.context.session.network
            /\ r.content = v.context.candidate.content
  <2> HIDE DEF v
  <2> QED
    BY <1>1, <1>2, VerifiedHonest
<1> HIDE DEF v
<1>5. VerifiedWasRequested'
  BY <1>1, <1>4 DEF ProtocolInv, VerifiedWasRequested
<1>6. VotesBound'
  BY <1>1, <1>2, <1>3 DEF ProtocolInv, VotesBound
<1>7. CarriedOK' /\ HonestSigned'
  BY <1>1 DEF ProtocolInv, CarriedOK, HonestSigned
<1> QED
  BY <1>1, <1>5, <1>6, <1>7 DEF ProtocolInv

(* BallotProtocol: in every reachable state, whatever the carrier, the     *)
(* verifier's caller and the faulty signers did, what is in flight carries  *)
(* a signature that somebody made, an honest guardian's signatures are on   *)
(* its own requests, and so is every vote verified in its name.             *)
THEOREM ProtocolInvariant == ProtocolSpec => []ProtocolInv
<1>1. ProtocolInit => ProtocolInv
  BY DEF ProtocolInit, ProtocolInv, CarriedOK, HonestSigned, VotesBound, VerifiedWasRequested
<1>2. ProtocolInv /\ [ProtocolNext]_protocolVars => ProtocolInv'
  <2> SUFFICES ASSUME ProtocolInv, [ProtocolNext]_protocolVars
               PROVE  ProtocolInv'
    OBVIOUS
  <2>1. CASE UNCHANGED protocolVars
    BY <2>1 DEF protocolVars, ProtocolInv, CarriedOK, HonestSigned, VotesBound,
         VerifiedWasRequested
  <2>2. CASE \E content \in Contents, bps \in RuleConfidences, a \in Artifacts, n \in Networks,
          artifactOf \in [Guardians -> Artifacts], w \in SessionWindows :
          CreateSession(content, bps, a, artifactOf, n, w[1], w[2])
    BY <2>2, SessionCreated
  <2>3. CASE \E x \in established, g \in Guardians, d \in {"approve", "reject"}, bps \in Confidences,
          w \in BallotWindows : RequestAndSign(x, g, d, bps, w[1], w[2])
    <3>1. PICK x \in established, g \in Guardians, d \in {"approve", "reject"}, bps \in Confidences,
          w \in BallotWindows : RequestAndSign(x, g, d, bps, w[1], w[2])
      BY <2>3
    <3>2. w[1] \in Nat /\ w[2] \in Nat
      BY ProtocolAssumption
    <3> QED
      BY <3>1, <3>2, RequestSigned
  <2>4. CASE AlterField \/ AlterDigest \/ AlterSignature \/ FaultySigns \/ AlterContext
    BY <2>4, CarriageStep
  <2>5. CASE Lose
    BY <2>5 DEF Lose, ProtocolInv, CarriedOK, HonestSigned, VotesBound, VerifiedWasRequested
  <2>6. CASE \E now \in VerifyTimes : VerifyEnvelope(now)
    BY <2>6, EnvelopeVerified
  <2>7. CASE Exhausted
    BY <2>1, <2>7 DEF Exhausted
  <2> QED
    BY <2>1, <2>2, <2>3, <2>4, <2>5, <2>6, <2>7 DEF ProtocolNext
<1> QED
  BY <1>1, <1>2, PTL DEF ProtocolSpec

(* BallotsAreGenuine: a vote taken in an honest guardian's name is one that *)
(* guardian asked to have signed, and verify never turns away an envelope   *)
(* that left attach_signature and was not altered.                          *)
THEOREM ProtocolBallotsAreGenuine == ProtocolSpec => []BallotsAreGenuine
<1>1. ProtocolInv => BallotsAreGenuine
  <2> SUFFICES ASSUME ProtocolInv
               PROVE  BallotsAreGenuine
    OBVIOUS
  <2>1. ASSUME carried # Nothing, ~carried.tampered, NEW now \in VerifyTimes,
               carried.envelope.issued <= now, now < carried.envelope.expires
        PROVE  Verifies(carried.envelope, carried.context, now)
    <3> DEFINE e == carried.envelope
               x == carried.context
    <3>1. SignedOK(e, x) /\ ContextShape(x)
      BY <2>1 DEF ProtocolInv, CarriedOK
    <3> HIDE DEF e, x
    <3>2. IsValidVote(Vote(e), x.candidate, x.snapshot)
      BY <3>1 DEF SignedOK, IsValidGuardianVote
    <3>3. /\ e.snapshot = x.snapshot.id /\ e.candidate = x.candidate.digest
          /\ e.decision \in {"approve", "reject"} /\ e.bps \in 0..Full
      BY <3>2 DEF IsValidVote, Vote
    <3>4. IsValidEnvelopeShape(e)
      BY <3>1, <3>3 DEF SignedOK, IsValidEnvelopeShape
    <3>5. IsFreshAt(e, x.session, now)
      <4>1. /\ e.issued \in Nat /\ now \in Nat /\ MaxSkew \in Nat
            /\ e.issued <= now /\ now < e.expires
        BY <2>1, <3>1, ProtocolAssumption DEF SignedOK, e
      <4>2. /\ e.issued >= x.session.from /\ e.expires <= x.session.until
            /\ e.expires - e.issued \in 1..MaxBallotLife
        BY <3>1 DEF SignedOK, BallotWindow
      <4>3. e.issued <= now + MaxSkew
        BY <4>1
      <4> QED
        BY <4>1, <4>2, <4>3 DEF IsFreshAt
    <3>6. /\ e.guardian \in DOMAIN x.session.signers
          /\ VerifySignature(x.session.signers[e.guardian], e)
      BY <3>1 DEF SignedOK, ContextShape, VerifySignature
    <3>7. Verifies(e, x, now)
      BY <3>1, <3>3, <3>4, <3>5, <3>6 DEF SignedOK, Verifies
    <3> QED
      BY <3>7 DEF e, x
  <2> QED
    BY <2>1 DEF ProtocolInv, BallotsAreGenuine, SignedIsVerified
<1> QED
  BY <1>1, ProtocolInvariant, PTL

\* A set of natural numbers has a least element.
LEMMA LeastOf ==
  ASSUME NEW S, S \subseteq Nat, S # {}
  PROVE  Min(S) \in S /\ \A k \in S : Min(S) <= k
<1> DEFINE R == {ss \in Nat \X Nat : ss[1] < ss[2]}
<1>1. IsWellFoundedOn(R, Nat)
  BY NatLessThanWellFounded DEF OpToRel
<1> HIDE DEF R
<1>2. PICK n \in S : \A k \in S : ~ (<<k, n>> \in R)
  BY <1>1, WFMin
<1>3. \A k \in S : n <= k
  <2>1. ASSUME NEW k \in S, k < n PROVE FALSE
    BY <1>2, <2>1 DEF R
  <2> QED
    BY <2>1
<1> QED
  BY <1>2, <1>3 DEF Min

\* A ballot of one vote each, as many as the committee, has the vote of every member.
LEMMA EverybodyVotes ==
  ASSUME NEW members, IsFiniteSet(members), NEW g \in members,
         NEW ballot, DOMAIN ballot = 1..Cardinality(members),
         \A i \in DOMAIN ballot : ballot[i].guardian \in members,
         \A i, j \in DOMAIN ballot : ballot[i].guardian = ballot[j].guardian => i = j
  PROVE  \E i \in DOMAIN ballot : ballot[i].guardian = g
<1> SUFFICES ASSUME \A i \in DOMAIN ballot : ballot[i].guardian # g
             PROVE  FALSE
  OBVIOUS
<1> DEFINE n == Cardinality(members)
           others == members \ {g}
           who == [i \in 1..n |-> ballot[i].guardian]
<1>1. n \in Nat
  BY FS_CardinalityType
<1>2. IsFiniteSet(others) /\ Cardinality(others) = n - 1
  BY FS_RemoveElement
<1>3. IsFiniteSet(1..n) /\ Cardinality(1..n) = n
  <2>1. n # 0
    BY FS_EmptySet
  <2> HIDE DEF n
  <2> QED
    BY <1>1, <2>1, FS_Interval
<1>4. who \in [1..n -> others]
  OBVIOUS
<1> HIDE DEF n, others
<1>5. Cardinality(others) < Cardinality(1..n)
  BY <1>1, <1>2, <1>3
<1>6. PICK i, j \in 1..n : i # j /\ who[i] = who[j]
  <2> DEFINE places == 1..n
  <2>1. /\ IsFiniteSet(places) /\ IsFiniteSet(others)
        /\ Cardinality(others) < Cardinality(places) /\ who \in [places -> others]
    BY <1>2, <1>3, <1>4, <1>5
  <2> HIDE DEF who, places
  <2>2. \E i, j \in places : i # j /\ who[i] = who[j]
    BY <2>1, FS_PigeonHole
  <2> QED
    BY <2>2 DEF places
<1> QED
  BY <1>6 DEF n

(* DecisionIsEarned: whatever ballot the verified votes allow, an approval  *)
(* means that every honest member asked to have a vote on this very content *)
(* signed, and that the published confidence is within the policy and no    *)
(* more than the rule's and any approving member's.                         *)
THEOREM ProtocolDecisionIsEarned == ProtocolSpec => []DecisionIsEarned
<1>1. ProtocolInv => DecisionIsEarned
  <2> SUFFICES ASSUME ProtocolInv, NEW x \in established,
                      NEW ballot \in [1..Cardinality(x.snapshot.members) -> {v.vote : v \in votes}],
                      EvaluateVotes(ballot, x)
               PROVE  LET confidence == AggregateConfidence(ballot, x)
                      IN /\ confidence \in MinConfidence..x.candidate.bps
                         /\ \A g \in x.snapshot.members \intersect Honest :
                              \E r \in requests :
                                 /\ r.guardian = g /\ r.content = x.candidate.content
                                 /\ r.decision = "approve" => r.bps >= confidence
    BY DEF DecisionIsEarned
  <2> DEFINE members == x.snapshot.members
             cast == {ballot[i].bps : i \in Approvals(ballot)}
             S == {x.candidate.bps} \union cast
             confidence == AggregateConfidence(ballot, x)
  <2>1. /\ IsValidCandidate(x.candidate) /\ ValidateBallot(ballot, x)
        /\ members = Guardians /\ IsFiniteSet(members)
        /\ DOMAIN ballot = 1..Cardinality(members)
    BY ProtocolAssumption DEF EvaluateVotes, ProtocolInv, EstablishedOK
  <2>2. /\ \A i \in DOMAIN ballot : IsValidVote(ballot[i], x.candidate, x.snapshot)
        /\ \A i, j \in DOMAIN ballot : ballot[i].guardian = ballot[j].guardian => i = j
        /\ \A i \in DOMAIN ballot : ballot[i].decision = "approve" => ballot[i].bps >= MinConfidence
    BY <2>1 DEF ValidateBallot
  <2>3. MinConfidence \in Nat /\ Full \in Nat
    BY ProtocolAssumption
  <2>4. x.candidate.bps \in Nat /\ x.candidate.bps >= MinConfidence
    BY <2>1, <2>3 DEF IsValidCandidate
  <2>5. \A b \in cast : b \in Nat /\ b >= MinConfidence
    <3> SUFFICES ASSUME NEW i \in Approvals(ballot)
                 PROVE  ballot[i].bps \in Nat /\ ballot[i].bps >= MinConfidence
      OBVIOUS
    <3>1. i \in DOMAIN ballot /\ ballot[i].decision = "approve"
      BY DEF Approvals
    <3> QED
      BY <2>2, <2>3, <3>1 DEF IsValidVote
  <2>6. confidence = Min(S)
    BY DEF AggregateConfidence
  <2> HIDE DEF confidence, cast
  <2>7. /\ confidence \in S /\ \A b \in S : confidence <= b
        /\ \A b \in S : b \in Nat /\ b >= MinConfidence
    <3>1. S # {} /\ S \subseteq Nat
      BY <2>4, <2>5
    <3> HIDE DEF S
    <3>2. confidence \in S /\ \A b \in S : confidence <= b
      BY <2>6, <3>1, LeastOf
    <3> QED
      BY <2>4, <2>5, <3>2 DEF S
  <2>8. confidence \in MinConfidence..x.candidate.bps
    BY <2>3, <2>4, <2>7
  <2>9. ASSUME NEW g \in members \intersect Honest
        PROVE  \E r \in requests :
                  /\ r.guardian = g /\ r.content = x.candidate.content
                  /\ r.decision = "approve" => r.bps >= confidence
    <3>1. PICK i \in DOMAIN ballot : ballot[i].guardian = g
      <4>1. \A k \in DOMAIN ballot : ballot[k].guardian \in members
        BY <2>2 DEF IsValidVote
      <4> HIDE DEF members
      <4> QED
        BY <2>1, <2>2, <4>1, EverybodyVotes
    <3>2. PICK v \in votes : ballot[i] = v.vote
      BY <2>1, <3>1
    <3>3. PICK r \in requests :
            /\ r.guardian = g /\ r.decision = v.vote.decision /\ r.bps = v.vote.bps
            /\ r.content = v.context.candidate.content
      BY <3>1, <3>2 DEF ProtocolInv, VerifiedWasRequested
    <3>4. v.context.candidate.content = x.candidate.content
      <4>1. /\ IsValidCandidate(v.context.candidate)
            /\ v.vote.candidate = v.context.candidate.digest
        BY <3>2 DEF ProtocolInv, VotesBound
      <4>2. v.vote.candidate = x.candidate.digest
        BY <2>2, <3>1, <3>2 DEF IsValidVote
      <4>3. CandidateDigest(v.context.candidate) = CandidateDigest(x.candidate)
        BY <2>1, <4>1, <4>2 DEF IsValidCandidate
      <4>4. /\ CandidateDigest(v.context.candidate).of.content = v.context.candidate.content
            /\ CandidateDigest(x.candidate).of.content = x.candidate.content
        BY DEF CandidateDigest, Digest
      <4> QED
        BY <4>3, <4>4
    <3>5. r.decision = "approve" => r.bps >= confidence
      <4> SUFFICES ASSUME r.decision = "approve"
                   PROVE  r.bps >= confidence
        OBVIOUS
      <4>1. ballot[i].bps \in S /\ r.bps = ballot[i].bps
        BY <3>1, <3>2, <3>3 DEF Approvals, cast
      <4> HIDE DEF S
      <4> QED
        BY <2>7, <4>1
    <3> QED
      BY <3>3, <3>4, <3>5
  <2> QED
    BY <2>8, <2>9 DEF confidence
<1> QED
  BY <1>1, ProtocolInvariant, PTL
=============================================================================
