--------------------------- MODULE ThreatHintV2Proofs ---------------------------
(***************************************************************************)
(* ThreatHintV2Intake for any number of connections, reports, bindings and *)
(* restarts: what the service consumes has passed every gate at the time   *)
(* its call read, nothing is accepted twice, and a server that has closed  *)
(* is quiet.  Then ThreatHintV2Binding for any report and any tampering.   *)
(***************************************************************************)
EXTENDS ThreatHintV2Intake, ThreatHintV2Binding, ObservableOutboxProofs,
        FiniteSetTheorems, WellFoundedInduction

-----------------------------------------------------------------------------
(* The inductive invariant *)

TaskStates == {"none", "opening", "reading", "waiting"}

Replies == {"none", "accepted", "rejected", "busy"}

Gates == {"queued", "resolve", "clock", "promote", "preflight", "lock", "verify", "consume"}

Threads(s) ==
    [pc : Gates \cup {"none"}, report : Approvals \cup {NoReport}, now : 0 .. MaxClock,
     gen : 0 .. s]

Held(f) == {c \in Conns : f[c] # "none"}

Verifying(f) == {c \in Conns : f[c].pc = "verify"}

\* What a connection's task, call and reply know of each other.
ConnOK(t, r, y) ==
    /\ r.pc = "none" => r = Idle
    /\ r.pc # "none" => r.report \in Approvals
    /\ t \in {"opening", "reading"} => r = Idle /\ y = "none"
    /\ y # "none" => t = "waiting" /\ r = Idle

\* What the gates a call has passed have established, for the time it has read.
GateOK(r, op) ==
    LET p == Content[r.report].value IN
    /\ r.pc \in {"clock", "promote", "preflight", "lock", "verify", "consume"}
         => p.nonce \in op
    /\ r.pc \in {"preflight", "lock", "verify", "consume"} => Promotable(p.bundle.value)
    /\ r.pc \in {"lock", "verify", "consume"} => ReportAgrees(p, r.now)
    /\ r.pc = "consume" => r.report \in ProofValid

CallsOK ==
    /\ task \in [Conns -> TaskStates]
    /\ thread \in [Conns -> Threads(starts)]
    /\ reply \in [Conns -> Replies]
    /\ \A c \in Conns : ConnOK(task[c], thread[c], reply[c])
    /\ \A c \in Conns : GateOK(thread[c], opened)
    /\ lock = Verifying(thread)
    /\ \A c, d \in lock : c = d

PermitsOK ==
    /\ leaked \in Nat
    /\ active = Cardinality(Held(task)) + leaked
    /\ active <= MaxConnections

\* Where a server can be, whenever start is called.  A start beside a close that
\* still waits is a listener that accepts with an executor of its own.
ServerOK ==
    /\ listener => closing # "gather" /\ executor # 0
    /\ closing = "gather" => executor # 0
    /\ ~ listener /\ closing # "gather" =>
           executor = 0 /\ \A c \in Conns : task[c] = "none"
    /\ ~ listener /\ closing = "no" =>
           identity = 0 /\ \A c \in Conns : thread[c] = Idle
    /\ \A c \in Conns : thread[c].pc # "none" => thread[c].gen # 0

WorldOK ==
    /\ starts \in Nat /\ clock \in 0 .. MaxClock
    /\ executor \in 0 .. starts /\ path \in 0 .. starts /\ identity \in 0 .. starts
    /\ sessions \subseteq opened

\* A report is acknowledged as accepted by the call that paired it.
AcceptsKept ==
    /\ accepts \in [Approvals -> {0, 1}]
    /\ \A a \in Approvals : accepts[a] = 1 => a \in pairings

LedgerOK == OutboxInv /\ ConsumedWasVerified /\ AcceptsKept

IntakeInv ==
    /\ CallsOK
    /\ PermitsOK
    /\ WorldOK
    /\ LedgerOK
    /\ ServerOK

-----------------------------------------------------------------------------
(* Lemmas *)

\* The data-only preflight leaves no wire of a report that disagrees with another.
LEMMA PreflightMeans ==
    ASSUME NEW p, NEW m, NEW t, Preflights(p, m, Policy, p.nonce, t)
    PROVE  ReportAgrees(p, t)
  <1> DEFINE statement == p.envelope.value.statement.value
             approval == p.approval.value
  <1>1. /\ Binds(p.envelope, m, Policy.network, Policy.anchor)
        /\ statement.nonce = p.nonce
        /\ Commitment(p.bundle.value, Policy.network, p.nonce) = statement.commitment
        /\ VerifiesApproval(p.approval, p.bundle, Context(p.nonce, Policy, t))
    BY DEF Preflights
  <1>2. statement.network = Policy.network
    BY <1>1 DEF Binds, ParsesEnvelope, ParsesStatement
  <1>3. p.envelope.value.digest = StatementDigest(statement)
    BY <1>1 DEF Binds, ParsesEnvelope, EnvelopeFields
  <1>4. /\ approval.network = Policy.network
        /\ approval.scope = Policy.scope
        /\ approval.approver = Policy.approver
        /\ approval.commitment = Commitment(p.bundle.value, Policy.network, p.nonce)
        /\ approval.signature = Signature(approval.approver, approval)
        /\ ApprovalLifetime(approval)
        /\ t \in approval.not_before .. approval.expires_at
    BY <1>1 DEF VerifiesApproval, Context
  <1>5. approval.not_before <= t /\ t <= approval.expires_at
    BY <1>4, WireAssumption DEF ApprovalLifetime
  <1> HIDE DEF statement, approval
  <1> QED BY <1>1, <1>2, <1>3, <1>4, <1>5 DEF ReportAgrees, Commitment, statement, approval

\* A call at rest has established nothing and needs nothing.
LEMMA IdleIsSafe ==
    ASSUME NEW op, NEW s \in Nat
    PROVE  Idle \in Threads(s) /\ GateOK(Idle, op) /\ Idle.pc = "none"
  BY IntakeAssumption DEF Idle, Threads, Gates, GateOK

\* One connection moves: its call holds the verifier exactly while it verifies.
LEMMA CallStep ==
    ASSUME CallsOK, NEW c \in Conns,
           NEW t \in TaskStates, NEW r \in Threads(starts), NEW y \in Replies,
           task' = [task EXCEPT ![c] = t],
           thread' = [thread EXCEPT ![c] = r],
           reply' = [reply EXCEPT ![c] = y],
           UNCHANGED <<starts, opened>>,
           ConnOK(t, r, y), GateOK(r, opened),
           lock' = IF r.pc = "verify" THEN lock \cup {c} ELSE lock \ {c},
           r.pc = "verify" => lock \subseteq {c}
    PROVE  CallsOK'
  <1>1. /\ task' \in [Conns -> TaskStates]
        /\ thread' \in [Conns -> Threads(starts)]
        /\ reply' \in [Conns -> Replies]
        /\ task'[c] = t /\ thread'[c] = r /\ reply'[c] = y
        /\ \A d \in Conns \ {c} :
               task'[d] = task[d] /\ thread'[d] = thread[d] /\ reply'[d] = reply[d]
    BY DEF CallsOK
  <1>2. \A d \in Conns : ConnOK(task'[d], thread'[d], reply'[d])
    BY <1>1 DEF CallsOK
  <1>3. \A d \in Conns : GateOK(thread'[d], opened)
    BY <1>1 DEF CallsOK
  <1>4. lock' = Verifying(thread')
    BY <1>1 DEF CallsOK, Verifying
  <1>5. \A d, e \in lock' : d = e
    BY DEF CallsOK
  <1> QED BY <1>1, <1>2, <1>3, <1>4, <1>5 DEF CallsOK

\* The server, the clock or the sessions move and no connection does.
LEMMA CallsStay ==
    ASSUME CallsOK, UNCHANGED <<task, thread, reply, lock>>,
           starts \in Nat, starts' \in Nat, starts <= starts', opened \subseteq opened'
    PROVE  CallsOK'
  <1>1. Threads(starts) \subseteq Threads(starts')
    BY DEF Threads
  <1>2. thread' \in [Conns -> Threads(starts')]
    BY <1>1 DEF CallsOK
  <1>3. \A c \in Conns : GateOK(thread[c], opened')
    <2> SUFFICES ASSUME NEW c \in Conns PROVE GateOK(thread[c], opened')
      OBVIOUS
    <2>1. GateOK(thread[c], opened)
      BY DEF CallsOK
    <2> QED BY <2>1 DEF GateOK
  <1> QED BY <1>2, <1>3 DEF CallsOK

\* A permit is taken with a connection and given back, or lost, with it.
LEMMA PermitStep ==
    ASSUME PermitsOK, task \in [Conns -> TaskStates], NEW c \in Conns, NEW t,
           task' = [task EXCEPT ![c] = t],
           leaked' \in {leaked, leaked + 1},
           active' = active + (IF t # "none" THEN 1 ELSE 0)
                            - (IF task[c] # "none" THEN 1 ELSE 0) + (leaked' - leaked),
           t = "none" \/ task[c] # "none" \/ active < MaxConnections,
           leaked' # leaked => t = "none" /\ task[c] # "none"
    PROVE  PermitsOK'
  <1> DEFINE S == Held(task)
             T == Held(task')
             k == Cardinality(S)
             l == Cardinality(T)
  <1>1. /\ S \subseteq Conns /\ T \subseteq Conns
        /\ \A d \in Conns \ {c} : d \in S <=> d \in T
        /\ c \in S <=> task[c] # "none"
        /\ c \in T <=> t # "none"
    BY DEF Held
  <1>2. /\ IsFiniteSet(S) /\ k \in Nat /\ IsFiniteSet(T) /\ l \in Nat
    BY <1>1, IntakeAssumption, FS_Subset, FS_CardinalityType
  <1>3. /\ leaked \in Nat /\ active = k + leaked /\ k + leaked <= MaxConnections
        /\ MaxConnections \in Nat
    BY IntakeAssumption DEF PermitsOK
  <1>l. PICK m \in Nat : m = leaked' /\ m \in {leaked, leaked + 1}
    BY <1>3
  <1> HIDE DEF S, T
  <1>4. CASE c \in S <=> c \in T
    <2>1. S = T
      BY <1>1, <1>4
    <2>2. active' = l + leaked /\ m = leaked
      BY <1>1, <1>2, <1>3, <1>l, <1>4, <2>1
    <2> QED BY <1>2, <1>3, <1>l, <2>1, <2>2 DEF PermitsOK, T
  <1>5. CASE c \in S /\ c \notin T
    <2>1. T = S \ {c}
      BY <1>1, <1>5
    <2>2. l = k - 1
      BY <1>2, <1>5, <2>1, FS_RemoveElement
    <2>3. active' = k - 1 + m
      BY <1>1, <1>2, <1>3, <1>l, <1>5
    <2> QED BY <1>2, <1>3, <1>l, <2>2, <2>3 DEF PermitsOK, T
  <1>6. CASE c \notin S /\ c \in T
    <2>1. T = S \cup {c}
      BY <1>1, <1>6
    <2>2. l = k + 1
      BY <1>2, <1>6, <2>1, FS_AddElement
    <2>3. active' = k + 1 + m /\ k + leaked < MaxConnections /\ m = leaked
      BY <1>1, <1>2, <1>3, <1>l, <1>6
    <2> QED BY <1>2, <1>3, <1>l, <2>2, <2>3 DEF PermitsOK, T
  <1> QED BY <1>4, <1>5, <1>6

\* A step that leaves the ledger alone keeps what is said of it; sessions that
\* end do not unsay that they were open.
LEMMA LedgerStays ==
    ASSUME LedgerOK, UNCHANGED <<outboxVars, accepts>>, opened \subseteq opened'
    PROVE  LedgerOK'
  <1>1. OutboxInv'
    <2>1. seen \in Nat /\ seen <= seen
      BY DEF LedgerOK, OutboxInv, OutboxTypeOK
    <2> QED BY <2>1, CleanupPreserves DEF LedgerOK, outboxVars, rowVars, ledgerVars
  <1>2. ConsumedWasVerified'
    BY DEF LedgerOK, ConsumedWasVerified, outboxVars, ledgerVars
  <1>3. AcceptsKept'
    BY DEF LedgerOK, AcceptsKept, outboxVars, rowVars
  <1> QED BY <1>1, <1>2, <1>3 DEF LedgerOK

\* Starting, closing and removing the socket, in any order the code lets through.
LEMMA ServerStep ==
    ASSUME IntakeInv,
           \/ Start \/ StartFails \/ CloseBegin \/ CloseGathered \/ CloseReturns
           \/ RemoveStaleSocket
    PROVE  IntakeInv'
  <1> USE DEF serverVars, worldVars, callVars
  <1>0. /\ UNCHANGED <<outboxVars, callVars, active, leaked, worldVars>>
        /\ starts' \in Nat /\ starts <= starts'
        /\ executor' \in 0 .. starts' /\ path' \in 0 .. starts' /\ identity' \in 0 .. starts'
    BY DEF IntakeInv, WorldOK, Start, StartFails, CloseBegin, CloseGathered, CloseReturns,
           RemoveStaleSocket
  <1>1. CallsOK'
    BY <1>0, CallsStay DEF IntakeInv, WorldOK
  <1>2. PermitsOK'
    BY <1>0 DEF IntakeInv, PermitsOK
  <1>3. WorldOK'
    BY <1>0 DEF IntakeInv, WorldOK
  <1>4. LedgerOK'
    BY <1>0, LedgerStays DEF IntakeInv
  <1>5. ServerOK'
    <2>0. ServerOK /\ \A c \in Conns : thread[c].pc = "none" => thread[c] = Idle
      BY DEF IntakeInv, CallsOK, ConnOK
    <2>1. CASE Start
      <3>1. executor' # 0 /\ listener' /\ closing' = closing /\ closing # "gather"
        BY <2>0, <2>1 DEF Start, IntakeInv, WorldOK, ServerOK
      <3> QED BY <1>0, <2>0, <3>1 DEF ServerOK
    <2>2. CASE StartFails
      BY <1>0, <2>0, <2>2 DEF StartFails, ServerOK
    <2>3. CASE CloseBegin
      BY <1>0, <2>0, <2>3 DEF CloseBegin, ServerOK
    <2>4. CASE CloseGathered
      BY <1>0, <2>0, <2>4 DEF CloseGathered, ServerOK
    <2>5. CASE CloseReturns
      <3>1. ASSUME ~ listener PROVE \A c \in Conns : thread[c] = Idle
        BY <2>0, <2>5, <3>1 DEF CloseReturns, ServerOK
      <3>2. identity' = 0 /\ closing' = "no" /\ closing = "shutdown"
            /\ UNCHANGED <<listener, executor>>
        BY <2>5 DEF CloseReturns
      <3> QED BY <1>0, <2>0, <3>1, <3>2 DEF ServerOK
    <2>6. CASE RemoveStaleSocket
      BY <1>0, <2>0, <2>6 DEF RemoveStaleSocket, ServerOK
    <2> QED BY <2>1, <2>2, <2>3, <2>4, <2>5, <2>6
  <1> QED BY <1>1, <1>2, <1>3, <1>4, <1>5 DEF IntakeInv

\* The clock, the sessions and the manifest file move under running calls.
LEMMA WorldStep ==
    ASSUME IntakeInv,
           \/ Tick
           \/ \E n \in Nonces : OpenOrEndSession(n)
           \/ \E m \in Manifests \ {manifest} : ReplaceManifest(m)
    PROVE  IntakeInv'
  <1>1. /\ UNCHANGED <<outboxVars, callVars, serverVars>>
        /\ clock' \in 0 .. MaxClock
        /\ opened \subseteq opened' /\ sessions' \subseteq opened'
    BY IntakeAssumption DEF IntakeInv, WorldOK, Tick, OpenOrEndSession, ReplaceManifest
  <1>2. UNCHANGED <<outboxVars, task, thread, reply, lock, accepts, active, leaked, listener,
                    executor, path, identity, closing, starts>>
    BY <1>1 DEF callVars, serverVars
  <1>3. starts \in Nat /\ starts <= starts
    BY DEF IntakeInv, WorldOK
  <1>4. CallsOK'
    BY <1>1, <1>2, <1>3, CallsStay DEF IntakeInv
  <1>5. LedgerOK'
    BY <1>1, <1>2, LedgerStays DEF IntakeInv
  <1>6. PermitsOK' /\ WorldOK'
    BY <1>1, <1>2 DEF IntakeInv, PermitsOK, WorldOK
  <1>7. ServerOK'
    BY <1>2 DEF IntakeInv, ServerOK
  <1> QED BY <1>4, <1>5, <1>6, <1>7 DEF IntakeInv

\* A crash ends every call; the ledger and the socket file stay.
LEMMA CrashStep ==
    ASSUME IntakeInv, Crash
    PROVE  IntakeInv'
  <1> USE DEF worldVars
  <1>1. WorldOK'
    BY DEF Crash, IntakeInv, WorldOK
  <1>2. LedgerOK'
    <2>1. UNCHANGED <<outboxVars, accepts>> /\ opened \subseteq opened'
      BY DEF Crash
    <2> QED BY <2>1, LedgerStays DEF IntakeInv
  <1>3. CallsOK'
    <2>1. starts \in Nat
      BY DEF IntakeInv, WorldOK
    <2>2. \A c \in Conns : ConnOK("none", Idle, "none")
      BY IdleIsSafe, <2>1 DEF ConnOK
    <2>3. Idle \in Threads(starts) /\ GateOK(Idle, opened) /\ Idle.pc = "none"
      BY <2>1, IdleIsSafe
    <2>4. /\ task' = [c \in Conns |-> "none"] /\ reply' = [c \in Conns |-> "none"]
          /\ thread' = [c \in Conns |-> Idle] /\ lock' = {}
          /\ starts' = starts /\ opened' = opened
      BY DEF Crash
    <2>5. /\ task' \in [Conns -> TaskStates]
          /\ thread' \in [Conns -> Threads(starts)]
          /\ reply' \in [Conns -> Replies]
      BY <2>3, <2>4 DEF TaskStates, Replies
    <2>6. \A c \in Conns : ConnOK(task'[c], thread'[c], reply'[c]) /\ GateOK(thread'[c], opened)
      BY <2>2, <2>3, <2>4
    <2>7. lock' = Verifying(thread')
      BY <2>3, <2>4 DEF Verifying
    <2> QED BY <2>4, <2>5, <2>6, <2>7 DEF CallsOK
  <1>4. PermitsOK'
    <2>1. Held(task') = {} /\ active' = 0 /\ leaked' = 0
      BY DEF Crash, Held
    <2>2. Cardinality({}) = 0
      BY FS_EmptySet
    <2> QED BY <2>1, <2>2, IntakeAssumption DEF PermitsOK
  <1>5. ServerOK'
    BY DEF Crash, ServerOK, Idle
  <1> QED BY <1>1, <1>2, <1>3, <1>4, <1>5 DEF IntakeInv

\* A connection's task, call and reply become t, r and y, its permit with them; a
\* call is only handed to the executor of a server that accepts.
Moves(c, t, r, y) ==
    LET handed == r.gen = executor /\ closing # "gather" /\ task[c] # "none" IN
    /\ task' = [task EXCEPT ![c] = t]
    /\ thread' = [thread EXCEPT ![c] = r]
    /\ reply' = [reply EXCEPT ![c] = y]
    /\ ConnOK(t, r, y)
    /\ r.pc \in {thread[c].pc, "none", "queued"}
    /\ thread[c].pc \in {r.pc, "none", "queued"}
    /\ GateOK(r, opened)
    /\ leaked' \in {leaked, leaked + 1}
    /\ active' = active + (IF t # "none" THEN 1 ELSE 0) - (IF task[c] # "none" THEN 1 ELSE 0)
                        + (leaked' - leaked)
    /\ leaked' # leaked => t = "none" /\ task[c] # "none"
    /\ t = "none" \/ task[c] # "none" \/ active < MaxConnections
    /\ t # "none" /\ task[c] = "none" => listener
    /\ r.gen = thread[c].gen \/ r = Idle \/ handed
    /\ thread[c] = Idle => r = Idle \/ handed

\* A connection is admitted, opens, fails, hands its frame over, is answered or is
\* cancelled, with its permit.
LEMMA TaskStep ==
    ASSUME IntakeInv, NEW c \in Conns,
           \/ Admit(c) \/ OpenConnection(c) \/ ReadFails(c) \/ WriteAck(c) \/ TaskCancelled(c)
           \/ \E a \in Approvals : Submit(c, a)
    PROVE  IntakeInv'
  <1> USE DEF worldVars, serverVars, Finish
  <1>0. /\ CallsOK /\ PermitsOK /\ starts \in Nat
        /\ task[c] \in TaskStates /\ thread[c] \in Threads(starts) /\ reply[c] \in Replies
        /\ ConnOK(task[c], thread[c], reply[c]) /\ GateOK(thread[c], opened)
        /\ lock = Verifying(thread)
        /\ active \in Int /\ leaked \in Nat
    <2>1. Cardinality(Held(task)) \in Int
      <3>1. Held(task) \subseteq Conns
        BY DEF Held
      <3> QED BY <3>1, IntakeAssumption, FS_Subset, FS_CardinalityType
    <2> QED BY <2>1 DEF IntakeInv, CallsOK, WorldOK, PermitsOK
  <1>1. /\ UNCHANGED <<outboxVars, lock, accepts, listener, executor, path, identity,
                       closing, starts, worldVars>>
    BY DEF Admit, OpenConnection, ReadFails, WriteAck, TaskCancelled, Submit
  <1>2. LedgerOK' /\ WorldOK'
    <2>1. LedgerOK'
      BY <1>1, LedgerStays DEF IntakeInv
    <2> QED BY <1>1, <2>1 DEF IntakeInv, WorldOK
  <1>i. Idle \in Threads(starts) /\ GateOK(Idle, opened) /\ Idle.pc = "none" /\ Idle.gen = 0
    BY <1>0, IdleIsSafe DEF Idle
  <1>3. PICK t \in TaskStates, r \in Threads(starts), y \in Replies : Moves(c, t, r, y)
    <2>a. \A f : f \in [Conns -> TaskStates] \/ f \in [Conns -> Replies] \/ f \in [Conns -> Threads(starts)]
                  => f = [f EXCEPT ![c] = f[c]]
      OBVIOUS
    <2>b. /\ task = [task EXCEPT ![c] = task[c]]
          /\ thread = [thread EXCEPT ![c] = thread[c]]
          /\ reply = [reply EXCEPT ![c] = reply[c]]
      BY <1>0, <2>a DEF CallsOK
    <2>1. CASE Admit(c)
      <3>1. ConnOK("opening", thread[c], reply[c])
        BY <1>0, <2>1 DEF Admit, ConnOK
      <3>w. Moves(c, "opening", thread[c], reply[c])
        BY <1>0, <2>1, <2>b, <3>1 DEF Moves, Admit
      <3> QED BY <1>0, <3>w DEF TaskStates, Replies
    <2>o. CASE OpenConnection(c)
      <3>1. ConnOK("reading", thread[c], reply[c])
        BY <1>0, <2>o DEF OpenConnection, ConnOK
      <3>w. Moves(c, "reading", thread[c], reply[c])
        BY <1>0, <2>o, <2>b, <3>1 DEF Moves, OpenConnection
      <3> QED BY <1>0, <3>w DEF TaskStates, Replies
    <2>2. CASE ReadFails(c)
      <3>1. ConnOK("none", thread[c], reply[c])
        BY <1>0, <2>2 DEF ReadFails, ConnOK
      <3>w. Moves(c, "none", thread[c], reply[c])
        BY <1>0, <2>2, <2>b, <3>1 DEF Moves, ReadFails
      <3> QED BY <1>0, <3>w DEF TaskStates, Replies
    <2>3. CASE WriteAck(c)
      <3>1. ConnOK("none", thread[c], "none")
        BY <1>0, <2>3 DEF WriteAck, ConnOK
      <3>w. Moves(c, "none", thread[c], "none")
        BY <1>0, <2>3, <2>b, <3>1 DEF Moves, WriteAck
      <3> QED BY <1>0, <3>w DEF TaskStates, Replies
    <2>4. CASE TaskCancelled(c)
      <3> DEFINE r == IF thread[c].pc = "queued" THEN Idle ELSE thread[c]
      <3>1. ConnOK("none", r, "none")
        BY <1>0, <1>i DEF ConnOK
      <3>2. r \in Threads(starts) /\ GateOK(r, opened)
        BY <1>0, <1>i
      <3>3. thread' = [thread EXCEPT ![c] = r]
        BY <2>4, <2>b DEF TaskCancelled
      <3>4. r.pc \in {thread[c].pc, "none"} /\ (r.pc = thread[c].pc \/ thread[c].pc = "queued")
        BY <1>i
      <3>5. r.gen = thread[c].gen \/ r = Idle
        OBVIOUS
      <3>6. thread[c] = Idle => r = Idle
        OBVIOUS
      <3> HIDE DEF r
      <3>7. /\ task' = [task EXCEPT ![c] = "none"] /\ reply' = [reply EXCEPT ![c] = "none"]
            /\ task[c] # "none"
        BY <2>4 DEF TaskCancelled
      <3>8. /\ leaked' \in {leaked, leaked + 1}
            /\ active' = active + 0 - 1 + (leaked' - leaked)
        BY <1>0, <2>4 DEF TaskCancelled
      <3>w. Moves(c, "none", r, "none")
        BY <3>1, <3>2, <3>3, <3>4, <3>5, <3>6, <3>7, <3>8 DEF Moves
      <3> QED BY <1>0, <3>w, <3>2 DEF TaskStates, Replies
    <2>5. ASSUME NEW a \in Approvals, Submit(c, a)
          PROVE  \E t \in TaskStates, r \in Threads(starts), y \in Replies : Moves(c, t, r, y)
      <3> DEFINE r == [pc |-> "queued", report |-> a, now |-> 0, gen |-> executor]
      <3>1. r \in Threads(starts)
        BY IntakeAssumption DEF Threads, Gates, IntakeInv, WorldOK
      <3>2. GateOK(r, opened)
        BY DEF GateOK
      <3>3. ConnOK("waiting", r, reply[c])
        BY <1>0, <2>5 DEF Submit, ConnOK
      <3>4. r.pc = "queued" /\ r.gen = executor
        OBVIOUS
      <3>5. thread[c].pc = "none" /\ task[c] = "reading" /\ closing # "gather"
        BY <1>0, <1>i, <2>5 DEF Submit, ConnOK
      <3>6. thread' = [thread EXCEPT ![c] = r] /\ task' = [task EXCEPT ![c] = "waiting"]
            /\ reply' = reply /\ active' = active /\ leaked' = leaked
        BY <2>5 DEF Submit
      <3> HIDE DEF r
      <3>w. Moves(c, "waiting", r, reply[c])
        BY <1>0, <2>b, <3>1, <3>2, <3>3, <3>4, <3>5, <3>6 DEF Moves
      <3> QED BY <1>0, <3>w, <3>1 DEF TaskStates, Replies
    <2> QED BY <2>1, <2>o, <2>2, <2>3, <2>4, <2>5
  <1>4. r.pc # "verify" <=> thread[c].pc # "verify"
    BY <1>3 DEF Moves
  <1>5. CallsOK'
    <2>1. /\ lock' = IF r.pc = "verify" THEN lock \cup {c} ELSE lock \ {c}
          /\ r.pc = "verify" => lock \subseteq {c}
      BY <1>0, <1>1, <1>4 DEF CallsOK, Verifying
    <2>2. UNCHANGED <<starts, opened>>
      BY <1>1
    <2> QED BY <1>0, <1>3, <2>1, <2>2, CallStep DEF Moves
  <1>6. PermitsOK'
    <2>1. task \in [Conns -> TaskStates]
      BY <1>0 DEF CallsOK
    <2> QED BY <1>0, <1>3, <2>1, PermitStep DEF Moves
  <1>7. ServerOK'
    <2>0. ServerOK
      BY DEF IntakeInv
    <2>1. /\ task'[c] = t /\ thread'[c] = r
          /\ \A d \in Conns \ {c} : task'[d] = task[d] /\ thread'[d] = thread[d]
      BY <1>0, <1>3 DEF CallsOK, Moves
    <2>2. UNCHANGED <<listener, executor, identity, closing>>
      BY <1>1
    <2>3. closing # "gather" /\ task[c] # "none" => executor # 0
      BY <2>0 DEF ServerOK
    <2>5. r.pc # "none" => r.gen # 0
      <3>1. thread[c].pc = "none" => thread[c] = Idle
        BY <1>0 DEF ConnOK
      <3> QED BY <1>i, <1>3, <2>0, <2>3, <3>1 DEF ServerOK, Moves
    <2>6. ~ listener /\ closing # "gather" => t = "none"
      BY <1>3, <2>0 DEF ServerOK, Moves
    <2>7. ~ listener /\ closing = "no" => r = Idle
      BY <1>3, <2>0 DEF ServerOK, Moves
    <2> QED BY <2>0, <2>1, <2>2, <2>5, <2>6, <2>7 DEF ServerOK
  <1> QED BY <1>2, <1>5, <1>6, <1>7 DEF IntakeInv

\* One running call takes a step, whatever it did to the ledger.
LEMMA CallAdvances ==
    ASSUME IntakeInv, NEW c \in Conns, NEW r \in Threads(starts), NEW y \in Replies,
           thread[c].pc # "none",
           UNCHANGED <<task, serverVars, worldVars>>,
           thread' = [thread EXCEPT ![c] = r],
           reply' = [reply EXCEPT ![c] = y],
           ConnOK(task[c], r, y), GateOK(r, opened),
           IF r.pc = "none" THEN r.gen = 0 ELSE r.gen = thread[c].gen,
           lock' = IF r.pc = "verify" THEN lock \cup {c} ELSE lock \ {c},
           r.pc = "verify" => lock \subseteq {c},
           LedgerOK'
    PROVE  IntakeInv'
  <1> USE DEF serverVars, worldVars
  <1>0. /\ CallsOK /\ starts \in Nat /\ task[c] \in TaskStates
        /\ \A d \in Conns : thread[d].pc = "none" => thread[d] = Idle
    BY DEF IntakeInv, WorldOK, CallsOK, ConnOK
  <1>1. CallsOK'
    <2>1. task' = [task EXCEPT ![c] = task[c]]
      BY <1>0 DEF CallsOK
    <2> QED BY <1>0, <2>1, CallStep
  <1>2. PermitsOK' /\ WorldOK'
    BY DEF IntakeInv, PermitsOK, WorldOK
  <1>3. ServerOK'
    <2>0. ServerOK
      BY DEF IntakeInv
    <2>1. thread'[c] = r /\ \A d \in Conns \ {c} : thread'[d] = thread[d]
      BY <1>0 DEF CallsOK
    <2>2. thread[c] # Idle
      BY DEF Idle
    <2>4. r.pc # "none" => r.gen # 0
      BY <2>0 DEF ServerOK
    <2> QED BY <2>0, <2>1, <2>2, <2>4 DEF ServerOK
  <1> QED BY <1>1, <1>2, <1>3 DEF IntakeInv

\* A call passes a gate and takes with it what the gate has shown.
LEMMA GatePassed ==
    ASSUME IntakeInv, NEW c \in Conns, NEW pc \in Gates, NEW t \in 0 .. MaxClock,
           thread[c].pc # "none",
           UNCHANGED <<outboxVars, task, reply, accepts, serverVars, worldVars>>,
           thread' = [thread EXCEPT ![c] = [thread[c] EXCEPT !.pc = pc, !.now = t]],
           GateOK([thread[c] EXCEPT !.pc = pc, !.now = t], opened),
           lock' = IF pc = "verify" THEN lock \cup {c} ELSE lock \ {c},
           pc = "verify" => lock \subseteq {c}
    PROVE  IntakeInv'
  <1> DEFINE r == [thread[c] EXCEPT !.pc = pc, !.now = t]
  <1>0. /\ CallsOK /\ thread[c] \in Threads(starts) /\ task[c] \in TaskStates
        /\ reply[c] \in Replies /\ ConnOK(task[c], thread[c], reply[c])
    BY DEF IntakeInv, CallsOK
  <1>1. /\ r \in Threads(starts) /\ r.pc = pc /\ r.gen = thread[c].gen
        /\ r.report = thread[c].report /\ pc # "none"
    BY <1>0 DEF Threads, Gates
  <1>2. ConnOK(task[c], r, reply[c])
    BY <1>0, <1>1 DEF ConnOK, Idle
  <1>3. reply' = [reply EXCEPT ![c] = reply[c]]
    BY <1>0 DEF CallsOK
  <1>4. LedgerOK'
    <2>1. UNCHANGED <<outboxVars, accepts>> /\ opened \subseteq opened'
      BY DEF worldVars
    <2> QED BY <2>1, LedgerStays DEF IntakeInv
  <1>5. thread' = [thread EXCEPT ![c] = r] /\ GateOK(r, opened)
    OBVIOUS
  <1> HIDE DEF r
  <1> QED BY <1>0, <1>1, <1>2, <1>3, <1>4, <1>5, CallAdvances

\* A call returns its status; only "accepted" is counted.
LEMMA CallReturns ==
    ASSUME IntakeInv, NEW c \in Conns, NEW status \in Replies \ {"none"},
           thread[c].pc # "none",
           Return(c, status),
           UNCHANGED <<task, serverVars, worldVars>>,
           lock' = lock \ {c},
           LedgerOK'
    PROVE  IntakeInv'
  <1> DEFINE y == IF task[c] = "waiting" THEN status ELSE reply[c]
  <1>0. /\ CallsOK /\ starts \in Nat /\ task[c] \in TaskStates
        /\ reply[c] \in Replies /\ ConnOK(task[c], thread[c], reply[c])
    BY DEF IntakeInv, CallsOK, WorldOK
  <1>1. Idle \in Threads(starts) /\ GateOK(Idle, opened) /\ Idle.pc = "none" /\ Idle.gen = 0
    BY <1>0, IdleIsSafe DEF Idle
  <1>2. y \in Replies /\ ConnOK(task[c], Idle, y)
    BY <1>0, <1>1 DEF ConnOK
  <1>3. /\ thread' = [thread EXCEPT ![c] = Idle]
        /\ reply' = [reply EXCEPT ![c] = y]
    BY <1>0 DEF Return, CallsOK
  <1> HIDE DEF y
  <1> QED BY <1>0, <1>1, <1>2, <1>3, CallAdvances

\* What a call that is turned away leaves behind.
LEMMA CallRefused ==
    ASSUME IntakeInv, NEW c \in Conns, NEW status \in {"rejected", "busy"},
           thread[c].pc # "none",
           Return(c, status),
           UNCHANGED <<outboxVars, task, serverVars, worldVars>>,
           lock' = lock \ {c}
    PROVE  IntakeInv'
  <1>1. UNCHANGED <<outboxVars, accepts>> /\ opened \subseteq opened'
    BY DEF Return, worldVars
  <1>2. LedgerOK'
    BY <1>1, LedgerStays DEF IntakeInv
  <1>3. status \in Replies \ {"none"}
    BY DEF Replies
  <1> QED BY <1>2, <1>3, CallReturns

\* The parse, the resolver, the clock, the promotion and the two preflights, and
\* the verifier: each gate adds its part of what consumption relies on.
LEMMA GateStep ==
    ASSUME IntakeInv, NEW c \in Conns,
           \/ ParseTransport(c) \/ Resolve(c) \/ ReadClock(c) \/ Promote(c)
           \/ VerifiedPreflight(c) \/ AcquireVerifier(c) \/ InvokeVerifier(c)
           \/ ConsumeRefused(c) \/ LedgerBusy(c)
    PROVE  IntakeInv'
  <1> DEFINE r == thread[c]
             p == Content[r.report].value
             Passed(pc, t) == [thread[c] EXCEPT !.pc = pc, !.now = t]
  <1>0. /\ CallsOK /\ r \in Threads(starts) /\ GateOK(r, opened)
        /\ sessions \subseteq opened /\ clock \in 0 .. MaxClock
        /\ lock = Verifying(thread)
        /\ r.now \in 0 .. MaxClock
    BY DEF IntakeInv, CallsOK, WorldOK, Threads
  <1>1. ASSUME NEW pc \in Gates
        PROVE  [thread EXCEPT ![c].pc = pc] = [thread EXCEPT ![c] = Passed(pc, r.now)]
    BY <1>0 DEF CallsOK, Threads
  <1>2. ASSUME NEW pc \in Gates, NEW t \in 0 .. MaxClock
        PROVE  /\ Passed(pc, t).pc = pc /\ Passed(pc, t).report = r.report
               /\ Passed(pc, t).now = t
    BY <1>0 DEF Threads
  <1>3. r.pc # "verify" => lock = lock \ {c}
    BY <1>0 DEF Verifying
  <1> HIDE DEF Passed
  <1>4. ASSUME NEW pc \in Gates, pc # "verify", r.pc # "none", r.pc # "verify" \/ lock' = lock \ {c},
               r.pc # "verify" => lock' = lock,
               Goto(c, pc), UNCHANGED <<reply, accepts, outboxVars, task, serverVars, worldVars>>,
               GateOK(Passed(pc, r.now), opened)
        PROVE  IntakeInv'
    BY <1>0, <1>1, <1>3, <1>4, GatePassed DEF Goto, Passed
  <1>5. ASSUME NEW status \in {"rejected", "busy"}, r.pc # "none",
               r.pc # "verify" \/ lock' = lock \ {c}, r.pc # "verify" => lock' = lock,
               Return(c, status), UNCHANGED <<outboxVars, task, serverVars, worldVars>>
        PROVE  IntakeInv'
    BY <1>3, <1>5, CallRefused
  <1>6. CASE ParseTransport(c)
    <2>1. "resolve" \in Gates /\ r.pc = "queued"
      BY <1>6 DEF Gates, ParseTransport, At
    <2>2. GateOK(Passed("resolve", r.now), opened)
      BY <1>0, <1>2, <2>1 DEF GateOK
    <2> QED BY <1>4, <1>5, <1>6, <2>1, <2>2 DEF ParseTransport
  <1>7. CASE Resolve(c)
    <2>1. "clock" \in Gates /\ r.pc = "resolve"
      BY <1>7 DEF Gates, Resolve, At
    <2>2. p.nonce \in sessions => GateOK(Passed("clock", r.now), opened)
      BY <1>0, <1>2, <2>1 DEF GateOK
    <2>3. CASE /\ Report(c).nonce \in sessions /\ Goto(c, "clock") /\ UNCHANGED <<reply, accepts>>
      BY <1>4, <1>7, <2>1, <2>2, <2>3 DEF Resolve, Report
    <2>4. CASE Return(c, "rejected") \/ Return(c, "busy")
      BY <1>5, <1>7, <2>1, <2>4 DEF Resolve
    <2> QED BY <1>7, <2>3, <2>4 DEF Resolve
  <1>8. CASE ReadClock(c)
    <2>1. "promote" \in Gates /\ r.pc = "clock"
      BY <1>8 DEF Gates, ReadClock, At
    <2>2. GateOK(Passed("promote", clock), opened)
      BY <1>0, <1>2, <2>1 DEF GateOK
    <2>3. [thread EXCEPT ![c].pc = "promote", ![c].now = clock]
            = [thread EXCEPT ![c] = Passed("promote", clock)]
      BY <1>0 DEF CallsOK, Threads, Passed
    <2>4. CASE /\ thread' = [thread EXCEPT ![c].pc = "promote", ![c].now = clock]
               /\ UNCHANGED <<reply, accepts>>
      BY <1>0, <1>3, <1>8, <2>1, <2>2, <2>3, <2>4, GatePassed DEF ReadClock, Passed
    <2>5. CASE Return(c, "busy")
      BY <1>5, <1>8, <2>1, <2>5 DEF ReadClock
    <2> QED BY <1>8, <2>4, <2>5 DEF ReadClock
  <1>9. CASE Promote(c)
    <2>1. "preflight" \in Gates /\ r.pc = "promote"
      BY <1>9 DEF Gates, Promote, At
    <2>2. Promotable(p.bundle.value) => GateOK(Passed("preflight", r.now), opened)
      BY <1>0, <1>2, <2>1 DEF GateOK
    <2>3. CASE /\ Promotable(Report(c).bundle.value)
               /\ Goto(c, "preflight") /\ UNCHANGED <<reply, accepts>>
      BY <1>4, <1>9, <2>1, <2>2, <2>3 DEF Promote, Report
    <2>4. CASE Return(c, "rejected") \/ Return(c, "busy")
      BY <1>5, <1>9, <2>1, <2>4 DEF Promote
    <2> QED BY <1>9, <2>3, <2>4 DEF Promote
  <1>10. CASE VerifiedPreflight(c)
    <2>1. "lock" \in Gates /\ r.pc = "preflight"
      BY <1>10 DEF Gates, VerifiedPreflight, At
    <2>2. ReportAgrees(p, r.now) => GateOK(Passed("lock", r.now), opened)
      BY <1>0, <1>2, <2>1 DEF GateOK
    <2>3. CASE /\ Preflights(Report(c), manifest, Policy, Report(c).nonce, r.now)
               /\ Goto(c, "lock") /\ UNCHANGED <<reply, accepts>>
      <3>1. ReportAgrees(p, r.now)
        BY <2>3, PreflightMeans DEF Report
      <3> QED BY <1>4, <1>10, <2>1, <2>2, <2>3, <3>1 DEF VerifiedPreflight
    <2>4. CASE Return(c, "rejected") \/ Return(c, "busy")
      BY <1>5, <1>10, <2>1, <2>4 DEF VerifiedPreflight
    <2> QED BY <1>10, <2>3, <2>4 DEF VerifiedPreflight
  <1>11. CASE AcquireVerifier(c)
    <2>1. "verify" \in Gates /\ r.pc = "lock"
      BY <1>11 DEF Gates, AcquireVerifier, At
    <2>2. GateOK(Passed("verify", r.now), opened)
      BY <1>0, <1>2, <2>1 DEF GateOK
    <2>3. CASE lock = {} /\ lock' = {c} /\ Goto(c, "verify") /\ UNCHANGED <<reply, accepts>>
      <3>1. thread' = [thread EXCEPT ![c] = Passed("verify", r.now)]
        BY <1>1, <2>1, <2>3 DEF Goto
      <3>2. lock' = lock \cup {c} /\ lock \subseteq {c}
        BY <2>3
      <3>3. UNCHANGED <<outboxVars, task, reply, accepts, serverVars, worldVars>>
        BY <1>11, <2>3 DEF AcquireVerifier
      <3> QED BY <1>0, <2>1, <2>2, <3>1, <3>2, <3>3, GatePassed DEF Passed
    <2>4. CASE Return(c, "busy") /\ UNCHANGED lock
      BY <1>5, <1>11, <2>1, <2>4 DEF AcquireVerifier
    <2> QED BY <1>11, <2>3, <2>4 DEF AcquireVerifier
  <1>12. CASE InvokeVerifier(c)
    <2>1. "consume" \in Gates /\ r.pc = "verify" /\ lock' = lock \ {c}
      BY <1>12 DEF Gates, InvokeVerifier, At
    <2>2. r.report \in ProofValid => GateOK(Passed("consume", r.now), opened)
      BY <1>0, <1>2, <2>1 DEF GateOK
    <2>3. CASE /\ thread[c].report \in ProofValid
               /\ Goto(c, "consume") /\ UNCHANGED <<reply, accepts>>
      BY <1>4, <1>12, <2>1, <2>2, <2>3 DEF InvokeVerifier
    <2>4. CASE Return(c, "rejected") \/ Return(c, "busy")
      BY <1>5, <1>12, <2>1, <2>4 DEF InvokeVerifier
    <2> QED BY <1>12, <2>3, <2>4 DEF InvokeVerifier
  <1>13. CASE ConsumeRefused(c)
    <2>1. r.pc = "consume"
      BY <1>13 DEF ConsumeRefused, At
    <2>2. Return(c, "rejected") \/ Return(c, "busy")
      BY <1>13 DEF ConsumeRefused
    <2>3. UNCHANGED <<outboxVars, task, lock, serverVars, worldVars>>
      BY <1>13 DEF ConsumeRefused
    <2> QED BY <1>5, <2>1, <2>2, <2>3
  <1>14. CASE LedgerBusy(c)
    <2>1. r.pc = "consume"
      BY <1>14 DEF LedgerBusy, At
    <2> QED BY <1>5, <1>14, <2>1 DEF LedgerBusy
  <1> QED BY <1>6, <1>7, <1>8, <1>9, <1>10, <1>11, <1>12, <1>13, <1>14

\* A consumption leaves what was consumed before it as it was.
LEMMA ConsumptionAdds ==
    ASSUME OutboxInv, NEW a \in Approvals, NEW g \in Bindings, NEW t \in Nat,
           ConsumeDurable(a, g, t)
    PROVE  /\ OutboxInv'
           /\ a \notin consumptions /\ a \notin pairings
           /\ consumptions' = consumptions \cup {a} /\ pairings' = pairings \cup {a}
           /\ under'[a] = g /\ consumed_at'[a] = t
           /\ \A b \in consumptions : under'[b] = under[b] /\ consumed_at'[b] = consumed_at[b]
  <1>1. OutboxInv'
    BY EnqueuePreserves
  <1>2. a \notin consumptions /\ a \notin pairings
    BY DEF ConsumeDurable, ConsumeApproval, EnqueueOutbox, Replayed, PairingTaken
  <1>3. consumptions' = consumptions \cup {a} /\ pairings' = pairings \cup {a}
    BY DEF ConsumeDurable, ConsumeApproval, EnqueueOutbox
  <1>4. /\ under' = [under EXCEPT ![a] = g] /\ consumed_at' = [consumed_at EXCEPT ![a] = t]
        /\ under \in [Approvals -> Bindings \cup {NoBinding}]
        /\ consumed_at \in [Approvals -> Nat] /\ consumptions \subseteq Approvals
    BY DEF ConsumeDurable, ConsumeApproval, OutboxInv, OutboxTypeOK
  <1> QED BY <1>1, <1>2, <1>3, <1>4

\* Consumption: every gate is behind the call, and its report was never paired.
LEMMA AcceptStep ==
    ASSUME IntakeInv, NEW c \in Conns, ConsumeAccepted(c)
    PROVE  IntakeInv'
  <1> DEFINE r == thread[c]
             a == r.report
             t == r.now
  <1>0. /\ CallsOK /\ LedgerOK /\ r \in Threads(starts) /\ GateOK(r, opened)
        /\ ConnOK(task[c], r, reply[c]) /\ lock = Verifying(thread)
    BY DEF IntakeInv, CallsOK
  <1>1. r.pc = "consume" /\ ConsumeDurable(a, Served, t) /\ Return(c, "accepted")
        /\ UNCHANGED <<task, lock, serverVars, worldVars>>
    BY DEF ConsumeAccepted, At
  <1>2. a \in Approvals /\ t \in Nat /\ Served \in Bindings
    BY <1>0, <1>1, IntakeAssumption, OutboxAssumption DEF ConnOK, Threads
  <1>3. /\ OutboxInv'
        /\ a \notin pairings
        /\ consumptions' = consumptions \cup {a} /\ pairings' = pairings \cup {a}
        /\ under'[a] = Served /\ consumed_at'[a] = t
        /\ \A b \in consumptions : under'[b] = under[b] /\ consumed_at'[b] = consumed_at[b]
    BY <1>0, <1>1, <1>2, ConsumptionAdds DEF LedgerOK
  <1>4. /\ a \in ProofValid
        /\ ReportAgrees(Content[a].value, t)
        /\ Content[a].value.nonce \in opened
        /\ Promotable(Content[a].value.bundle.value)
    BY <1>0, <1>1 DEF GateOK
  <1>5. opened' = opened
    BY <1>1 DEF worldVars
  <1>6. ConsumedWasVerified'
    <2> DEFINE q == Content[a].value
    <2>1. /\ q.bundle.value.disclosure = ReviewRequired
          /\ \A o \in {q.bundle.value.observables[i] : i \in DOMAIN q.bundle.value.observables} :
                 o.kind \in Promotion.kinds
      BY <1>4 DEF Promotable
    <2>2. /\ q.nonce \in opened' /\ ReportAgrees(q, consumed_at'[a])
      BY <1>3, <1>4, <1>5
    <2>3. ConsumedWasVerified
      BY <1>0 DEF LedgerOK
    <2> HIDE DEF a, t, r
    <2> QED BY <1>3, <1>4, <1>5, <2>1, <2>2, <2>3 DEF ConsumedWasVerified
  <1>7. AcceptsKept'
    <2>1. accepts' = [accepts EXCEPT ![a] = @ + 1] /\ accepts[a] = 0
      BY <1>0, <1>1, <1>2, <1>3 DEF Return, LedgerOK, AcceptsKept
    <2> QED BY <1>0, <1>2, <1>3, <2>1 DEF LedgerOK, AcceptsKept
  <1>8. LedgerOK'
    BY <1>3, <1>6, <1>7 DEF LedgerOK
  <1>9. lock' = lock \ {c} /\ "accepted" \in Replies \ {"none"}
    BY <1>0, <1>1 DEF Verifying, Replies
  <1> QED BY <1>1, <1>8, <1>9, CallReturns

\* The service of another binding consumes from the same ledger.
LEMMA OtherStep ==
    ASSUME IntakeInv, NEW a \in Approvals, NEW g \in Bindings, OtherService(a, g)
    PROVE  IntakeInv'
  <1> USE DEF callVars, serverVars, worldVars
  <1>1. clock \in Nat /\ OutboxInv /\ g # Served /\ ConsumeDurable(a, g, clock)
    BY DEF IntakeInv, WorldOK, LedgerOK, OtherService
  <1>2. /\ OutboxInv' /\ a \notin consumptions
        /\ consumptions' = consumptions \cup {a} /\ pairings' = pairings \cup {a}
        /\ under'[a] = g
        /\ \A b \in consumptions : under'[b] = under[b] /\ consumed_at'[b] = consumed_at[b]
    BY <1>1, ConsumptionAdds
  <1>3. UNCHANGED <<task, thread, reply, lock, accepts, active, leaked, listener, executor,
                    path, identity, closing, starts, sessions, opened, manifest, clock>>
    BY DEF OtherService
  <1>4. ConsumedWasVerified'
    BY <1>1, <1>2, <1>3 DEF IntakeInv, LedgerOK, ConsumedWasVerified
  <1>5. AcceptsKept'
    BY <1>2, <1>3 DEF IntakeInv, LedgerOK, AcceptsKept
  <1>6. CallsOK'
    <2>1. starts \in Nat /\ starts <= starts
      BY DEF IntakeInv, WorldOK
    <2> QED BY <1>3, <2>1, CallsStay DEF IntakeInv
  <1>7. PermitsOK' /\ WorldOK' /\ ServerOK'
    BY <1>3 DEF IntakeInv, PermitsOK, WorldOK, ServerOK
  <1> QED BY <1>2, <1>4, <1>5, <1>6, <1>7 DEF IntakeInv, LedgerOK

-----------------------------------------------------------------------------
(* Theorems *)

\* The invariant holds in every behaviour of the intake, however starts, closes,
\* crashes, sessions, the clock and the manifest file move under the calls.
THEOREM IntakeInvariant == IntakeSpec => []IntakeInv
  <1>1. IntakeInit => IntakeInv
    <2> SUFFICES ASSUME IntakeInit PROVE IntakeInv
      OBVIOUS
    <2>i. /\ Idle \in Threads(0) /\ GateOK(Idle, opened) /\ Idle.pc = "none"
          /\ ConnOK("none", Idle, "none")
      BY IdleIsSafe DEF ConnOK
    <2>1. CallsOK
      BY <2>i DEF IntakeInit, CallsOK, TaskStates, Replies, Verifying
    <2>2. PermitsOK
      <3>1. Held(task) = {} /\ active = 0 /\ leaked = 0
        BY DEF IntakeInit, Held
      <3>2. Cardinality({}) = 0
        BY FS_EmptySet
      <3> QED BY <3>1, <3>2, IntakeAssumption DEF PermitsOK
    <2>3. WorldOK
      BY IntakeAssumption DEF IntakeInit, WorldOK
    <2>4. OutboxInv
      BY OutboxInitially DEF IntakeInit
    <2>5. ConsumedWasVerified /\ AcceptsKept
      BY DEF IntakeInit, OutboxInit, ConsumedWasVerified, AcceptsKept
    <2>6. ServerOK
      BY <2>i DEF IntakeInit, ServerOK
    <2> QED BY <2>1, <2>2, <2>3, <2>4, <2>5, <2>6 DEF IntakeInv, LedgerOK
  <1>2. IntakeInv /\ [IntakeNext]_intakeVars => IntakeInv'
    <2> SUFFICES ASSUME IntakeInv, [IntakeNext]_intakeVars PROVE IntakeInv'
      OBVIOUS
    <2>1. CASE UNCHANGED intakeVars
      <3>1. /\ UNCHANGED <<outboxVars, accepts>>
            /\ UNCHANGED <<task, thread, reply, lock, active, leaked, listener, executor,
                           path, identity, closing, starts, sessions, opened, manifest, clock>>
        BY <2>1 DEF intakeVars, callVars, serverVars, worldVars
      <3>2. starts \in Nat /\ starts <= starts
        BY DEF IntakeInv, WorldOK
      <3>3. CallsOK'
        BY <3>1, <3>2, CallsStay DEF IntakeInv
      <3>4. LedgerOK'
        BY <3>1, LedgerStays DEF IntakeInv
      <3>5. PermitsOK' /\ WorldOK' /\ ServerOK'
        BY <3>1 DEF IntakeInv, PermitsOK, WorldOK, ServerOK
      <3> QED BY <3>3, <3>4, <3>5 DEF IntakeInv
    <2>2. CASE \/ Start \/ StartFails \/ CloseBegin \/ CloseGathered \/ CloseReturns
               \/ RemoveStaleSocket
      BY <2>2, ServerStep
    <2>3. CASE \/ Tick \/ \E n \in Nonces : OpenOrEndSession(n)
               \/ \E m \in Manifests \ {manifest} : ReplaceManifest(m)
      BY <2>3, WorldStep
    <2>4. CASE Crash
      BY <2>4, CrashStep
    <2>5. ASSUME NEW c \in Conns,
                 \/ Admit(c) \/ OpenConnection(c) \/ ReadFails(c) \/ WriteAck(c) \/ TaskCancelled(c)
                 \/ \E a \in Approvals : Submit(c, a)
          PROVE  IntakeInv'
      BY <2>5, TaskStep
    <2>6. ASSUME NEW c \in Conns, ThreadStep(c)
          PROVE  IntakeInv'
      BY <2>6, GateStep, AcceptStep DEF ThreadStep
    <2>7. ASSUME NEW a \in Approvals, NEW g \in Bindings, OtherService(a, g)
          PROVE  IntakeInv'
      BY <2>7, OtherStep
    <2> QED BY <2>1, <2>2, <2>3, <2>4, <2>5, <2>6, <2>7 DEF IntakeNext
  <1> QED BY <1>1, <1>2, PTL DEF IntakeSpec

\* README.md, "failed proof or privacy checks never consume an approval": whatever
\* this service has consumed had passed every gate at the time its call read,
\* whatever moved meanwhile.
THEOREM IntakeConsumesVerified == IntakeSpec => []ConsumedWasVerified
  <1>1. IntakeInv => ConsumedWasVerified
    BY DEF IntakeInv, LedgerOK
  <1> QED BY <1>1, IntakeInvariant, PTL

\* No approval, statement or bundle is acknowledged as accepted twice, over any
\* number of connections, restarts and services on one ledger.
THEOREM IntakeAcceptsOnce == IntakeSpec => []AcceptedOnce
  <1>1. IntakeInv => AcceptedOnce
    <2> SUFFICES ASSUME IntakeInv, NEW a \in Approvals, NEW b \in Approvals,
                        accepts[a] > 0
                 PROVE  /\ a \in consumptions /\ a \in pairings
                        /\ accepts[a] = 1
                        /\ b # a /\ accepts[b] > 0 =>
                               /\ NonceOf[a] # NonceOf[b]
                               /\ StatementOf[a] # StatementOf[b]
                               /\ CommitmentOf[a] # CommitmentOf[b]
      BY DEF AcceptedOnce
    <2>1. AcceptsKept /\ OutboxTypeOK /\ KeysUnique
      BY DEF IntakeInv, LedgerOK, OutboxInv
    <2>2. \A c \in {a, b} : accepts[c] > 0 =>
              accepts[c] = 1 /\ c \in pairings /\ c \in consumptions
      BY <2>1 DEF AcceptsKept, OutboxTypeOK
    <2> QED BY <2>1, <2>2 DEF KeysUnique
  <1> QED BY <1>1, IntakeInvariant, PTL

\* However starts, closes and cancellations meet: permits match the connections
\* and the openings that were cancelled, one verifier runs at a time, and once
\* close has returned no task, no call and no socket of the server is left.
THEOREM IntakeOrderly == IntakeSpec => []IntakeIsOrderly
  <1>1. IntakeInv => IntakeTypeOK /\ OneVerifier
    <2> SUFFICES ASSUME IntakeInv PROVE IntakeTypeOK /\ OneVerifier
      OBVIOUS
    <2>1. IntakeTypeOK
      BY DEF IntakeInv, IntakeTypeOK, CallsOK, PermitsOK, WorldOK, LedgerOK, AcceptsKept,
             ConnOK, TaskStates, Replies, Threads, Gates, Held
    <2>2. lock = {c \in Conns : thread[c].pc = "verify"}
      BY DEF IntakeInv, CallsOK, Verifying
    <2>3. Cardinality(lock) <= 1
      <3>1. CASE lock = {}
        BY <3>1, FS_EmptySet
      <3>2. CASE lock # {}
        <4>1. PICK c \in lock : lock = {c}
          BY <3>2 DEF IntakeInv, CallsOK
        <4> QED BY <4>1, FS_Singleton
      <3> QED BY <3>1, <3>2
    <2> QED BY <2>1, <2>2, <2>3 DEF OneVerifier
  <1>2. IntakeInv => ClosedIsQuiet
    <2> SUFFICES ASSUME IntakeInv, ~ listener, closing = "no"
                 PROVE  /\ \A c \in Conns : task[c] = "none" /\ thread[c] = Idle
                        /\ active = leaked
                        /\ identity = 0
      BY DEF ClosedIsQuiet
    <2>1. identity = 0 /\ \A c \in Conns : task[c] = "none" /\ thread[c] = Idle
      BY DEF IntakeInv, ServerOK
    <2>2. Held(task) = {} /\ active = Cardinality(Held(task)) + leaked /\ leaked \in Nat
      BY <2>1 DEF IntakeInv, PermitsOK, Held
    <2>3. Cardinality({}) = 0
      BY FS_EmptySet
    <2>4. active = leaked
      BY <2>2, <2>3
    <2> QED BY <2>1, <2>4
  <1> QED BY <1>1, <1>2, IntakeInvariant, PTL DEF IntakeIsOrderly

-----------------------------------------------------------------------------
(* The proof binding and the readers of one report *)

\* A set of natural numbers that is not empty has a least one: induction on data
\* below takes the least counterexample.
LEMMA LeastOf ==
    ASSUME NEW S, S \subseteq Nat, S # {}
    PROVE  \E n \in S : \A k \in S : n <= k
  <1> DEFINE R == {ss \in Nat \X Nat : ss[1] < ss[2]}
  <1>1. IsWellFoundedOn(R, Nat)
    BY NatLessThanWellFounded DEF OpToRel
  <1> HIDE DEF R
  <1>2. PICK n \in S : \A k \in S : ~ (<<k, n>> \in R)
    BY <1>1, WFMin
  <1>3. ASSUME NEW k \in S, k < n PROVE FALSE
    <2>1. <<k, n>> \in R
      BY <1>3 DEF R
    <2> QED BY <1>2, <2>1
  <1> QED BY <1>3

\* A list in order without a repetition is in strict order, however far apart.
LEMMA StrictlyOrdered ==
    ASSUME NEW d, NEW s \in Seq(DOMAIN Rank), ObservablesValid(d, s),
           NEW i \in DOMAIN s, NEW j \in DOMAIN s, i < j
    PROVE  Rank[s[i]] < Rank[s[j]]
  <1> DEFINE S == {k \in DOMAIN s : i < k /\ ~ (Rank[s[i]] < Rank[s[k]])}
  <1>0. /\ Len(s) \in Nat /\ DOMAIN s = 1 .. Len(s)
        /\ \A k \in DOMAIN s : s[k] \in DOMAIN Rank /\ Rank[s[k]] \in Nat
        /\ \A k, l \in DOMAIN s : Rank[s[k]] = Rank[s[l]] => s[k] = s[l]
    BY BindingAssumption
  <1>1. /\ \A k, l \in DOMAIN s : k # l => s[k] # s[l]
        /\ \A k \in 2 .. Len(s) : Rank[s[k - 1]] <= Rank[s[k]]
    BY DEF ObservablesValid
  <1>2. SUFFICES ASSUME S # {} PROVE FALSE
    OBVIOUS
  <1>3. S \subseteq Nat
    BY <1>0
  <1>4. PICK k \in S : \A l \in S : k <= l
    BY <1>2, <1>3, LeastOf
  <1>5. k \in DOMAIN s /\ i < k /\ ~ (Rank[s[i]] < Rank[s[k]])
    OBVIOUS
  <1>6. k - 1 \in DOMAIN s /\ k \in 2 .. Len(s) /\ ~ (k <= k - 1) /\ i <= k - 1
    BY <1>0, <1>5
  <1>7. Rank[s[i]] <= Rank[s[k - 1]]
    <2>1. CASE i = k - 1
      BY <1>0, <2>1
    <2>2. CASE i < k - 1
      <3>1. k - 1 \notin S
        BY <1>4, <1>6
      <3> QED BY <1>0, <1>6, <2>2, <3>1
    <2> QED BY <1>0, <1>6, <2>1, <2>2
  <1>8. Rank[s[k - 1]] < Rank[s[k]]
    <2>1. Rank[s[k - 1]] <= Rank[s[k]] /\ Rank[s[k - 1]] # Rank[s[k]]
      BY <1>0, <1>1, <1>6
    <2> QED BY <1>0, <1>5, <1>6, <2>1
  <1> QED BY <1>0, <1>5, <1>6, <1>7, <1>8

\* Two valid lists of the same observables agree in every place both have.
LEMMA ListsAgree ==
    ASSUME NEW d, NEW e, NEW s \in Seq(DOMAIN Rank), NEW t \in Seq(DOMAIN Rank),
           ObservablesValid(d, s), ObservablesValid(e, t),
           {s[i] : i \in DOMAIN s} = {t[i] : i \in DOMAIN t},
           NEW n \in DOMAIN s, n \in DOMAIN t
    PROVE  s[n] = t[n]
  <1> DEFINE S == {k \in DOMAIN s : k \in DOMAIN t /\ s[k] # t[k]}
  <1>0. /\ Len(s) \in Nat /\ DOMAIN s = 1 .. Len(s)
        /\ Len(t) \in Nat /\ DOMAIN t = 1 .. Len(t)
        /\ \A k \in DOMAIN s : Rank[s[k]] \in Nat
        /\ \A k \in DOMAIN t : Rank[t[k]] \in Nat
    BY BindingAssumption
  <1>1. /\ \A k, l \in DOMAIN s : k # l => s[k] # s[l]
        /\ \A k, l \in DOMAIN t : k # l => t[k] # t[l]
    BY DEF ObservablesValid
  <1>2. SUFFICES ASSUME S # {} PROVE FALSE
    OBVIOUS
  <1>3. PICK k \in S : \A l \in S : k <= l
    <2>1. S \subseteq Nat
      BY <1>0
    <2> QED BY <1>2, <2>1, LeastOf
  <1>4. k \in DOMAIN s /\ k \in DOMAIN t /\ s[k] # t[k]
    OBVIOUS
  <1>5. \A l \in DOMAIN s : l < k => s[l] = t[l]
    <2> SUFFICES ASSUME NEW l \in DOMAIN s, l < k PROVE s[l] = t[l]
      OBVIOUS
    <2>1. l \in DOMAIN t /\ ~ (k <= l)
      BY <1>0, <1>4
    <2> QED BY <1>3, <2>1
  <1>6. PICK j \in DOMAIN t : s[k] = t[j]
    BY <1>4
  <1>7. PICK i \in DOMAIN s : t[k] = s[i]
    BY <1>4
  <1>8. k < j
    <2>1. j # k
      BY <1>4, <1>6
    <2>2. ~ (j < k)
      <3> SUFFICES ASSUME j < k PROVE FALSE
        OBVIOUS
      <3>1. j \in DOMAIN s /\ j # k
        BY <1>0, <1>4, <2>1
      <3> QED BY <1>1, <1>4, <1>5, <1>6, <3>1
    <2> QED BY <1>0, <1>4, <2>1, <2>2
  <1>9. k < i
    <2>1. i # k
      BY <1>4, <1>7
    <2>2. ~ (i < k)
      <3> SUFFICES ASSUME i < k PROVE FALSE
        OBVIOUS
      <3>1. i \in DOMAIN t /\ i # k
        BY <1>0, <1>4, <2>1
      <3> QED BY <1>1, <1>4, <1>5, <1>7, <3>1
    <2> QED BY <1>0, <1>4, <2>1, <2>2
  <1>10. Rank[t[k]] < Rank[t[j]]
    BY <1>4, <1>8, StrictlyOrdered
  <1>11. Rank[s[k]] < Rank[s[i]]
    BY <1>4, <1>9, StrictlyOrdered
  <1> QED BY <1>0, <1>4, <1>6, <1>7, <1>10, <1>11

\* No valid list of the same observables is longer than another.
LEMMA ListsAsLong ==
    ASSUME NEW d, NEW e, NEW s \in Seq(DOMAIN Rank), NEW t \in Seq(DOMAIN Rank),
           ObservablesValid(d, s), ObservablesValid(e, t),
           {s[i] : i \in DOMAIN s} = {t[i] : i \in DOMAIN t}
    PROVE  Len(s) <= Len(t)
  <1>0. /\ Len(s) \in Nat /\ DOMAIN s = 1 .. Len(s)
        /\ Len(t) \in Nat /\ DOMAIN t = 1 .. Len(t)
    OBVIOUS
  <1> SUFFICES ASSUME Len(t) < Len(s) PROVE FALSE
    BY <1>0
  <1>1. Len(t) + 1 \in DOMAIN s /\ Len(t) + 1 \notin DOMAIN t
    BY <1>0
  <1>2. PICK k \in DOMAIN t : s[Len(t) + 1] = t[k]
    BY <1>1
  <1>3. k \in DOMAIN s /\ k # Len(t) + 1
    BY <1>0, <1>1
  <1>4. s[k] = t[k]
    BY <1>3, ListsAgree
  <1>5. \A i, j \in DOMAIN s : i # j => s[i] # s[j]
    BY DEF ObservablesValid
  <1> QED BY <1>1, <1>2, <1>3, <1>4, <1>5

\* Two bundle wires that parse and list the same observables are one wire.
LEMMA OneSpelling ==
    ASSUME NEW q \in Reports, NEW r \in Reports,
           ParsesBundle(q.bundle), ParsesBundle(r.bundle),
           q.bundle.value.disclosure = r.bundle.value.disclosure,
           q.bundle.value.scope = r.bundle.value.scope,
           Listed(q.bundle.value) = Listed(r.bundle.value)
    PROVE  q.bundle = r.bundle
  <1> DEFINE b == q.bundle.value
             c == r.bundle.value
             s == b.observables
             t == c.observables
  <1>1. /\ s \in Seq(DOMAIN Rank) /\ t \in Seq(DOMAIN Rank)
        /\ b = [schema |-> b.schema, disclosure |-> b.disclosure, scope |-> b.scope,
                observables |-> s]
        /\ c = [schema |-> c.schema, disclosure |-> c.disclosure, scope |-> c.scope,
                observables |-> t]
    BY BindingAssumption
  <1>2. /\ ObservablesValid(b.disclosure, s) /\ b.schema = 1
        /\ ObservablesValid(c.disclosure, t) /\ c.schema = 1
        /\ q.bundle = Encode(b) /\ r.bundle = Encode(c)
    BY DEF ParsesBundle, BundleFields
  <1>3. {s[i] : i \in DOMAIN s} = {t[i] : i \in DOMAIN t}
    BY DEF Listed
  <1>4. Len(s) <= Len(t) /\ Len(t) <= Len(s)
    BY <1>1, <1>2, <1>3, ListsAsLong
  <1>5. Len(s) = Len(t)
    BY <1>1, <1>4
  <1>6. \A n \in DOMAIN s : n \in DOMAIN t /\ s[n] = t[n]
    <2> SUFFICES ASSUME NEW n \in DOMAIN s PROVE n \in DOMAIN t /\ s[n] = t[n]
      OBVIOUS
    <2>1. n \in DOMAIN t
      BY <1>1, <1>5
    <2> QED BY <1>1, <1>2, <1>3, <2>1, ListsAgree
  <1>7. s = t
    BY <1>1, <1>5, <1>6
  <1>8. b = c
    BY <1>1, <1>2, <1>7
  <1> QED BY <1>2, <1>8

\* What a report that passes the preflight says of itself.
LEMMA PreflightShows ==
    ASSUME NEW r, NEW m, NEW nonce, NEW t, Preflights(r, m, Policy, nonce, t)
    PROVE  LET statement == r.envelope.value.statement.value
               approval  == r.approval.value
               bundle    == r.bundle.value
           IN  /\ ParsesEnvelope(r.envelope, Policy.network)
               /\ ParsesBundle(r.bundle)
               /\ ApprovalShape(r.approval)
               /\ r.envelope = Encode(r.envelope.value)
               /\ m.value.network = Policy.network /\ statement.network = Policy.network
               /\ statement.nonce = nonce
               /\ r.envelope.value.digest = <<m.value.domain, statement>>
               /\ statement.commitment = approval.commitment
               /\ approval.commitment = <<"bundle", Policy.network, nonce, bundle>>
               /\ statement.disclosure = bundle.disclosure
               /\ approval.network = Policy.network
               /\ approval.signature = Signature(Policy.approver, approval)
               /\ approval.not_before <= t /\ t <= approval.expires_at
  <1> DEFINE statement == r.envelope.value.statement.value
             approval == r.approval.value
             bundle == r.bundle.value
  <1>1. /\ Binds(r.envelope, m, Policy.network, Policy.anchor)
        /\ statement.disclosure = ReviewRequired
        /\ statement.nonce = nonce
        /\ ParsesBundle(r.bundle) /\ bundle.disclosure = ReviewRequired
        /\ Commitment(bundle, Policy.network, nonce) = statement.commitment
        /\ VerifiesApproval(r.approval, r.bundle, Context(nonce, Policy, t))
    BY DEF Preflights
  <1>2. /\ ParsesManifest(m, Policy.network) /\ ParsesEnvelope(r.envelope, Policy.network)
        /\ DeclaredDigest(m.value, statement) = r.envelope.value.digest
    BY <1>1 DEF Binds
  <1>3. m.value.network = Policy.network
    BY <1>2 DEF ParsesManifest
  <1>4. statement.network = Policy.network
    BY <1>2 DEF ParsesEnvelope, ParsesStatement
  <1>5. r.envelope = Encode(r.envelope.value)
    BY <1>2 DEF ParsesEnvelope, EnvelopeIntact, ParsedEnvelope
  <1>6. /\ Decodes(r.approval) /\ Encode(approval) = r.approval
        /\ approval.schema = 1 /\ approval.purpose = Pins.purpose
        /\ ApprovalLifetime(approval)
        /\ approval.network = Policy.network
        /\ approval.approver = Policy.approver
        /\ approval.commitment = Commitment(bundle, Policy.network, nonce)
        /\ approval.signature = Signature(approval.approver, approval)
        /\ t \in approval.not_before .. approval.expires_at
    BY <1>1 DEF VerifiesApproval, Context
  <1>7. approval.not_before <= t /\ t <= approval.expires_at
    BY <1>6, WireAssumption DEF ApprovalLifetime
  <1>8. ApprovalShape(r.approval)
    BY <1>6 DEF ApprovalShape
  <1>9. r.envelope.value.digest = <<m.value.domain, statement>>
    BY <1>2 DEF DeclaredDigest
  <1>10. /\ statement.commitment = approval.commitment
         /\ approval.commitment = <<"bundle", Policy.network, nonce, bundle>>
    BY <1>1, <1>6 DEF Commitment
  <1>11. approval.signature = Signature(Policy.approver, approval)
    BY <1>6
  <1> HIDE DEF statement, approval, bundle
  <1>12. /\ ParsesEnvelope(r.envelope, Policy.network)
         /\ ParsesBundle(r.bundle)
         /\ ApprovalShape(r.approval)
         /\ r.envelope = Encode(r.envelope.value)
         /\ m.value.network = Policy.network /\ statement.network = Policy.network
         /\ statement.nonce = nonce
         /\ r.envelope.value.digest = <<m.value.domain, statement>>
         /\ statement.commitment = approval.commitment
         /\ approval.commitment = <<"bundle", Policy.network, nonce, bundle>>
         /\ statement.disclosure = bundle.disclosure
         /\ approval.network = Policy.network
         /\ approval.signature = Signature(Policy.approver, approval)
         /\ approval.not_before <= t /\ t <= approval.expires_at
    BY <1>1, <1>2, <1>3, <1>4, <1>5, <1>6, <1>7, <1>8, <1>9, <1>10, <1>11
  <1> QED BY <1>12 DEF statement, approval, bundle

\* A binding keeps the wires it was made from, beside objects that may change.
BindingInv ==
    /\ report \in Reports
    /\ binding # None =>
           /\ binding = [envelope |-> binding.envelope, manifest |-> binding.manifest,
                         snapshot |-> binding.snapshot]
           /\ binding.snapshot = Snapshot(report.envelope, manifest_file, Policy.network)
           /\ report.envelope = Encode(report.envelope.value)
           /\ manifest_file = Encode(manifest_file.value)
    /\ ReadIsBound

\* What a derived read returns is what was bound, though any nested object was
\* replaced or changed between the binding and the read.
THEOREM BindingInvariant == BindingSpec => []BindingInv
  <1>1. BindingInit => BindingInv
    BY DEF BindingInit, BindingInv, ReadIsBound
  <1>2. BindingInv /\ [BindingNext]_bindingVars => BindingInv'
    <2> SUFFICES ASSUME BindingInv, [BindingNext]_bindingVars PROVE BindingInv'
      OBVIOUS
    <2>1. CASE UNCHANGED bindingVars
      BY <2>1 DEF bindingVars, BindingInv, ReadIsBound
    <2>2. CASE Bind
      <3>1. /\ ParsesManifest(manifest_file, Policy.network)
            /\ ParsesEnvelope(report.envelope, Policy.network)
        BY <2>2 DEF Bind, Binds
      <3>2. report.envelope = Encode(report.envelope.value)
        BY <3>1 DEF ParsesEnvelope, EnvelopeIntact, ParsedEnvelope
      <3>3. manifest_file = Encode(manifest_file.value)
        BY <3>1 DEF ParsesManifest, ManifestIntact, Parsed
      <3>4. /\ binding' = [envelope |-> ParsedEnvelope(report.envelope),
                           manifest |-> Parsed(manifest_file),
                           snapshot |-> Snapshot(report.envelope, manifest_file, Policy.network)]
            /\ UNCHANGED <<report, manifest_file, now, read>>
        BY <2>2 DEF Bind
      <3>5. ReadIsBound'
        BY <3>4 DEF BindingInv, ReadIsBound
      <3> QED BY <3>2, <3>3, <3>4, <3>5 DEF BindingInv
    <2>3. CASE Tamper
      <3>1. binding # None /\ UNCHANGED <<report, manifest_file, now, read>>
        BY <2>3 DEF Tamper
      <3> DEFINE Kept(b) == /\ b = [envelope |-> b.envelope, manifest |-> b.manifest,
                                    snapshot |-> b.snapshot]
                            /\ b.snapshot = binding.snapshot
      <3>2. Kept(binding')
        <4>1. ASSUME NEW v, binding' = [binding EXCEPT !.envelope = v] PROVE Kept(binding')
          BY <3>1, <4>1 DEF BindingInv
        <4>2. ASSUME NEW v, binding' = [binding EXCEPT !.manifest = v] PROVE Kept(binding')
          BY <3>1, <4>2 DEF BindingInv
        <4> QED BY <2>3, <4>1, <4>2 DEF Tamper
      <3>3. ReadIsBound'
        BY <3>1 DEF BindingInv, ReadIsBound
      <3> QED BY <3>1, <3>2, <3>3 DEF BindingInv
    <2>4. CASE ReadDerived
      <3>1. /\ binding # None /\ BindingIntact(binding)
            /\ UNCHANGED <<report, manifest_file, now, binding>>
            /\ read' = [got |-> binding.snapshot,
                        envelope |-> Encode(binding.envelope.value),
                        statement |-> binding.envelope.statement.value,
                        manifest |-> Encode(binding.manifest.value)]
        BY <2>4 DEF ReadDerived
      <3>2. /\ binding.snapshot = Snapshot(report.envelope, manifest_file, Policy.network)
            /\ report.envelope = Encode(report.envelope.value)
        BY <3>1 DEF BindingInv
      <3>3. /\ Encode(binding.manifest.value) = manifest_file
            /\ Encode(binding.envelope.value) = report.envelope
            /\ EnvelopeIntact(binding.envelope)
        BY <3>1, <3>2 DEF BindingIntact, Snapshot
      <3>4. binding.envelope.value = report.envelope.value
        BY <3>2, <3>3 DEF Encode
      <3>5. binding.envelope.statement.value = report.envelope.value.statement.value
        BY <3>3, <3>4 DEF EnvelopeIntact, Encode
      <3>6. binding.snapshot.digest
              = <<manifest_file.value.domain, report.envelope.value.statement.value>>
        BY <3>2 DEF Snapshot, DeclaredDigest
      <3>7. binding.snapshot.envelope = report.envelope
            /\ binding.snapshot.manifest = manifest_file
        BY <3>2 DEF Snapshot
      <3>8. ReadIsBound'
        BY <3>1, <3>3, <3>5, <3>6, <3>7 DEF ReadIsBound
      <3> QED BY <3>1, <3>8 DEF BindingInv
    <2> QED BY <2>1, <2>2, <2>3, <2>4 DEF BindingNext
  <1> QED BY <1>1, <1>2, PTL DEF BindingSpec

\* What every reader takes for one report is one report, for any candidate reports
\* and any tampering; the spelling is unique by the least counterexample.
THEOREM BindingReportIsOne == BindingSpec => []ReportIsOne
  <1>1. BindingInv => ReportIsOne
    <2> SUFFICES ASSUME BindingInv PROVE ReportIsOne
      OBVIOUS
    <2>1. PreflightAgrees
      BY PreflightShows DEF PreflightAgrees
    <2>2. TransportLetsThrough
      <3> SUFFICES ASSUME Preflights(report, manifest_file, Policy, SessionNonce, now),
                          report.nonce = SessionNonce
                   PROVE  ParsesTransport(Encode(report), Policy.network)
        BY DEF TransportLetsThrough
      <3>1. /\ ParsesEnvelope(report.envelope, Policy.network)
            /\ ParsesBundle(report.bundle) /\ ApprovalShape(report.approval)
            /\ report.envelope.value.statement.value.nonce = report.nonce
        BY PreflightShows
      <3>2. Encode(report).value = report /\ Encode(report).enc = "canonical"
        BY DEF Encode
      <3> QED BY <3>1, <3>2 DEF ParsesTransport, Decodes
    <2>3. BundleHasOneSpelling
      BY OneSpelling DEF BundleHasOneSpelling, BindingInv, Bundles
    <2> QED BY <2>1, <2>2, <2>3 DEF ReportIsOne, BindingInv
  <1> QED BY <1>1, BindingInvariant, PTL
=============================================================================
