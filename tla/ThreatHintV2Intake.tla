--------------------------- MODULE ThreatHintV2Intake ---------------------------
(***************************************************************************)
(* From the v2 ingress socket to the durable outbox:                       *)
(* threat_hint_v2_ingress.py, threat_hint_v2_promotion.py,                 *)
(* threat_hint_v2_acceptance.py and threat_hint_v2_verified_preflight.py,  *)
(* over the wires of ThreatHintV2Wire and the ledger of ObservableOutbox.  *)
(*                                                                         *)
(* A connection has a task of the event loop, which close cancels, and a   *)
(* thread of the executor, which nothing cancels once it runs.  Threads    *)
(* share the sessions, the clock, the manifest file, the verifier lock and *)
(* the ledger; each step of a thread reads or writes one of them.  Reports *)
(* stand for the approvals of ObservableOutbox: two reports that carry one *)
(* approval share its NonceOf.                                             *)
(***************************************************************************)
EXTENDS ObservableOutbox, ThreatHintV2Wire

CONSTANTS
    Conns,            \* connection slots
    Content,          \* [Approvals -> transport wire]
    ProofValid,       \* reports whose Groth16 proof verifies
    Promotion,        \* promotion policy: platform, format, kinds, max
    Served,           \* the governance binding this service was built with
    Nonces,           \* report nonces a session may have
    NoReport,         \* a thread without a report
    MaxConnections,   \* max_connections
    FirstTime,        \* the clock when the service is built
    MaxClock,         \* bound: the clock
    MaxStarts         \* bound: starts of the server

ASSUME IntakeAssumption ==
    /\ Served \in Durable
    /\ IsFiniteSet(Conns)
    /\ MaxConnections \in Nat \ {0}
    /\ FirstTime \in Nat \ {0} /\ MaxClock \in Nat /\ FirstTime <= MaxClock

VARIABLES
    task,             \* [Conns -> state of _serve_connection]
    thread,           \* [Conns -> [pc, report, now]]: ingress.process in the executor
    reply,            \* [Conns -> status computed, not yet written]
    active,           \* _active
    leaked,           \* history: permits of tasks cancelled before their try
    listener,         \* _listener is not None
    executor,         \* _executor: 0 or the start it belongs to
    path,             \* the socket at the path: 0 or the start that bound it
    identity,         \* _socket_identity
    closing,          \* where close is: "no", "gather", "shutdown"
    starts,           \* starts so far
    lock,             \* holders of _verifier_lock
    sessions,         \* active sessions, by nonce
    manifest,         \* the relation manifest file
    clock,            \* the trusted clock
    accepts,          \* history: [Approvals -> replies "accepted" computed]
    opened            \* history: nonces that have had a session

serverVars == <<active, leaked, listener, executor, path, identity, closing, starts>>
worldVars == <<sessions, opened, manifest, clock>>
callVars == <<task, thread, reply, lock, accepts>>
intakeVars == <<outboxVars, callVars, serverVars, worldVars>>

Idle == [pc |-> "none", report |-> NoReport, now |-> 0, gen |-> 0]

IntakeInit ==
    /\ OutboxInit
    /\ task = [c \in Conns |-> "none"]
    /\ thread = [c \in Conns |-> Idle]
    /\ reply = [c \in Conns |-> "none"]
    /\ active = 0
    /\ leaked = 0
    /\ listener = FALSE
    /\ executor = 0
    /\ path = 0
    /\ identity = 0
    /\ closing = "no"
    /\ starts = 0
    /\ lock = {}
    /\ sessions \in SUBSET Nonces
    /\ manifest \in Manifests
    /\ clock = FirstTime
    /\ accepts = [a \in Approvals |-> 0]
    /\ opened = sessions

-----------------------------------------------------------------------------
(* ThreatHintV2IngressServer *)

\* start: the path is free.  A close that still waits for its executor has
\* already forgotten it, so the check for a stopping server lets start pass.
Start ==
    /\ starts < MaxStarts
    /\ ~ listener /\ executor = 0
    /\ path = 0
    /\ starts' = starts + 1
    /\ executor' = starts'
    /\ path' = starts'
    /\ identity' = starts'
    /\ listener' = TRUE
    /\ UNCHANGED <<outboxVars, callVars, active, leaked, closing, worldVars>>

\* start: bind fails on the path of an earlier start.  The handler unlinks the
\* socket it still has the identity of.
StartFails ==
    /\ ~ listener /\ executor = 0
    /\ path # 0
    /\ path' = IF path = identity THEN 0 ELSE path
    /\ identity' = 0
    /\ UNCHANGED <<outboxVars, callVars, active, leaked, listener, executor, closing, starts, worldVars>>

\* close: stop accepting and cancel the connection tasks.
CloseBegin ==
    /\ closing = "no"
    /\ listener
    /\ listener' = FALSE
    /\ closing' = "gather"
    /\ UNCHANGED <<outboxVars, callVars, active, leaked, executor, path, identity, starts, worldVars>>

\* A cancelled task ends; a future not yet started goes with it, a running one
\* stays.  The permit is released in the finally of the try that begins once the
\* connection is open: a task cancelled before that takes its permit with it.
TaskCancelled(c) ==
    /\ closing = "gather"
    /\ task[c] # "none"
    /\ task' = [task EXCEPT ![c] = "none"]
    /\ IF task[c] = "opening"
       THEN leaked' = leaked + 1 /\ UNCHANGED active
       ELSE active' = active - 1 /\ UNCHANGED leaked
    /\ thread' = IF thread[c].pc = "queued" THEN [thread EXCEPT ![c] = Idle] ELSE thread
    /\ reply' = [reply EXCEPT ![c] = "none"]
    /\ UNCHANGED <<outboxVars, lock, accepts, listener, executor, path, identity,
                   closing, starts, worldVars>>

\* close: every task has ended, the executor is taken and shut down.
CloseGathered ==
    /\ closing = "gather"
    /\ \A c \in Conns : task[c] = "none"
    /\ executor' = 0
    /\ closing' = "shutdown"
    /\ UNCHANGED <<outboxVars, callVars, active, leaked, listener, path, identity, starts, worldVars>>

\* Mutant: shutdown does not wait for the running calls.
CloseAtOnce ==
    /\ closing = "shutdown"
    /\ path' = IF path = identity THEN 0 ELSE path
    /\ identity' = 0
    /\ closing' = "no"
    /\ UNCHANGED <<outboxVars, callVars, active, leaked, listener, executor, starts, worldVars>>

\* close: shutdown has waited for the running calls; the owned socket is unlinked.
CloseReturns ==
    /\ closing = "shutdown"
    /\ \A c \in Conns : thread[c].gen \in {0, executor}
    /\ path' = IF path = identity THEN 0 ELSE path
    /\ identity' = 0
    /\ closing' = "no"
    /\ UNCHANGED <<outboxVars, callVars, active, leaked, listener, executor, starts, worldVars>>

\* _accept_loop admits a connection, or answers busy.
Admit(c) ==
    /\ listener
    /\ task[c] = "none" /\ thread[c] = Idle
    /\ active < MaxConnections
    /\ active' = active + 1
    /\ task' = [task EXCEPT ![c] = "opening"]
    /\ UNCHANGED <<outboxVars, thread, reply, lock, accepts, leaked, listener, executor,
                   path, identity, closing, starts, worldVars>>

\* open_unix_connection returns and the task enters its try.
OpenConnection(c) ==
    /\ task[c] = "opening"
    /\ closing # "gather"
    /\ task' = [task EXCEPT ![c] = "reading"]
    /\ UNCHANGED <<outboxVars, thread, reply, lock, accepts, serverVars, worldVars>>

Finish(c) ==
    /\ task' = [task EXCEPT ![c] = "none"]
    /\ active' = active - 1

\* The connection cannot be opened, a read times out, the peer leaves, or the
\* frame is empty or too large.
ReadFails(c) ==
    /\ task[c] \in {"opening", "reading"}
    /\ Finish(c)
    /\ UNCHANGED <<outboxVars, thread, reply, lock, accepts, leaked, listener, executor,
                   path, identity, closing, starts, worldVars>>

\* The whole frame is read and handed to the executor.
Submit(c, a) ==
    /\ task[c] = "reading"
    /\ closing # "gather"
    /\ task' = [task EXCEPT ![c] = "waiting"]
    /\ thread' = [thread EXCEPT ![c] =
                      [pc |-> "queued", report |-> a, now |-> 0, gen |-> executor]]
    /\ UNCHANGED <<outboxVars, reply, lock, accepts, serverVars, worldVars>>

\* The acknowledgement is written, or the write times out and it is lost.
WriteAck(c) ==
    /\ task[c] = "waiting"
    /\ reply[c] # "none"
    /\ Finish(c)
    /\ reply' = [reply EXCEPT ![c] = "none"]
    /\ UNCHANGED <<outboxVars, thread, lock, accepts, leaked, listener, executor, path,
                   identity, closing, starts, worldVars>>

-----------------------------------------------------------------------------
(* ThreatHintV2Ingress.process *)

At(c, pc) == thread[c].pc = pc

Report(c) == Content[thread[c].report].value

Goto(c, pc) == thread' = [thread EXCEPT ![c].pc = pc]

\* process returns; a task that was cancelled no longer waits for the status.
Return(c, status) ==
    /\ thread' = [thread EXCEPT ![c] = Idle]
    /\ reply' = IF task[c] = "waiting" THEN [reply EXCEPT ![c] = status] ELSE reply
    /\ accepts' = IF status = "accepted"
                  THEN [accepts EXCEPT ![thread[c].report] = @ + 1] ELSE accepts

\* Gate 1.
ParseTransport(c) ==
    /\ At(c, "queued")
    /\ \/ /\ ParsesTransport(Content[thread[c].report], Policy.network)
          /\ Goto(c, "resolve")
          /\ UNCHANGED <<reply, accepts>>
       \/ /\ ~ ParsesTransport(Content[thread[c].report], Policy.network)
          /\ Return(c, "rejected")
    /\ UNCHANGED <<outboxVars, task, lock, serverVars, worldVars>>

\* Gate 2: the resolver knows the nonce, does not, or fails.
Resolve(c) ==
    /\ At(c, "resolve")
    /\ \/ /\ Report(c).nonce \in sessions
          /\ Goto(c, "clock")
          /\ UNCHANGED <<reply, accepts>>
       \/ Report(c).nonce \notin sessions /\ Return(c, "rejected")
       \/ Return(c, "busy")
    /\ UNCHANGED <<outboxVars, task, lock, serverVars, worldVars>>

\* Gate 3: the clock is read once, before everything that may take time.
ReadClock(c) ==
    /\ At(c, "clock")
    /\ \/ /\ thread' = [thread EXCEPT ![c].pc = "promote", ![c].now = clock]
          /\ UNCHANGED <<reply, accepts>>
       \/ Return(c, "busy")
    /\ UNCHANGED <<outboxVars, task, lock, serverVars, worldVars>>

-----------------------------------------------------------------------------
(* ThreatHintV2PromotionService and ThreatHintV2AcceptanceService *)

\* _promote, steps 1 to 4.
Promotable(b) ==
    /\ b.disclosure = ReviewRequired
    /\ b.scope.platform = Promotion.platform
    /\ b.scope.format = Promotion.format
    /\ \A i \in DOMAIN b.observables : b.observables[i].kind \in Promotion.kinds
    /\ Len(b.observables) <= Promotion.max

ApprovalHolds(c) ==
    VerifiesApproval(Report(c).approval, Report(c).bundle,
                     Context(Report(c).nonce, Policy, thread[c].now))

\* _promote, then precheck_governance with its advisory look at the authority.
Promote(c) ==
    /\ At(c, "promote")
    /\ LET candidate == /\ Promotable(Report(c).bundle.value)
                        /\ ApprovalHolds(c)
                        /\ Verified(thread[c].report, Served, thread[c].now)
       IN  \/ ~ candidate /\ Return(c, "rejected")
           \/ candidate /\ ~ AuthorityAllows(Served) /\ Return(c, "busy")
           \/ /\ candidate /\ AuthorityAllows(Served)
              /\ Goto(c, "preflight")
              /\ UNCHANGED <<reply, accepts>>
    /\ UNCHANGED <<outboxVars, task, lock, serverVars, worldVars>>

\* ThreatHintV2VerifiedPreflightService.preflight up to the lock: the manifest
\* file must be the anchored one, then the data-only preflight decides.
VerifiedPreflight(c) ==
    /\ At(c, "preflight")
    /\ LET passes == Preflights(Report(c), manifest, Policy, Report(c).nonce, thread[c].now)
       IN  \/ Sha256(manifest) # Policy.anchor /\ Return(c, "busy")
           \/ Sha256(manifest) = Policy.anchor /\ ~ passes /\ Return(c, "rejected")
           \/ /\ Sha256(manifest) = Policy.anchor /\ passes
              /\ Goto(c, "lock")
              /\ UNCHANGED <<reply, accepts>>
    /\ UNCHANGED <<outboxVars, task, lock, serverVars, worldVars>>

\* _verifier_lock.acquire(blocking=False).
AcquireVerifier(c) ==
    /\ At(c, "lock")
    /\ \/ /\ lock = {}
          /\ lock' = {c}
          /\ Goto(c, "verify")
          /\ UNCHANGED <<reply, accepts>>
       \/ /\ lock # {}
          /\ Return(c, "busy")
          /\ UNCHANGED lock
    /\ UNCHANGED <<outboxVars, task, serverVars, worldVars>>

\* Mutant: any verdict of the verifier process is taken for a proof.
InvokeVerifierUnread(c) ==
    /\ At(c, "verify")
    /\ lock' = lock \ {c}
    /\ \/ /\ Sha256(manifest) = Policy.anchor
          /\ Goto(c, "consume")
          /\ UNCHANGED <<reply, accepts>>
       \/ Return(c, "busy")
    /\ UNCHANGED <<outboxVars, task, serverVars, worldVars>>

\* _invoke_verifier, which reads the manifest file again: exit 0, exit 1, or no
\* verdict (timeout, kill, other exit, a changed manifest).  The lock is free
\* in every case.
InvokeVerifier(c) ==
    /\ At(c, "verify")
    /\ lock' = lock \ {c}
    /\ \/ /\ thread[c].report \in ProofValid /\ Sha256(manifest) = Policy.anchor
          /\ Goto(c, "consume")
          /\ UNCHANGED <<reply, accepts>>
       \/ /\ thread[c].report \notin ProofValid /\ Sha256(manifest) = Policy.anchor
          /\ Return(c, "rejected")
       \/ Return(c, "busy")
    /\ UNCHANGED <<outboxVars, task, serverVars, worldVars>>

\* accept's last step consumes; the acknowledgement is accepted only then.
ConsumeAccepted(c) ==
    /\ At(c, "consume")
    /\ ConsumeDurable(thread[c].report, Served, thread[c].now)
    /\ Return(c, "accepted")
    /\ UNCHANGED <<task, lock, serverVars, worldVars>>

OutboxHasRoom(t) == Cardinality(OutboxKept(t)) < MaxPending[Served]

\* Mutant: a replay is acknowledged as accepted.
ReplayAccepted(c) ==
    /\ At(c, "consume")
    /\ Replayed(thread[c].report)
    /\ Return(c, "accepted")
    /\ UNCHANGED <<outboxVars, task, lock, serverVars, worldVars>>

\* The transaction fails and leaves the ledger as it was: a time behind the
\* high-water mark and a replay are answered rejected, everything local busy.
ConsumeRefused(c) ==
    LET a == thread[c].report  t == thread[c].now IN
    /\ At(c, "consume")
    /\ \/ ~ AuthorityAllows(Served) /\ Return(c, "busy")
       \/ /\ AuthorityAllows(Served)
          /\ ClockBehind(t) \/ Replayed(a) \/ (OutboxHasRoom(t) /\ PairingTaken(a))
          /\ Return(c, "rejected")
       \/ /\ AuthorityAllows(Served)
          /\ ~ ClockBehind(t) /\ ~ Replayed(a) /\ ~ OutboxHasRoom(t)
          /\ Return(c, "busy")
    /\ UNCHANGED <<outboxVars, task, lock, serverVars, worldVars>>

\* sqlite reports a locked database.
LedgerBusy(c) ==
    /\ At(c, "consume")
    /\ Return(c, "busy")
    /\ UNCHANGED <<outboxVars, task, lock, serverVars, worldVars>>

ThreadStep(c) ==
    \/ ParseTransport(c) \/ Resolve(c) \/ ReadClock(c) \/ Promote(c)
    \/ VerifiedPreflight(c) \/ AcquireVerifier(c) \/ InvokeVerifier(c)
    \/ ConsumeAccepted(c) \/ ConsumeRefused(c) \/ LedgerBusy(c)

-----------------------------------------------------------------------------
(* The surroundings *)

\* The process dies: the ledger and the bound socket stay behind.
Crash ==
    /\ starts < MaxStarts
    /\ executor # 0 \/ closing # "no"
    /\ task' = [c \in Conns |-> "none"]
    /\ thread' = [c \in Conns |-> Idle]
    /\ reply' = [c \in Conns |-> "none"]
    /\ lock' = {}
    /\ active' = 0
    /\ leaked' = 0
    /\ listener' = FALSE
    /\ executor' = 0
    /\ identity' = 0
    /\ closing' = "no"
    /\ UNCHANGED <<outboxVars, accepts, path, starts, worldVars>>

\* The operator removes the socket a crash left behind.
RemoveStaleSocket ==
    /\ path # 0 /\ identity = 0
    /\ path' = 0
    /\ UNCHANGED <<outboxVars, callVars, active, leaked, listener, executor, identity,
                   closing, starts, worldVars>>

OpenOrEndSession(n) ==
    /\ sessions' = (sessions \cup {n}) \ (sessions \cap {n})
    /\ opened' = opened \cup {n}
    /\ UNCHANGED <<outboxVars, callVars, serverVars, manifest, clock>>

ReplaceManifest(m) ==
    /\ manifest' = m
    /\ UNCHANGED <<outboxVars, callVars, serverVars, sessions, opened, clock>>

Tick ==
    /\ clock < MaxClock
    /\ clock' = clock + 1
    /\ UNCHANGED <<outboxVars, callVars, serverVars, sessions, opened, manifest>>

\* A service of another governance binding on the same ledger.
OtherService(a, g) ==
    /\ g # Served
    /\ ConsumeDurable(a, g, clock)
    /\ UNCHANGED <<callVars, serverVars, worldVars>>

IntakeNext ==
    \/ Start \/ StartFails \/ CloseBegin \/ CloseGathered \/ CloseReturns
    \/ Crash \/ RemoveStaleSocket \/ Tick
    \/ \E c \in Conns :
           \/ Admit(c) \/ OpenConnection(c) \/ ReadFails(c) \/ WriteAck(c) \/ TaskCancelled(c) \/ ThreadStep(c)
           \/ \E a \in Approvals : Submit(c, a)
    \/ \E n \in Nonces : OpenOrEndSession(n)
    \/ \E m \in Manifests \ {manifest} : ReplaceManifest(m)
    \/ \E a \in Approvals, g \in Bindings : OtherService(a, g)

IntakeSpec == IntakeInit /\ [][IntakeNext]_intakeVars

-----------------------------------------------------------------------------
(* Properties *)

\* Threads, tasks and permits are of their types, and a reply waits for its task.
IntakeTypeOK ==
    /\ task \in [Conns -> {"none", "opening", "reading", "waiting"}]
    /\ thread \in [Conns -> [pc : {"none", "queued", "resolve", "clock", "promote",
                                   "preflight", "lock", "verify", "consume"},
                             report : Approvals \cup {NoReport}, now : 0 .. MaxClock,
                             gen : 0 .. starts]]
    /\ reply \in [Conns -> {"none", "accepted", "rejected", "busy"}]
    /\ \A c \in Conns : reply[c] # "none" => task[c] = "waiting" /\ thread[c] = Idle
    /\ active = Cardinality({c \in Conns : task[c] # "none"}) + leaked
    /\ leaked \in Nat /\ active <= MaxConnections
    /\ executor \in 0 .. starts /\ path \in 0 .. starts /\ identity \in 0 .. starts
    /\ accepts \in [Approvals -> Nat]

\* Everything a report's wires say agrees: one network, one nonce, one bundle,
\* one statement, approved by the configured approver while time t was valid.
ReportAgrees(p, t) ==
    LET statement == p.envelope.value.statement.value
        approval  == p.approval.value
    IN  /\ statement.network = Policy.network /\ approval.network = Policy.network
        /\ statement.nonce = p.nonce
        /\ statement.commitment = approval.commitment
        /\ statement.commitment = <<"bundle", Policy.network, p.nonce, p.bundle.value>>
        /\ p.envelope.value.digest = StatementDigest(statement)
        /\ approval.signature = Signature(Policy.approver, approval)
        /\ approval.scope = Policy.scope
        /\ approval.not_before <= t /\ t <= approval.expires_at

\* What this service consumed was proved, spoke of one bundle under one approval,
\* met the promotion policy and named a session, whatever the owner, the sessions
\* and other calls did meanwhile: README.md, "failed proof or privacy checks never
\* consume an approval".
ConsumedWasVerified ==
    \A a \in consumptions :
        under[a] = Served =>
            LET p == Content[a].value IN
            /\ a \in ProofValid
            /\ ReportAgrees(p, consumed_at[a])
            /\ p.nonce \in opened
            /\ p.bundle.value.disclosure = ReviewRequired
            /\ \A o \in {p.bundle.value.observables[i] : i \in DOMAIN p.bundle.value.observables} :
                   o.kind \in Promotion.kinds

\* One acceptance per approval, per statement and per bundle, for ever: retries on
\* other connections, lost acknowledgements, crashes and restarts bring no second
\* one, and what was accepted is in the ledger with its record.
AcceptedOnce ==
    \A a \in Approvals :
        accepts[a] > 0 =>
            /\ a \in consumptions /\ a \in pairings
            /\ accepts[a] = 1
            /\ \A b \in Approvals \ {a} :
                   accepts[b] > 0 => /\ NonceOf[a] # NonceOf[b]
                                     /\ StatementOf[a] # StatementOf[b]
                                     /\ CommitmentOf[a] # CommitmentOf[b]

\* _verifier_lock: one verifier process at a time, and no lock left behind.
OneVerifier ==
    /\ lock = {c \in Conns : thread[c].pc = "verify"}
    /\ Cardinality(lock) <= 1

\* close: "Wait for the bounded trusted work to finish before close returns."
\* No task, no call and no socket is left, whoever called start meanwhile; the
\* only permits still counted are those of tasks cancelled before their try.
ClosedIsQuiet ==
    ~ listener /\ closing = "no" =>
        /\ \A c \in Conns : task[c] = "none" /\ thread[c] = Idle
        /\ active = leaked
        /\ identity = 0

\* start: "ThreatHint-v2 ingress is still stopping".  No call of an earlier start
\* runs beside a new one.  It does not hold: see the README.
StartedAfterStopped ==
    listener => \A c \in Conns : thread[c].gen \in {0, executor}

\* _active: a server that has stopped has all its permits back.  It does not hold:
\* see the README.
PermitsComeBack == ~ listener /\ closing = "no" => active = 0

\* guardian-node/README.md: "local unavailability maps to `busy`".  A report that
\* passed every check is rejected only as a replay.
RejectedAsReplay ==
    [][\A c \in Conns :
           At(c, "consume") /\ reply[c] = "none" /\ reply'[c] = "rejected" =>
               Replayed(thread[c].report) \/ PairingTaken(thread[c].report)]_intakeVars

\* The server is in order, whenever start is called: permits match the connections
\* and the cancelled openings, one verifier runs at a time, and once close has
\* returned nothing else of the server is left.
IntakeIsOrderly == IntakeTypeOK /\ OneVerifier /\ ClosedIsQuiet
=============================================================================
