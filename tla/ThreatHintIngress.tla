---------------------------- MODULE ThreatHintIngress ----------------------------
(***************************************************************************)
(* ThreatHintIngressServer and ThreatHintIngress.process of                *)
(* jaeger/threat_hint_ingress.py over the ledger of ThreatHintLedger, with *)
(* the lifecycle of jaeger/threat_hint_service.py.                         *)
(*                                                                         *)
(* Each connection is served by a handler that hands its permit to a       *)
(* worker task.  The worker reads the clock once, then awaits the verifier *)
(* and the ledger in threads; the handler stops waiting after the I/O      *)
(* timeout but the worker goes on.  The process may be stopped, in which   *)
(* case a thread inside admit still commits, or crash, in which case it    *)
(* does not.                                                               *)
(***************************************************************************)
EXTENDS ThreatHintLedger

CONSTANTS
    Conns,            \* connections that can be open at once
    MaxConnections,   \* max_connections: permits of the server
    Canonical,        \* wires from_wire parses with proof_system groth16_kip16_v1
    ProofNetworks,    \* [Hints -> SUBSET Networks]: where the proof verifies
    ClockMayStepBack  \* whether the host clock can be set back

ASSUME IngressAssumption ==
    /\ Hints # {} /\ IsFiniteSet(Conns)
    /\ MaxConnections \in Nat \ {0}
    /\ Canonical \subseteq Hints
    /\ ProofNetworks \in [Hints -> SUBSET Networks]
    /\ ClockMayStepBack \in BOOLEAN

VARIABLES
    clock,            \* the host clock now_seconds() reads
    up,               \* whether the service accepts connections
    network,          \* network_id of the running service's proof context
    active,           \* _active: permits in use
    conn,             \* [Conns -> one connection with its worker]
    acked             \* history: hints some submitter was told "accepted" for

serverVars == <<clock, up, network, active, conn, acked>>
ingressVars == <<ledgerVars, serverVars>>

Statuses == {"accepted", "duplicate", "rejected", "busy"}

\* In the threads of to_thread, which a cancelled task cannot stop.
InLedger == {"admitting", "lookup"}

Connections ==
    [pc : {"closed", "reading", "verifying", "replying"} \cup InLedger,
     hint : Hints, now : Nat, net : Networks,
     permit : BOOLEAN, attended : BOOLEAN, ack : Statuses]

\* Which hint a closed slot served last is of no consequence.
Closed ==
    [pc |-> "closed", hint |-> CHOOSE h \in Hints : TRUE, now |-> 0,
     net |-> CHOOSE n \in Networks : TRUE,
     permit |-> FALSE, attended |-> FALSE, ack |-> "busy"]

IngressInit ==
    /\ LedgerInit
    /\ clock = 1
    /\ up = TRUE
    /\ network \in Networks
    /\ active = 0
    /\ conn = [c \in Conns |-> Closed]
    /\ acked = {}

\* CanonicalThreatHint.from_wire accepts the wire, with the real proof system.
Parses(h) == h \in Canonical

\* The verdict of the pinned verifier binary for a hint in a proof context.
Verifies(h, net) == net \in ProofNetworks[h]

-----------------------------------------------------------------------------
(* The handler *)

Connect(c, h) ==
    /\ up
    /\ conn[c].pc = "closed"
    /\ active < MaxConnections
    /\ active' = active + 1
    /\ conn' = [conn EXCEPT ![c].pc = "reading", ![c].hint = h, ![c].net = network,
                            ![c].permit = TRUE, ![c].attended = TRUE]
    /\ UNCHANGED <<ledgerVars, clock, up, network, acked>>

\* No permit left: the handler answers busy without reading the frame.
ConnectRefused ==
    /\ up
    /\ active >= MaxConnections
    /\ UNCHANGED ingressVars

\* Timeout, short read or a frame size out of bounds: the permit goes back.
ReadFails(c) ==
    /\ conn[c].pc = "reading"
    /\ active' = active - 1
    /\ conn' = [conn EXCEPT ![c] = Closed]
    /\ UNCHANGED <<ledgerVars, clock, up, network, acked>>

\* Mutant: the permit is returned by the handler, which may be gone by then.
WorkerReturnsLeaky(c, status) ==
    /\ active' = IF conn[c].attended THEN active - 1 ELSE active
    /\ conn' = [conn EXCEPT ![c] =
                   IF @.attended THEN [@ EXCEPT !.pc = "replying", !.permit = FALSE, !.ack = status]
                                 ELSE Closed]

\* The worker ends with a status: its finally returns the permit, and only a handler
\* that still waits gets the status.  An orphan of a stopped server holds no permit.
WorkerReturns(c, status) ==
    /\ active' = IF conn[c].permit THEN active - 1 ELSE active
    /\ conn' = [conn EXCEPT ![c] =
                   IF @.attended THEN [@ EXCEPT !.pc = "replying", !.permit = FALSE, !.ack = status]
                                 ELSE Closed]

\* io_timeout_seconds pass while the worker is busy: the shielded worker goes on.
HandlerTimeout(c) ==
    /\ conn[c].pc \in {"verifying"} \cup InLedger
    /\ conn[c].attended
    /\ conn' = [conn EXCEPT ![c].attended = FALSE]
    /\ UNCHANGED <<ledgerVars, clock, up, network, active, acked>>

Reply(c) ==
    /\ conn[c].pc = "replying"
    /\ acked' = IF conn[c].ack = "accepted" THEN acked \cup {conn[c].hint} ELSE acked
    /\ conn' = [conn EXCEPT ![c] = Closed]
    /\ UNCHANGED <<ledgerVars, clock, up, network, active>>

\* The write times out or the peer is gone.
ReplyLost(c) ==
    /\ conn[c].pc = "replying"
    /\ conn' = [conn EXCEPT ![c] = Closed]
    /\ UNCHANGED <<ledgerVars, clock, up, network, active, acked>>

-----------------------------------------------------------------------------
(* The worker: ThreatHintIngress.process *)

\* The frame is complete: the worker reads the clock and applies the cheap gates.
Receive(c) ==
    LET h == conn[c].hint IN
    /\ conn[c].pc = "reading"
    /\ \/ /\ Parses(h) /\ IsFresh(h, clock)
          /\ conn' = [conn EXCEPT ![c].pc = "verifying", ![c].now = clock]
          /\ UNCHANGED active
       \/ /\ ~ (Parses(h) /\ IsFresh(h, clock))
          /\ WorkerReturns(c, "rejected")
    /\ UNCHANGED <<ledgerVars, clock, up, network, acked>>

\* The verifier answers for the worker's own proof context.
ProofVerified(c) ==
    /\ conn[c].pc = "verifying"
    /\ Verifies(conn[c].hint, conn[c].net)
    /\ conn' = [conn EXCEPT ![c].pc = "admitting"]
    /\ UNCHANGED <<ledgerVars, clock, up, network, active, acked>>

ProofRefused(c) ==
    /\ conn[c].pc = "verifying"
    /\ ~ Verifies(conn[c].hint, conn[c].net)
    /\ WorkerReturns(c, "rejected")
    /\ UNCHANGED <<ledgerVars, clock, up, network, acked>>

\* ThreatProofVerifierUnavailable (also its timeout): fail closed.
VerifierUnavailable(c) ==
    /\ conn[c].pc = "verifying"
    /\ WorkerReturns(c, "busy")
    /\ UNCHANGED <<ledgerVars, clock, up, network, acked>>

\* Mutant: the job is labelled with the network the service has now.
AdmitUnderConfig(c) ==
    /\ conn[c].pc = "admitting"
    /\ AdmitCommit(conn[c].hint, conn[c].now, network)
    /\ WorkerReturns(c, "accepted")
    /\ UNCHANGED <<clock, up, network, acked>>

\* admit commits with the clock value read before the verifier ran.
Admit(c) ==
    /\ conn[c].pc = "admitting"
    /\ AdmitCommit(conn[c].hint, conn[c].now, conn[c].net)
    /\ WorkerReturns(c, "accepted")
    /\ UNCHANGED <<clock, up, network, acked>>

\* _advance_time raises ThreatHintReplayError: everything is rolled back.
AdmitClockBehind(c) ==
    /\ conn[c].pc = "admitting"
    /\ ClockBehind(conn[c].now)
    /\ WorkerReturns(c, "rejected")
    /\ UNCHANGED <<ledgerVars, clock, up, network, acked>>

\* Mutant: every IntegrityError is called a duplicate.
ConflictIsDuplicate(c) ==
    /\ conn[c].pc = "admitting"
    /\ ~ ClockBehind(conn[c].now)
    /\ KeyTaken(conn[c].hint, conn[c].now)
    /\ WorkerReturns(c, "duplicate")
    /\ UNCHANGED <<ledgerVars, clock, up, network, acked>>

\* IntegrityError: the transaction is rolled back and a second connection opened.
AdmitConflict(c) ==
    /\ conn[c].pc = "admitting"
    /\ ~ ClockBehind(conn[c].now)
    /\ KeyTaken(conn[c].hint, conn[c].now)
    /\ conn' = [conn EXCEPT ![c].pc = "lookup"]
    /\ UNCHANGED <<ledgerVars, clock, up, network, active, acked>>

\* Mutant: a retry of an admitted hint is acknowledged as accepted.
LookupIdempotent(c) ==
    /\ conn[c].pc = "lookup"
    /\ WorkerReturns(c, IF conn[c].hint \in admissions THEN "accepted" ELSE "rejected")
    /\ UNCHANGED <<ledgerVars, clock, up, network, acked>>

\* Outside any transaction: another admit may have pruned the row in between.
Lookup(c) ==
    /\ conn[c].pc = "lookup"
    /\ WorkerReturns(c, IF conn[c].hint \in admissions THEN "duplicate" ELSE "rejected")
    /\ UNCHANGED <<ledgerVars, clock, up, network, acked>>

\* sqlite3.OperationalError (the 0.25 s lock wait is over) in either transaction.
LedgerBusy(c) ==
    /\ conn[c].pc \in InLedger
    /\ WorkerReturns(c, "busy")
    /\ UNCHANGED <<ledgerVars, clock, up, network, acked>>

-----------------------------------------------------------------------------
(* The service and its host *)

\* SIGTERM: close() stops accepting and cancels the workers; asyncio.run still waits
\* for the threads that are inside admit, whose status nobody reads.
Stop ==
    /\ up
    /\ up' = FALSE
    /\ active' = 0
    /\ conn' = [c \in Conns |->
                   IF conn[c].pc \in InLedger
                   THEN [conn[c] EXCEPT !.permit = FALSE, !.attended = FALSE]
                   ELSE Closed]
    /\ UNCHANGED <<ledgerVars, clock, network, acked>>

\* The process dies: open transactions are rolled back, the file stays.
Crash ==
    /\ up' = FALSE
    /\ active' = 0
    /\ conn' = [c \in Conns |-> Closed]
    /\ UNCHANGED <<ledgerVars, clock, network, acked>>

\* build_service over the same ledger file, perhaps with another network_id.
Start ==
    /\ ~ up
    /\ up' = TRUE
    /\ network' \in Networks
    /\ UNCHANGED <<ledgerVars, clock, active, conn, acked>>

Tick ==
    /\ clock + 1 \in Times
    /\ clock' = clock + 1
    /\ UNCHANGED <<ledgerVars, up, network, active, conn, acked>>

StepBack ==
    /\ ClockMayStepBack
    /\ \E t \in Times : t < clock /\ clock' = t
    /\ UNCHANGED <<ledgerVars, up, network, active, conn, acked>>

\* The analyzer adapter, a process of its own over the same file, reduced to what
\* the ledger sees of it.
Deliver ==
    /\ \E h \in Undelivered : clock >= admitted_at[h] /\ MarkDelivered(h, clock)
    /\ UNCHANGED serverVars

HandlerNext(c) ==
    \/ \E h \in Hints : Connect(c, h)
    \/ ReadFails(c) \/ HandlerTimeout(c) \/ Reply(c) \/ ReplyLost(c)

WorkerNext(c) ==
    \/ Receive(c)
    \/ ProofVerified(c) \/ ProofRefused(c) \/ VerifierUnavailable(c)
    \/ Admit(c) \/ AdmitClockBehind(c) \/ AdmitConflict(c)
    \/ Lookup(c) \/ LedgerBusy(c)

HostNext == Stop \/ Crash \/ Start \/ Tick \/ StepBack

IngressNext ==
    HostNext \/ Deliver \/ ConnectRefused \/ \E c \in Conns : HandlerNext(c) \/ WorkerNext(c)

IngressSpec == IngressInit /\ [][IngressNext]_ingressVars

-----------------------------------------------------------------------------
(* Properties *)

IngressTypeOK ==
    /\ LedgerTypeOK
    /\ clock \in Nat
    /\ up \in BOOLEAN
    /\ network \in Networks
    /\ active \in Nat
    /\ conn \in [Conns -> Connections]
    /\ acked \in SUBSET Hints

\* What a submitter is told is durable: before "accepted" or "duplicate" is sent the
\* hint was committed with its job, in spite of timeouts, lost replies, stops and crashes.
AckIsDurable ==
    \A c \in Conns :
        conn[c].pc = "replying" /\ conn[c].ack \in {"accepted", "duplicate"}
            => conn[c].hint \in accepted

\* "accepted" is said once per hint, over all connections, retries, restarts and
\* prunes: at most one submitter may count the hint as new.
AcceptedSaidOnce ==
    \A c \in Conns : conn[c].pc = "replying" /\ conn[c].ack = "accepted" =>
        /\ conn[c].hint \notin acked
        /\ \A d \in Conns \ {c} : ~ /\ conn[d].pc = "replying"
                                    /\ conn[d].ack = "accepted"
                                    /\ conn[d].hint = conn[c].hint

\* The job of a hint carries the network its proof was verified for, also when the
\* service was restarted for another network while a thread was inside admit.
JobNetworkProved ==
    \A h \in accepted : Parses(h) /\ Verifies(h, network_of[h])

\* _active counts exactly the permits held by handlers and workers, through handler
\* timeouts, refused hints and restarts, so that the server neither leaks permits
\* until it answers busy for ever nor serves more than max_connections.
PermitsBalanced ==
    /\ active = Cardinality({c \in Conns : conn[c].permit})
    /\ active <= MaxConnections

\* The error text of _advance_time: a ledger that reports a clock rollback has a
\* clock that is behind its high-water time.
RollbackIsRollback ==
    \A c \in Conns :
        conn[c].pc = "admitting" /\ ClockBehind(conn[c].now) => clock < high_water

================================================================================
