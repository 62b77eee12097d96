---------------------------- MODULE BallotIngress ----------------------------
(***************************************************************************)
(* BallotIngressServer, BallotIngress.process and submit_to_ingress of     *)
(* jaeger/ballot_ingress.py over the ledger of BallotLedger.               *)
(*                                                                         *)
(* A handler takes a permit under _active_lock, reads one frame, and gives *)
(* its permit to a worker task; the worker reads the clock on the event    *)
(* loop and verifies, consumes and looks up in a thread, where it shares   *)
(* nothing with other workers but the registered contexts and the ledger.  *)
(* The handler waits for the I/O timeout and no longer, the worker goes    *)
(* on.  Which sessions may be registered is MembershipAuthority.           *)
(*                                                                         *)
(* Besides ballots a frame may be Unparsable (from_wire refuses it) or     *)
(* Unanswerable (canonical, but with a session id no acknowledgement can   *)
(* carry).                                                                 *)
(***************************************************************************)
EXTENDS BallotLedger

CONSTANTS
    Conns,            \* connections that can be open at once
    MaxConnections,   \* max_connections
    Unparsable,
    Unanswerable,
    ClockMayStepBack, \* whether the host clock can be set back
    MaxTime           \* bound of the clock

ASSUME IngressAssumption ==
    /\ IsFiniteSet(Conns) /\ MaxConnections \in Nat \ {0}
    /\ Unparsable \notin Ballots /\ Unanswerable \notin Ballots
    /\ ClockMayStepBack \in BOOLEAN
    /\ MaxTime \in Nat

Frames == Ballots \union {Unparsable, Unanswerable}

VARIABLES
    clock,        \* the host clock now_ms() reads
    listening,    \* whether the server is started
    contexts,     \* _contexts: registered sessions
    active,       \* _active
    conn,         \* [Conns -> the handler, and the client's view of it]
    worker,       \* [Conns -> the worker task of the connection]
    counted       \* history: frames some client was told "accepted" or "duplicate" for

serverVars == <<clock, listening, contexts, active, conn, worker, counted>>
ingressVars == <<ballotVars, serverVars>>

Idle == [pc |-> "idle"]

IngressInit ==
    /\ BallotInit
    /\ clock = 1
    /\ listening = FALSE
    /\ contexts = {}
    /\ active = 0
    /\ conn = [c \in Conns |-> Idle]
    /\ worker = [c \in Conns |-> Idle]
    /\ counted = {}

---------------------------------------------------------------------------
(* The server. *)

Start ==
    /\ ~listening
    /\ listening' = TRUE
    /\ UNCHANGED <<ballotVars, clock, contexts, active, conn, worker, counted>>

(* close waits for the handlers; workers whose handler gave up go on.      *)
Close ==
    /\ listening
    /\ \A c \in Conns : conn[c] = Idle
    /\ listening' = FALSE
    /\ UNCHANGED <<ballotVars, clock, contexts, active, conn, worker, counted>>

(* The end of establish_session: _register_context.                        *)
RegisterContext(s) ==
    /\ contexts' = contexts \union {s}
    /\ UNCHANGED <<ballotVars, clock, listening, active, conn, worker, counted>>

(* submit_to_ingress connects and writes its frame.                        *)
Submit(c, f) ==
    /\ listening
    /\ conn[c] = Idle /\ worker[c] = Idle
    /\ conn' = [conn EXCEPT ![c] = [pc |-> "connected", frame |-> f]]
    /\ UNCHANGED <<ballotVars, clock, listening, contexts, active, worker, counted>>

Reply(c, status) ==
    [conn EXCEPT ![c] = [pc |-> "reply", frame |-> conn[c].frame, status |-> status]]

HasPermit == active < MaxConnections

(* _handle_connection up to the first read: the permit, or busy.           *)
Admit(c) ==
    /\ conn[c].pc = "connected"
    /\ IF HasPermit
       THEN active' = active + 1 /\ conn' = [conn EXCEPT ![c].pc = "reading"]
       ELSE active' = active /\ conn' = Reply(c, "busy")
    /\ UNCHANGED <<ballotVars, clock, listening, contexts, worker, counted>>

(* The frame was read: the worker task takes the permit over.              *)
ReadFrame(c) ==
    /\ conn[c].pc = "reading"
    /\ conn' = [conn EXCEPT ![c].pc = "waiting"]
    /\ worker' = [worker EXCEPT ![c] = [pc |-> "created", frame |-> conn[c].frame]]
    /\ UNCHANGED <<ballotVars, clock, listening, contexts, active, counted>>

(* A frame size out of range: the refusal is written, without a timeout.   *)
ReadBadSize(c) ==
    /\ conn[c].pc = "reading"
    /\ conn' = [conn EXCEPT ![c].pc = "refusing"]
    /\ UNCHANGED <<ballotVars, clock, listening, contexts, active, worker, counted>>

(* It is written, and the permit returned.                                 *)
WriteRefusal(c) ==
    /\ conn[c].pc = "refusing"
    /\ active' = active - 1
    /\ conn' = Reply(c, "undigested")
    /\ UNCHANGED <<ballotVars, clock, listening, contexts, worker, counted>>

(* Timeout, half a frame or a reset before the worker exists.              *)
ReadFails(c) ==
    /\ conn[c].pc \in {"reading", "refusing"}
    /\ active' = active - 1
    /\ conn' = [conn EXCEPT ![c] = Idle]
    /\ UNCHANGED <<ballotVars, clock, listening, contexts, worker, counted>>

(* The handler's wait on the shielded worker, or its write, times out.     *)
WaitFails(c) ==
    /\ conn[c].pc \in {"waiting", "reply"}
    /\ conn' = [conn EXCEPT ![c] = Idle]
    /\ UNCHANGED <<ballotVars, clock, listening, contexts, active, worker, counted>>

(* The client reads the acknowledgement and compares its digest, which an  *)
(* answer to a bad size does not have.                                     *)
ReadAck(c) ==
    /\ conn[c].pc = "reply"
    /\ counted' = IF conn[c].status \in {"accepted", "duplicate"}
                  THEN counted \union {conn[c].frame} ELSE counted
    /\ conn' = [conn EXCEPT ![c] = Idle]
    /\ UNCHANGED <<ballotVars, clock, listening, contexts, active, worker>>

---------------------------------------------------------------------------
(* _process_with_permit and BallotIngress.process. *)

(* The worker's task starts: now_ms() is read, the thread begins.          *)
ReadClock(c) ==
    /\ worker[c].pc = "created"
    /\ worker' = [worker EXCEPT ![c] =
                    [pc |-> "verify", frame |-> worker[c].frame, now |-> clock]]
    /\ UNCHANGED <<ballotVars, clock, listening, contexts, active, conn, counted>>

(* The worker's result: the permit goes back, and a handler that still     *)
(* waits answers; a status "none" is an exception, after which the handler *)
(* closes without an answer.                                               *)
Finish(c, status) ==
    /\ active' = active - 1
    /\ worker' = [worker EXCEPT ![c] = Idle]
    /\ conn' = IF conn[c].pc # "waiting" THEN conn
               ELSE IF status = "none" THEN [conn EXCEPT ![c] = Idle]
               ELSE Reply(c, status)

(* from_wire, the context, accept_wire up to the transaction.              *)
VerifyWire(c) ==
    /\ worker[c].pc = "verify"
    /\ LET f == worker[c].frame
           known == f \in Ballots /\ SessionOf[f] \in contexts
       IN IF known /\ Verify(f, worker[c].now)
          THEN /\ worker' = [worker EXCEPT ![c].pc = "consume"]
               /\ UNCHANGED <<active, conn>>
          ELSE Finish(c, IF f = Unanswerable THEN "none" ELSE "rejected")
    /\ UNCHANGED <<ballotVars, clock, listening, contexts, counted>>

(* The ledger's transaction.                                               *)
ConsumeWire(c) ==
    /\ worker[c].pc = "consume"
    /\ Consume(worker[c].frame, worker[c].now)
    /\ Finish(c, "accepted")
    /\ UNCHANGED <<clock, listening, contexts, counted>>

ConsumeRefused(c) ==
    /\ worker[c].pc = "consume"
    /\ ClockBehind(worker[c].now) \/ KeyTaken(worker[c].frame)
    /\ worker' = [worker EXCEPT ![c].pc = "lookup"]
    /\ UNCHANGED <<ballotVars, clock, listening, contexts, active, conn, counted>>

\* Mutant: every replay is answered as a duplicate.
ContainsWireAny(f) == TRUE

\* Mutant: a replay is never looked up.
ContainsWireNever(f) == FALSE

(* contains_wire.                                                          *)
ContainsWire(f) == f \in rows

(* Exact retransmission is idempotent, equivocation is rejected.           *)
LookUp(c) ==
    /\ worker[c].pc = "lookup"
    /\ Finish(c, IF ContainsWire(worker[c].frame) THEN "duplicate" ELSE "rejected")
    /\ UNCHANGED <<ballotVars, clock, listening, contexts, counted>>

(* SQLite gives up on its lock, or any other exception: no answer.         *)
LedgerFails(c) ==
    /\ worker[c].pc \in {"consume", "lookup"}
    /\ Finish(c, "none")
    /\ UNCHANGED <<ballotVars, clock, listening, contexts, counted>>

---------------------------------------------------------------------------
(* The environment. *)

Tick ==
    /\ clock < MaxTime
    /\ clock' = clock + 1
    /\ UNCHANGED <<ballotVars, listening, contexts, active, conn, worker, counted>>

SetBack ==
    /\ ClockMayStepBack
    /\ clock > 1
    /\ clock' = clock - 1
    /\ UNCHANGED <<ballotVars, listening, contexts, active, conn, worker, counted>>

Prune ==
    /\ PruneExpired(clock)
    /\ UNCHANGED serverVars

Crash ==
    /\ listening' = FALSE
    /\ contexts' = {}
    /\ active' = 0
    /\ conn' = [c \in Conns |-> Idle]
    /\ worker' = [c \in Conns |-> Idle]
    /\ UNCHANGED <<ballotVars, clock, counted>>

HandlerStep(c) ==
    \/ Admit(c) \/ ReadFrame(c) \/ ReadBadSize(c) \/ WriteRefusal(c)
    \/ ReadFails(c) \/ WaitFails(c) \/ ReadAck(c)

WorkerStep(c) ==
    \/ ReadClock(c) \/ VerifyWire(c) \/ ConsumeWire(c) \/ ConsumeRefused(c)
    \/ LookUp(c) \/ LedgerFails(c)

(* Everything but a new frame. *)
ServerNext ==
    \/ Start \/ Close \/ Tick \/ SetBack \/ Prune \/ Crash
    \/ \E s \in Sessions : RegisterContext(s)
    \/ \E c \in Conns : HandlerStep(c) \/ WorkerStep(c)

IngressNext == ServerNext \/ \E c \in Conns, f \in Frames : Submit(c, f)

IngressSpec == IngressInit /\ [][IngressNext]_ingressVars

---------------------------------------------------------------------------
(* Properties. *)

(* Permits are neither lost nor minted: _active counts the handlers that
   were admitted and have no worker yet and the workers, whoever has given
   up waiting for them, and stays within max_connections.                  *)
PermitsBalanced ==
    /\ active = Cardinality({c \in Conns : conn[c].pc \in {"reading", "refusing"}})
                + Cardinality({c \in Conns : worker[c] # Idle})
    /\ active <= MaxConnections

(* A client that reads "accepted" or "duplicate" has its very frame in the
   ledger's history, and of two ballots that exclude each other at most one
   is ever so acknowledged, across lost answers, retries, races, prunes and
   crashes.                                                                *)
AcknowledgedCounts ==
    /\ counted \subseteq accepted
    /\ \A a, b \in counted : SharesKey(a, b) => a = b

(* "Exact retransmission is idempotent."  A ballot the ledger has ever
   accepted is answered "rejected" only if its session is not registered,
   the time its worker read is outside its window, or its session is over
   by the ledger's own time: never because another worker or a prune moved
   that time past the worker's, nor because the row was looked up too late. *)
NotRejected(c) ==
    LET f == worker[c].frame IN
    /\ conn[c].pc = "waiting" /\ conn'[c].pc = "reply" /\ conn'[c].status = "rejected"
    /\ f \in accepted
    => \/ SessionOf[f] \notin contexts
       \/ ~ IsFreshEnvelope(f, worker[c].now)
       \/ ValidUntil[SessionOf[f]] <= high_water
RetransmissionIsKnown == [][\A c \in Conns : NotRejected(c)]_ingressVars

(* The socket keeps its books: permits balance and what a client was told
   stands in the ledger.                                                   *)
BooksAreKept == PermitsBalanced /\ AcknowledgedCounts

(* "replay ledger clock rollback detected" is said where a clock can be set
   back, and only there.                                                   *)
RollbackWasRollback ==
    \A c \in Conns :
        worker[c].pc = "consume" /\ ClockBehind(worker[c].now) => ClockMayStepBack

=============================================================================
