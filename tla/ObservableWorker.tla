---------------------------- MODULE ObservableWorker ----------------------------
(***************************************************************************)
(* ObservableAnalysisWorker of jaeger/observable_analysis_worker.py over   *)
(* the durable outbox, with the host clock that its callers read.          *)
(*                                                                         *)
(* A call of process_next carries the time its caller read.  It waits for  *)
(* a slot of the worker's semaphore, claims, awaits the analyzer and       *)
(* completes, all with that one time; process_pending repeats this with    *)
(* the same time.  Claim and completion do not await and are one step each.*)
(***************************************************************************)
EXTENDS ObservableOutbox

CONSTANTS
    Callers,          \* concurrent callers of process_next and process_pending
    MaxConcurrency,   \* max_concurrency, the slots of the semaphore
    AnalyzerTimeout,  \* analyzer_timeout_seconds, at most every lease length
    MaxTime,          \* bound: the host clock stops here
    MaxFailures       \* bound: analyses that fail

ASSUME WorkerAssumption ==
    /\ MaxConcurrency \in Nat \ {0}
    /\ AnalyzerTimeout \in Nat
    /\ \A secs \in LeaseSeconds : AnalyzerTimeout <= secs
    /\ 1 .. MaxTime \subseteq Times

VARIABLES
    now,              \* the host clock
    pc,               \* [Callers -> where its call of process_next is]
    current_time,     \* [Callers -> the time the call carries]
    held,             \* [Callers -> the claim being analysed, 0 for none]
    entered,          \* [Callers -> host time at which the analysis began]
    failures,         \* analyses that have failed
    late              \* history: claims completed when their lease was over

callVars == <<pc, current_time, held, entered>>
workerVars == <<outboxVars, now, callVars, failures, late>>

WorkerInit ==
    /\ OutboxInit
    /\ now = 1
    /\ pc = [w \in Callers |-> "idle"]
    /\ current_time = [w \in Callers |-> 0]
    /\ held = [w \in Callers |-> 0]
    /\ entered = [w \in Callers |-> 0]
    /\ failures = 0
    /\ late = {}

Analysing == {w \in Callers : pc[w] = "analysing"}

SlotFree == Cardinality(Analysing) < MaxConcurrency

\* wait_for ends every analysis that reaches its timeout.
Tick ==
    /\ now < MaxTime
    /\ \A w \in Analysing : now - entered[w] < AnalyzerTimeout
    /\ now' = now + 1
    /\ UNCHANGED <<outboxVars, callVars, failures, late>>

\* An acceptance elsewhere in the process enqueues a record.
Accept(a, g) ==
    /\ ConsumeDurable(a, g, now)
    /\ UNCHANGED <<now, callVars, failures, late>>

Call(w) ==
    /\ pc[w] = "idle"
    /\ pc' = [pc EXCEPT ![w] = "waiting"]
    /\ current_time' = [current_time EXCEPT ![w] = now]
    /\ UNCHANGED <<outboxVars, now, held, entered, failures, late>>

Enter(w) ==
    /\ pc[w] = "waiting"
    /\ SlotFree
    /\ \E secs \in LeaseSeconds : Claim(current_time[w], secs)
    /\ pc' = [pc EXCEPT ![w] = "analysing"]
    /\ held' = [held EXCEPT ![w] = Len(claims) + 1]
    /\ entered' = [entered EXCEPT ![w] = now]
    /\ UNCHANGED <<now, current_time, failures, late>>

\* claim returned None and so does process_next.
EnterNothing(w) ==
    /\ pc[w] = "waiting"
    /\ SlotFree
    /\ ClaimNothing(current_time[w])
    /\ pc' = [pc EXCEPT ![w] = "idle"]
    /\ UNCHANGED <<now, current_time, held, entered, failures, late>>

\* The call is over, or process_pending goes on to the next record.
Leaves(w) ==
    /\ \E next \in {"idle", "waiting"} : pc' = [pc EXCEPT ![w] = next]
    /\ held' = [held EXCEPT ![w] = 0]
    /\ UNCHANGED <<current_time, entered>>

AnalysisReturns(w) ==
    /\ pc[w] = "analysing"
    /\ \E wire \in Wires : Complete(held[w], wire, current_time[w])
    /\ late' = IF now < claims[held[w]].expires THEN late ELSE late \cup {held[w]}
    /\ Leaves(w)
    /\ UNCHANGED <<now, failures>>

\* The call leaves the semaphore; complete's transaction, if any, is rolled back.
Raises(w) ==
    /\ pc' = [pc EXCEPT ![w] = "idle"]
    /\ held' = [held EXCEPT ![w] = 0]
    /\ UNCHANGED <<outboxVars, now, current_time, entered, late>>

\* The analysis returns but its lease has been taken over: complete raises.
AnalysisSuperseded(w) ==
    /\ pc[w] = "analysing"
    /\ ~ HoldsLease(held[w], current_time[w])
    /\ Raises(w)
    /\ UNCHANGED failures

\* An error, a timeout or a cancellation leaves the record leased.  A failure whose
\* lease would outlive the bounded clock is left out.
AnalysisFails(w) ==
    /\ pc[w] = "analysing"
    /\ failures < MaxFailures
    /\ claims[held[w]].expires <= MaxTime
    /\ Raises(w)
    /\ failures' = failures + 1

WorkerNext ==
    \/ Tick
    \/ \E a \in Approvals, g \in Bindings : Accept(a, g)
    \/ \E w \in Callers :
           \/ Call(w)
           \/ Enter(w)
           \/ EnterNothing(w)
           \/ AnalysisReturns(w)
           \/ AnalysisSuperseded(w)
           \/ AnalysisFails(w)

\* The clock runs, the owner keeps calling the worker, a free slot is taken and an
\* analysis that does not fail returns.
WorkerFairness ==
    /\ WF_workerVars(Tick)
    /\ \A w \in Callers : WF_workerVars(Call(w))
    /\ WF_workerVars(\E w \in Callers : Enter(w) \/ EnterNothing(w))
    /\ \A w \in Callers : WF_workerVars(AnalysisReturns(w) \/ AnalysisSuperseded(w))

WorkerSpec == WorkerInit /\ [][WorkerNext]_workerVars /\ WorkerFairness

-----------------------------------------------------------------------------
(* Properties *)

\* A call holds a claim of its own exactly while its analyzer runs, and no more
\* analyzers run than the semaphore has slots.
WorkerTypeOK ==
    /\ now \in 1 .. MaxTime
    /\ pc \in [Callers -> {"idle", "waiting", "analysing"}]
    /\ current_time \in [Callers -> 0 .. now]
    /\ entered \in [Callers -> 0 .. now]
    /\ \A w \in Callers :
           /\ held[w] \in 0 .. Len(claims)
           /\ pc[w] = "analysing" <=> held[w] # 0
    /\ \A v, w \in Analysing : held[v] = held[w] => v = w
    /\ Cardinality(Analysing) <= MaxConcurrency

\* Restart and failure recovery: while retention lasts, every record that is
\* enqueued is completed, whichever of its analyses failed and left it leased.
WorkCompletes ==
    \A a \in Approvals : a \in outbox ~> \E c \in completed : c.approval = a

\* memory/API.md: "`complete` requires the exact unexpired lease".
CompletedWithinLease == late = {}
=============================================================================
