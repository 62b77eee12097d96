---------------------------- MODULE ThreatHintAdapter ----------------------------
(***************************************************************************)
(* ThreatHintAnalyzerAdapter of jaeger/threat_hint_adapter.py: drain_once  *)
(* reads one bounded batch of undelivered jobs, revalidates, analyses and  *)
(* marks them one by one.  A failed job is skipped and stays pending.      *)
(* The drain lock serialises the drains of one adapter instance; several   *)
(* instances may work on the same ledger file.                             *)
(***************************************************************************)
EXTENDS ThreatHintLedger, Sequences

CONSTANTS
    Adapters,         \* adapter instances over the ledger
    BatchLimit,       \* batch_limit
    DigestRank,       \* [Hints -> Nat]: the order of payload_digest
    Running,          \* the adapters that keep being called
    HostMayStepBack   \* whether the host clock can be set back

ASSUME AdapterAssumption ==
    /\ BatchLimit \in 1 .. 32
    /\ DigestRank \in [Hints -> Nat]
    /\ \A g, h \in Hints : DigestRank[g] = DigestRank[h] => g = h
    /\ Running \subseteq Adapters /\ HostMayStepBack \in BOOLEAN

VARIABLES
    hostClock,        \* what now_seconds() reads
    expected,         \* expected_network_id of the adapters' configuration
    drain,            \* [Adapters -> the state of drain_once]
    analysed          \* history: hints with an exact safe v1 analysis

adapterVars == <<hostClock, expected, drain, analysed>>

\* jobs: the rest of the batch; at: delivered_at once the head is being marked.
Idle == [pc |-> "idle", jobs |-> <<>>, at |-> Null]

AdapterInit ==
    /\ expected \in Networks
    /\ drain = [a \in Adapters |-> Idle]
    /\ analysed = {}

\* pending_jobs: undelivered rows ORDER BY admitted_at, payload_digest LIMIT limit.
Older(g, h) ==
    \/ admitted_at[g] < admitted_at[h]
    \/ admitted_at[g] = admitted_at[h] /\ DigestRank[g] < DigestRank[h]

\* How many undelivered jobs come before h.
Position(h) == Cardinality({g \in Undelivered : Older(g, h)})

Least(m, n) == IF m < n THEN m ELSE n

PendingJobs(limit) ==
    [i \in 1 .. Least(limit, Cardinality(Undelivered)) |->
        CHOOSE h \in Undelivered : Position(h) = i - 1]

ReadBatch(a) ==
    /\ drain[a].pc = "idle"
    /\ Undelivered # {}
    /\ drain' = [drain EXCEPT ![a] =
                    [pc |-> "job", jobs |-> PendingJobs(BatchLimit), at |-> Null]]
    /\ UNCHANGED <<ledgerVars, hostClock, expected, analysed>>

\* On to the next job of the batch, or return the report.
Advanced(d) ==
    IF Len(d.jobs) = 1 THEN Idle ELSE [pc |-> "job", jobs |-> Tail(d.jobs), at |-> Null]

\* adapt_job: what it rechecks beyond the network was checked on admission already.
Adaptable(h) ==
    /\ network_of[h] = expected
    /\ ObservedAt[h] - MaxFutureSkew <= admitted_at[h]
    /\ admitted_at[h] <= ExpiresAt(h)

\* Mutant: the first unadaptable job ends the drain.
AdaptFailureEndsDrain(a) ==
    /\ drain[a].pc = "job"
    /\ ~ Adaptable(Head(drain[a].jobs))
    /\ drain' = [drain EXCEPT ![a] = Idle]
    /\ UNCHANGED <<ledgerVars, hostClock, expected, analysed>>

\* Failure category "adapt".
AdaptFails(a) ==
    /\ drain[a].pc = "job"
    /\ ~ Adaptable(Head(drain[a].jobs))
    /\ drain' = [drain EXCEPT ![a] = Advanced(@)]
    /\ UNCHANGED <<ledgerVars, hostClock, expected, analysed>>

\* Failure category "analysis": the analyzer raises or returns an unsafe decision.
AnalysisFails(a) ==
    /\ drain[a].pc = "job"
    /\ Adaptable(Head(drain[a].jobs))
    /\ drain' = [drain EXCEPT ![a] = Advanced(@)]
    /\ UNCHANGED <<ledgerVars, hostClock, expected, analysed>>

\* Mutant: no comparison of the clock with the admission.
AnalyseUnclocked(a) ==
    /\ drain[a].pc = "job"
    /\ Adaptable(Head(drain[a].jobs))
    /\ analysed' = analysed \cup {Head(drain[a].jobs)}
    /\ drain' = [drain EXCEPT ![a].pc = "mark", ![a].at = hostClock]
    /\ UNCHANGED <<ledgerVars, hostClock, expected>>

\* The exact safe result arrives and the clock is read without a further await; a
\* clock behind the admission is failure category "clock".
Analyse(a) ==
    LET h == Head(drain[a].jobs) IN
    /\ drain[a].pc = "job"
    /\ Adaptable(h)
    /\ analysed' = analysed \cup {h}
    /\ drain' = [drain EXCEPT ![a] =
                    IF hostClock < admitted_at[h] THEN Advanced(@)
                    ELSE [@ EXCEPT !.pc = "mark", !.at = hostClock]]
    /\ UNCHANGED <<ledgerVars, hostClock, expected>>

Mark(a) ==
    /\ drain[a].pc = "mark"
    /\ MarkDelivered(Head(drain[a].jobs), drain[a].at)
    /\ drain' = [drain EXCEPT ![a] = Advanced(@)]
    /\ UNCHANGED <<hostClock, expected, analysed>>

\* Failure category "delivery": the file is locked, or the row is gone because another
\* adapter delivered the job and an admission pruned it.
MarkFails(a) ==
    /\ drain[a].pc = "mark"
    /\ drain' = [drain EXCEPT ![a] = Advanced(@)]
    /\ UNCHANGED <<ledgerVars, hostClock, expected, analysed>>

\* drain_once is cancelled while the analyzer runs; _mark_delivered_cancellation_safe
\* keeps a cancelled drain inside "mark" until the thread is done.
Cancel(a) ==
    /\ drain[a].pc = "job"
    /\ drain' = [drain EXCEPT ![a] = Idle]
    /\ UNCHANGED <<ledgerVars, hostClock, expected, analysed>>

\* The adapters' process is started again, perhaps for another network.
AdapterRestart ==
    /\ drain' = [a \in Adapters |-> Idle]
    /\ expected' \in Networks
    /\ UNCHANGED <<ledgerVars, hostClock, analysed>>

DrainNext(a) ==
    \/ ReadBatch(a) \/ AdaptFails(a) \/ AnalysisFails(a) \/ Analyse(a)
    \/ Mark(a) \/ MarkFails(a) \/ Cancel(a)

-----------------------------------------------------------------------------
(* The adapters over a ledger into which hints keep being admitted: the ingress *)
(* of ThreatHintIngress, a process of its own, reduced to its commits.           *)

Arrive ==
    /\ \E h \in Hints, net \in Networks : AdmitCommit(h, hostClock, net)
    /\ UNCHANGED adapterVars

HostTick ==
    /\ hostClock + 1 \in Times
    /\ hostClock' = hostClock + 1
    /\ UNCHANGED <<ledgerVars, expected, drain, analysed>>

HostStepBack ==
    /\ HostMayStepBack
    /\ \E t \in Times : t < hostClock /\ hostClock' = t
    /\ UNCHANGED <<ledgerVars, expected, drain, analysed>>

PipelineInit == LedgerInit /\ AdapterInit /\ hostClock = 1

PipelineNext ==
    \/ Arrive \/ HostTick \/ HostStepBack \/ AdapterRestart
    \/ \E a \in Adapters : DrainNext(a)

pipelineVars == <<ledgerVars, adapterVars>>

PipelineSpec == PipelineInit /\ [][PipelineNext]_pipelineVars

\* drain_once of a running adapter is called again and again, the v1 analysis of a given job does not fail
\* for ever (it is a pure function of the job), nor does the file stay locked for ever.
Fairness ==
    \A a \in Running :
        /\ WF_pipelineVars(ReadBatch(a))
        /\ \A h \in Hints :
            /\ SF_pipelineVars(drain[a].jobs # <<>> /\ Head(drain[a].jobs) = h /\ AdaptFails(a))
            /\ SF_pipelineVars(drain[a].jobs # <<>> /\ Head(drain[a].jobs) = h /\ Analyse(a))
            /\ SF_pipelineVars(drain[a].jobs # <<>> /\ Head(drain[a].jobs) = h /\ Mark(a))

FairPipelineSpec == PipelineSpec /\ Fairness

-----------------------------------------------------------------------------
(* Properties *)

PipelineTypeOK ==
    /\ LedgerTypeOK
    /\ hostClock \in Times
    /\ expected \in Networks
    /\ analysed \in SUBSET Hints
    /\ \A a \in Adapters :
        /\ drain[a].pc \in {"idle", "job", "mark"}
        /\ drain[a].jobs \in Seq(Hints)
        /\ drain[a].at \in Nat \cup {Null}

\* A job counts as delivered only after the exact safe analysis of its hint, at a
\* time no earlier than its admission, whichever adapter did it and however often
\* drains were cancelled, restarted or repeated.
DeliveredWasAnalysed ==
    \A h \in Hints : delivered_at[h] # Null =>
        h \in analysed /\ delivered_at[h] >= admitted_at[h]

\* Until it is analysed an accepted hint is pending: a failing, cancelled or crashed
\* drain never takes a job out of the outbox.
UnanalysedIsPending == accepted \ analysed \subseteq Undelivered

\* What the guardian guide says of a poison job: it stays pending without starving
\* later safe jobs.  A job of the adapters' own network is not pending for ever,
\* unless the host clock keeps falling behind its admission.
SafeJobsNotStarved ==
    \A h \in Hints :
        ~ <>[]( /\ h \in Undelivered /\ network_of[h] = expected
                /\ hostClock >= admitted_at[h] )

================================================================================
