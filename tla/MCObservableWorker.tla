--------------------------- MODULE MCObservableWorker ---------------------------
(* The analysis worker and the analysis of a hint.  The worker knows the analyzer  *)
(* only as a call that returns, fails or is cancelled, and the two share no state, *)
(* so a behaviour follows one of them while the other rests.                       *)
EXTENDS ObservableWorker, GuardianAnalysis, TLC

CONSTANTS a1, a2, g1, net

VARIABLE part    \* the component this behaviour follows

---------------------------------------------------------------------------------
(* One binding and two approvals whose retention outlasts the bounded clock.       *)

MCApprovals == {a1, a2}
MCBindings == {g1}
MCIdOrder == (a1 :> 2) @@ (a2 :> 1)
MCSignerOf == [a \in MCApprovals |-> "k"]
MCNonceOf == (a1 :> "n1") @@ (a2 :> "n2")
MCStatementOf == (a1 :> "s1") @@ (a2 :> "s2")
MCCommitmentOf == (a1 :> "c1") @@ (a2 :> "c2")
MCNotBefore == [a \in MCApprovals |-> 1]
MCExpiresAt == [a \in MCApprovals |-> 2]
MCNetwork == [g \in MCBindings |-> net]
MCIdentity == [g \in MCBindings |-> "k"]
MCEpoch == [g \in MCBindings |-> 1]
MCMaxPending == [g \in MCBindings |-> 2]
MCMaxRetention == [g \in MCBindings |-> MaxTime + 2]
MCTimes == 1 .. MaxTime

---------------------------------------------------------------------------
(* Two concurrent hints.  The model answers with an error, with an envelope *)
(* that is not one assistant message, with a source that validates or does  *)
(* not, and with confidences on both sides of both thresholds, out of       *)
(* range, boolean, or under a repeated key.                                 *)

Json(keys, value) == [type |-> "object", keys |-> keys, value |-> value]
Bps(n) == Json(<<"confidence_bps">>, [type |-> "int", bps |-> n])
PlainText == [type |-> "text", value |-> [type |-> "none", bps |-> 0]]
Envelope(written, json) ==
    [status |-> "ok", choices |-> 1, role |-> "assistant", bytes |-> 1,
     source |-> written, json |-> json]
Good == [id |-> "good", valid |-> TRUE]
Bad == [id |-> "bad", valid |-> FALSE]

EnvelopesValue ==
    {Envelope(Good, Bps(n)) : n \in {69, 70, 84, 85, 101}}
    \union {Envelope(Bad, Bps(100)),
            Envelope(Bad, PlainText),
            Envelope(Good, Json(<<"confidence_bps">>, [type |-> "bool", bps |-> 1])),
            Envelope(Good, Json(<<"confidence_bps", "confidence_bps">>,
                                [type |-> "int", bps |-> 90])),
            [Envelope(Good, Bps(90)) EXCEPT !.bytes = 3],
            [Envelope(Good, Bps(90)) EXCEPT !.choices = 2],
            [Envelope(Good, Bps(90)) EXCEPT !.role = "user"],
            [Envelope(Good, Bps(90)) EXCEPT !.status = "error"],
            [Envelope(Good, Bps(90)) EXCEPT !.bytes = 0]}
MCEnvelopes == EnvelopesValue

Rule(h, n) == [kind |-> "rule", name |-> 1, hint |-> h, source |-> Bad, bps |-> n]
Answer(h, rule, n, submit) == [hint |-> h, rule |-> rule, bps |-> n, submit |-> submit]
ForeignResultsValue ==
    {Answer("own", Rule("own", 90), 90, TRUE), Answer("own", Rule("own", 70), 70, FALSE),
     Answer("own", Rule("own", 60), 60, FALSE), Answer("own", NoRule, 0, FALSE),
     Answer("own", NoRule, 90, TRUE), Answer("own", Rule("own", 84), 84, TRUE),
     Answer("own", Rule("own", 84), 90, TRUE), Answer("other", Rule("own", 90), 90, TRUE),
     Answer("own", Rule("other", 90), 90, TRUE), Answer("own", Rule("own", 101), 101, TRUE)}
MCForeignResults == ForeignResultsValue

---------------------------------------------------------------------------
(* At rest, with no step to take: a worker nobody calls, its clock at its bound.   *)
WorkerRests ==
    /\ OutboxInit /\ now = MaxTime /\ failures = 0 /\ late = {}
    /\ pc = [w \in Callers |-> "absent"]
    /\ current_time = [w \in Callers |-> 0]
    /\ held = [w \in Callers |-> 0] /\ entered = [w \in Callers |-> 0]
AnalysisRests == AnalysisInit /\ built = [t \in Tiers |-> "Analyzer"]

WorkInit ==
    \/ part = "worker" /\ WorkerInit /\ AnalysisRests
    \/ part = "analysis" /\ AnalysisInit /\ WorkerRests

WorkNext ==
    \/ part = "worker" /\ WorkerNext /\ UNCHANGED <<part, analysisVars>>
    \/ part = "analysis" /\ AnalysisNext /\ UNCHANGED <<part, workerVars>>

WorkSpec ==
    /\ WorkInit /\ [][WorkNext]_<<part, workerVars, analysisVars>>
    /\ WorkerFairness
=================================================================================
