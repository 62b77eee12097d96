-------------------------- MODULE GuardianAnalysis --------------------------
(***************************************************************************)
(* Threat analysis in a Guardian: the router of hybrid_router.py, which    *)
(* asks an 8B analyzer first and a 70B analyzer when the first is          *)
(* uncertain; the analyzer of analyzer.py, which asks the model about the  *)
(* threat, for a rule and for its confidence in that rule; the generator   *)
(* of yara_generator.py, whose rule counter all hints share; and the       *)
(* client of llm_server.py, which takes nothing from the model but one     *)
(* assistant message, and for a confidence nothing but one number.         *)
(*                                                                         *)
(* Hints are coroutines of one event loop: between two awaits a coroutine  *)
(* runs alone, at an await any other may run, and an await may be          *)
(* cancelled.  The model server is external: it answers with any of        *)
(* Envelopes.  A threat hash is the hint it belongs to, a confidence is in *)
(* basis points, and whether a source passes validation (YaraScanner and   *)
(* the compiler) is part of the source.                                    *)
(***************************************************************************)
EXTENDS Integers, FiniteSets

CONSTANTS
    Hints,                \* threat hashes of concurrent hints
    Envelopes,            \* responses of the model server
    ForeignResults,       \* what an analyzer other than Analyzer may return
    EscalationConfidence, \* ESCALATION_CONFIDENCE
    MinConfidence,        \* MIN_CONFIDENCE_BPS
    FullConfidence,       \* 10_000
    MaxConfidenceBytes,   \* MAX_CONFIDENCE_RESPONSE_BYTES
    MaxContentBytes       \* MAX_COMPLETION_CONTENT_BYTES

ASSUME AnalysisAssumption ==
    /\ EscalationConfidence \in Nat /\ MinConfidence \in Nat /\ FullConfidence \in Nat
    /\ MaxConfidenceBytes \in Nat /\ MaxContentBytes \in Nat

Tiers == {"8b", "70b"}
NoRule == [kind |-> "none"]

VARIABLES
    task,      \* [Hints -> the coroutine of each hint]
    built,     \* [Tiers -> whether the tier is Analyzer or another implementation]
    counter,   \* [Tiers -> _rule_counter of the tier's generator]
    issued,    \* history: rules generated, <<tier, number, hint, source>>
    assessed   \* history: confidences the model gave, <<hint, tier, source, bps>>

analysisVars == <<task, built, counter, issued, assessed>>

AnalysisInit ==
    /\ task = [h \in Hints |-> [pc |-> "idle"]]
    /\ built \in [Tiers -> {"Analyzer", "foreign"}]
    /\ counter = [t \in Tiers |-> 0]
    /\ issued = {}
    /\ assessed = {}

---------------------------------------------------------------------------
(* The model client. *)

(* _extract_completion_content, and the HTTP and JSON failures before it.  *)
ModelCompletion(e) ==
    /\ e.status = "ok"
    /\ e.choices = 1
    /\ e.role = "assistant"
    /\ e.bytes \in 1..MaxContentBytes

(* _closed_json_object: no key appears twice.                              *)
ClosedJsonObject(keys) ==
    \A i, j \in DOMAIN keys : i # j => keys[i] # keys[j]

(* YaraConfidenceAssessment.from_json: one small object with the one key   *)
(* confidence_bps and an integer, no boolean, in range.                    *)
ConfidenceFromJson(e) ==
    /\ e.bytes \in 1..MaxConfidenceBytes
    /\ e.json.type = "object"
    /\ ClosedJsonObject(e.json.keys)
    /\ {e.json.keys[i] : i \in DOMAIN e.json.keys} = {"confidence_bps"}
    /\ e.json.value.type = "int"
    /\ e.json.value.bps \in 0..FullConfidence

---------------------------------------------------------------------------
(* The generator and the analyzer's verdict. *)

(* validate_rule and is_submittable.                                       *)
ValidateRule(rule) == rule.bps \in 0..FullConfidence /\ rule.source.valid
IsSubmittable(rule) == ValidateRule(rule) /\ rule.bps >= MinConfidence

(* The analyzer's result when a stage fails.                               *)
FailedClosed(h) == [hint |-> h, rule |-> NoRule, bps |-> 0, submit |-> FALSE]

(* Step 3 of process_threat_hint.                                          *)
Judged(h, rule) ==
    [hint   |-> h,
     rule   |-> IF ValidateRule(rule) THEN rule ELSE NoRule,
     bps    |-> IF ValidateRule(rule) THEN rule.bps ELSE 0,
     submit |-> IsSubmittable(rule)]

---------------------------------------------------------------------------
(* The router. *)

(* _is_safe_analysis.                                                      *)
IsSafeAnalysis(r, h) ==
    /\ r.bps \in 0..FullConfidence
    /\ r.hint = h
    /\ r.rule # NoRule => r.rule.hint = h /\ r.rule.bps = r.bps
    /\ r.submit => r.bps >= MinConfidence /\ r.rule # NoRule

Routed(h, tier, r) ==
    task' = [task EXCEPT ![h] = [pc |-> "routed", tier |-> tier, result |-> r]]

\* Mutant: a confident result is kept without looking at its safety.
ResolveUnsafe(h, r) ==
    \/ /\ task[h].tier = "8b"
       /\ IF r.bps >= EscalationConfidence
          THEN Routed(h, "8b", r)
          ELSE task' = [task EXCEPT ![h] = [pc |-> "analyze", tier |-> "70b"]]
    \/ /\ task[h].tier = "70b"
       /\ IF IsSafeAnalysis(r, h) THEN Routed(h, "70b", r)
          ELSE Routed(h, "none", FailedClosed(h))

(* HybridAnalyzer.process_threat_hint once the tier has returned r: keep,  *)
(* escalate, or fail closed.                                               *)
Resolve(h, r) ==
    \/ /\ task[h].tier = "8b"
       /\ IF IsSafeAnalysis(r, h) /\ r.bps >= EscalationConfidence
          THEN Routed(h, "8b", r)
          ELSE task' = [task EXCEPT ![h] = [pc |-> "analyze", tier |-> "70b"]]
    \/ /\ task[h].tier = "70b"
       /\ IF IsSafeAnalysis(r, h) THEN Routed(h, "70b", r)
          ELSE Routed(h, "none", FailedClosed(h))

\* Mutant: a 70B tier that raises sends the hint back to the first tier.
ResolveRaisedAgain(h) ==
    task' = [task EXCEPT ![h] = [pc |-> "analyze",
                                 tier |-> IF task[h].tier = "8b" THEN "70b" ELSE "8b"]]

(* The tier raised.                                                        *)
ResolveRaised(h) ==
    \/ /\ task[h].tier = "8b"
       /\ task' = [task EXCEPT ![h] = [pc |-> "analyze", tier |-> "70b"]]
    \/ /\ task[h].tier = "70b"
       /\ Routed(h, "none", FailedClosed(h))

---------------------------------------------------------------------------
(* The coroutines. *)

Awaits(h, stage) == task[h].pc = stage /\ built[task[h].tier] = "Analyzer"

ProcessThreatHint(h) ==
    /\ task[h].pc = "idle"
    /\ task' = [task EXCEPT ![h] = [pc |-> "analyze", tier |-> "8b"]]
    /\ UNCHANGED <<built, counter, issued, assessed>>

(* analyze_threat answered: the answer's text is not used.                 *)
AnalyzeThreat(h, e) ==
    /\ Awaits(h, "analyze")
    /\ IF ModelCompletion(e)
       THEN task' = [task EXCEPT ![h].pc = "generate"]
       ELSE Resolve(h, FailedClosed(h))
    /\ UNCHANGED <<built, counter, issued, assessed>>

(* generate_yara_rule answered with a source.                              *)
GenerateYaraRule(h, e) ==
    /\ Awaits(h, "generate")
    /\ IF ModelCompletion(e)
       THEN task' = [task EXCEPT ![h] = [pc |-> "assess", tier |-> task[h].tier,
                                          source |-> e.source]]
       ELSE Resolve(h, FailedClosed(h))
    /\ UNCHANGED <<built, counter, issued, assessed>>

(* _rule_counter += 1 and the name, with no await in between.              *)
NextNumber(h) == counter[task[h].tier] + 1

(* assess_yara_rule answered; the rule is named, validated and judged, and *)
(* the router goes on.                                                     *)
AssessYaraRule(h, e) ==
    /\ Awaits(h, "assess")
    /\ LET tier == task[h].tier
           rule == [kind |-> "rule", name |-> NextNumber(h), hint |-> h,
                    source |-> task[h].source, bps |-> e.json.value.bps]
       IN IF ModelCompletion(e) /\ ConfidenceFromJson(e)
          THEN /\ counter' = [counter EXCEPT ![tier] = NextNumber(h)]
               /\ issued' = issued \union {<<tier, NextNumber(h), h, task[h].source>>}
               /\ assessed' = assessed \union {<<h, tier, task[h].source, e.json.value.bps>>}
               /\ Resolve(h, Judged(h, rule))
          ELSE Resolve(h, FailedClosed(h)) /\ UNCHANGED <<counter, issued, assessed>>
    /\ UNCHANGED built

(* A tier that is another implementation of ThreatAnalyzer.                *)
ForeignReturns(h, r) ==
    /\ task[h].pc = "analyze" /\ built[task[h].tier] = "foreign"
    /\ Resolve(h, [r EXCEPT !.hint = IF r.hint = "own" THEN h ELSE r.hint,
                            !.rule = IF r.rule # NoRule /\ r.rule.hint = "own"
                                     THEN [r.rule EXCEPT !.hint = h] ELSE r.rule])
    /\ UNCHANGED <<built, counter, issued, assessed>>

ForeignRaises(h) ==
    /\ task[h].pc = "analyze" /\ built[task[h].tier] = "foreign"
    /\ ResolveRaised(h)
    /\ UNCHANGED <<built, counter, issued, assessed>>

(* CancelledError is no Exception: neither the analyzer nor the router     *)
(* turns it into a result.                                                 *)
Cancel(h) ==
    /\ task[h].pc \in {"analyze", "generate", "assess"}
    /\ task' = [task EXCEPT ![h] = [pc |-> "cancelled"]]
    /\ UNCHANGED <<built, counter, issued, assessed>>

AllEnded ==
    /\ \A h \in Hints : task[h].pc \in {"routed", "cancelled"}
    /\ UNCHANGED analysisVars

Answered(h) ==
    \/ \E e \in Envelopes : AnalyzeThreat(h, e) \/ GenerateYaraRule(h, e) \/ AssessYaraRule(h, e)
    \/ \E r \in ForeignResults : ForeignReturns(h, r)
    \/ ForeignRaises(h)

AnalysisNext ==
    \/ \E h \in Hints : ProcessThreatHint(h) \/ Answered(h) \/ Cancel(h)
    \/ AllEnded

AnalysisSpec == AnalysisInit /\ [][AnalysisNext]_analysisVars

---------------------------------------------------------------------------
(* Properties. *)

(* What goes to submission is backed: the rule is of the hint it is
   submitted for, at or above the submission threshold, and when the tier
   is the Guardian's own analyzer the source passed validation and its
   confidence is the one the model gave for this source and this hint at
   this tier, whatever other hints were doing meanwhile.                   *)
SubmittedIsBacked ==
    \A h \in Hints :
        task[h].pc = "routed" /\ task[h].result.submit =>
            LET rule == task[h].result.rule
            IN /\ task[h].tier # "none"
               /\ rule # NoRule /\ rule.hint = h
               /\ rule.bps = task[h].result.bps /\ rule.bps >= MinConfidence
               /\ built[task[h].tier] = "Analyzer" =>
                    /\ rule.source.valid
                    /\ <<h, task[h].tier, rule.source, rule.bps>> \in assessed

(* No overruling: a hint for which the Guardian's own 8B analyzer had a
   valid rule at the escalation threshold or above is answered with that
   rule and that confidence, never with the 70B one.                       *)
ConfidentIsKept ==
    \A a \in assessed :
        /\ a[2] = "8b" /\ a[3].valid /\ a[4] >= EscalationConfidence
        /\ task[a[1]].pc = "routed"
        => /\ task[a[1]].tier = "8b"
           /\ task[a[1]].result.rule.source = a[3]
           /\ task[a[1]].result.bps = a[4]

(* Rule names of one generator are used once, though concurrent hints
   share its counter and each waits for the model twice before it takes a
   number.                                                                 *)
NamesAreUnique ==
    \A r, s \in issued : r[1] = s[1] /\ r[2] = s[2] => r = s

(* The calls h makes are answered: each one returns or raises.  Nothing in
   the code sees to that.  The router awaits its tiers without a timeout,
   and the model client's sixty seconds are for each network operation.    *)
CallsReturn(h) == WF_analysisVars(Answered(h))

(* A hint waits for no answer but its own.  Once taken up it ends, in a
   result or by cancellation, if its own calls return, though those of
   every other hint may never do so: the router asks each tier at most
   once, and neither the router nor the generator holds anything across an
   await.                                                                  *)
AnsweredHintsEnd ==
    \A h \in Hints :
        CallsReturn(h) =>
            (task[h].pc = "analyze" ~> task[h].pc \in {"routed", "cancelled"})

(* What the analysis answers with is backed, is never overruled by the
   other tier once it is confident, and carries a name of its own.         *)
AnswersAreSound == SubmittedIsBacked /\ ConfidentIsKept /\ NamesAreUnique
=============================================================================
