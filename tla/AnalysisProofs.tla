--------------------------- MODULE AnalysisProofs ---------------------------
(***************************************************************************)
(* Theorems about what a Guardian makes of hints, rules and corpora, for   *)
(* every value of the constants: the routed analysis (GuardianAnalysis),   *)
(* the documents of the confidence evaluation (ConfidenceEvidence), the    *)
(* semantic quality of the pinned rule (SemanticQuality), the metrics of   *)
(* the confidence evaluation (ConfidenceMetrics) and the drafts in front   *)
(* of the scanner (YaraScanner).  The five share no state; each part has   *)
(* an inductive invariant of its own.                                      *)
(***************************************************************************)
EXTENDS GuardianAnalysis, ConfidenceMetrics, ConfidenceEvidence, SemanticQuality,
        YaraScanner, FiniteSetTheorems, WellFoundedInduction, TLAPS

-----------------------------------------------------------------------------
(* The routed analysis. *)

Asking == {"analyze", "generate", "assess"}
TaskStages == {"idle", "routed", "cancelled"} \union Asking

\* A coroutine that asks a model has a tier; until it has a source, nothing else.
TaskOK(t) ==
    /\ t.pc \in TaskStages
    /\ t.pc \in Asking => t.tier \in Tiers
    /\ t.pc \in {"analyze", "generate"} => t = [pc |-> t.pc, tier |-> t.tier]

\* A rule number that was given out is not above the counter of its generator.
Numbered(r) ==
    /\ r[1] \in Tiers
    /\ r[2] \in Nat /\ r[2] <= counter[r[1]]

Confident(a) == a[2] = "8b" /\ a[3].valid /\ a[4] >= EscalationConfidence

\* What a confident 8B assessment leaves behind: it is the answer, in the very step in
\* which it was given, and stays it.
Kept(a) ==
    Confident(a) =>
        /\ task[a[1]].pc = "routed" /\ task[a[1]].tier = "8b"
        /\ task[a[1]].result.rule.source = a[3]
        /\ task[a[1]].result.bps = a[4]

AnalysisTypeOK ==
    /\ task = [h \in Hints |-> task[h]]
    /\ \A h \in Hints : TaskOK(task[h])
    /\ built \in [Tiers -> {"Analyzer", "foreign"}]
    /\ counter \in [Tiers -> Nat]
    /\ \A a \in assessed : a[1] \in Hints /\ a[4] \in Nat

\* The strengthening: numbers given out are below the counters, and a confident
\* assessment has been answered with already.
AnalysisInv ==
    /\ AnalysisTypeOK
    /\ \A r \in issued : Numbered(r)
    /\ NamesAreUnique
    /\ \A a \in assessed : Kept(a)
    /\ SubmittedIsBacked

\* Nothing was asked, numbered or routed at the start.
LEMMA AnalysisInitInv == AnalysisInit => AnalysisInv
<1> SUFFICES ASSUME AnalysisInit PROVE AnalysisInv
  OBVIOUS
<1>1. \A h \in Hints : task[h] = [pc |-> "idle"]
  BY DEF AnalysisInit
<1>2. \A h \in Hints : task[h].pc = "idle"
  BY <1>1
<1>3. AnalysisTypeOK
  BY <1>1, <1>2 DEF AnalysisInit, AnalysisTypeOK, TaskOK, TaskStages, Asking, Tiers
<1>4. SubmittedIsBacked
  BY <1>2 DEF SubmittedIsBacked
<1> QED
  BY <1>3, <1>4 DEF AnalysisInv, AnalysisInit, NamesAreUnique

\* A router step changes the coroutine of its hint, to a request at the other tier or to
\* a result that is safe; what it routes with a rule to submit is what it was given.
LEMMA ResolveMoves ==
  ASSUME AnalysisInv, NEW h \in Hints, NEW r, task[h].pc \in Asking, Resolve(h, r)
  PROVE  \E t :
           /\ task' = [task EXCEPT ![h] = t]
           /\ \/ t = [pc |-> "analyze", tier |-> "70b"] /\ task[h].tier = "8b"
              \/ /\ t = [pc |-> "routed", tier |-> task[h].tier, result |-> r]
                 /\ IsSafeAnalysis(r, h)
              \/ t = [pc |-> "routed", tier |-> "none", result |-> FailedClosed(h)]
BY DEF Resolve, Routed

\* What the three kinds of steps do to one coroutine keeps it well-formed.
LEMMA TaskKeeps ==
  ASSUME AnalysisTypeOK, NEW h \in Hints, NEW t, TaskOK(t), task' = [task EXCEPT ![h] = t]
  PROVE  /\ task' = [g \in Hints |-> task'[g]]
         /\ \A g \in Hints : TaskOK(task'[g])
         /\ task'[h] = t
         /\ \A g \in Hints \ {h} : task'[g] = task[g]
<1>1. task'[h] = t /\ (\A g \in Hints \ {h} : task'[g] = task[g])
      /\ task' = [g \in Hints |-> task'[g]]
  BY DEF AnalysisTypeOK
<1>2. \A g \in Hints : TaskOK(task'[g])
  BY <1>1 DEF AnalysisTypeOK
<1> QED
  BY <1>1, <1>2

\* A coroutine that was not routed yet, moved to a well-formed place that submits
\* nothing unbacked, while the histories stay as they are.
LEMMA QuietStep ==
  ASSUME AnalysisInv, NEW h \in Hints, NEW t, TaskOK(t), task' = [task EXCEPT ![h] = t],
         task[h].pc # "routed",
         UNCHANGED <<built, counter, issued, assessed>>,
         t.pc = "routed" /\ t.result.submit =>
            LET rule == t.result.rule
            IN /\ t.tier # "none"
               /\ rule # NoRule /\ rule.hint = h
               /\ rule.bps = t.result.bps /\ rule.bps >= MinConfidence
               /\ built[t.tier] = "Analyzer" =>
                    /\ rule.source.valid
                    /\ <<h, t.tier, rule.source, rule.bps>> \in assessed
  PROVE  AnalysisInv'
<1>1. /\ task' = [g \in Hints |-> task'[g]]
      /\ \A g \in Hints : TaskOK(task'[g])
      /\ task'[h] = t
      /\ \A g \in Hints \ {h} : task'[g] = task[g]
  BY TaskKeeps DEF AnalysisInv
<1>2. AnalysisTypeOK'
  BY <1>1 DEF AnalysisInv, AnalysisTypeOK
<1>3. (\A r \in issued : Numbered(r))' /\ NamesAreUnique'
  BY DEF AnalysisInv, NamesAreUnique, Numbered
<1>4. ASSUME NEW a \in assessed' PROVE Kept(a)'
  <2>1. a \in assessed /\ Kept(a) /\ a[1] \in Hints
    BY <1>4 DEF AnalysisInv, AnalysisTypeOK
  <2>2. CASE ~ Confident(a)
    BY <2>2 DEF Kept, Confident
  <2>3. CASE Confident(a)
    <3>1. task[a[1]].pc = "routed"
      BY <2>1, <2>3 DEF Kept
    <3>2. task'[a[1]] = task[a[1]]
      BY <3>1, <2>1, <1>1
    <3> QED
      BY <3>2, <2>1 DEF Kept, Confident
  <2> QED
    BY <2>2, <2>3
<1>5. SubmittedIsBacked'
  BY <1>1 DEF AnalysisInv, SubmittedIsBacked
<1> QED
  BY <1>2, <1>3, <1>4, <1>5 DEF AnalysisInv

\* The router's step on a result that asks for no submission, or that is another
\* implementation's, keeps the invariant.
LEMMA QuietResolve ==
  ASSUME AnalysisInv, NEW h \in Hints, NEW r, task[h].pc \in Asking, Resolve(h, r),
         UNCHANGED <<built, counter, issued, assessed>>,
         r.submit => built[task[h].tier] # "Analyzer"
  PROVE  AnalysisInv'
<1>1. PICK t :
        /\ task' = [task EXCEPT ![h] = t]
        /\ \/ t = [pc |-> "analyze", tier |-> "70b"] /\ task[h].tier = "8b"
           \/ /\ t = [pc |-> "routed", tier |-> task[h].tier, result |-> r]
              /\ IsSafeAnalysis(r, h)
           \/ t = [pc |-> "routed", tier |-> "none", result |-> FailedClosed(h)]
  BY ResolveMoves
<1>2. task[h].pc # "routed" /\ task[h].tier \in Tiers
  BY DEF AnalysisInv, AnalysisTypeOK, TaskOK, Asking
<1>3. CASE t = [pc |-> "analyze", tier |-> "70b"]
  <2>1. TaskOK(t) /\ t.pc # "routed"
    BY <1>3 DEF TaskOK, TaskStages, Asking, Tiers
  <2> QED
    BY <1>1, <1>2, <2>1, QuietStep
<1>4. CASE t = [pc |-> "routed", tier |-> task[h].tier, result |-> r] /\ IsSafeAnalysis(r, h)
  <2>1. t.pc = "routed" /\ t.tier = task[h].tier /\ t.result = r
    BY <1>4
  <2>2. TaskOK(t)
    BY <2>1 DEF TaskOK, TaskStages, Asking
  <2>3. r.submit => /\ r.rule # NoRule /\ r.rule.hint = h
                    /\ r.rule.bps = r.bps /\ r.rule.bps >= MinConfidence
    BY <1>4 DEF IsSafeAnalysis
  <2>4. t.tier # "none"
    BY <2>1, <1>2 DEF Tiers
  <2> QED
    BY <1>1, <1>2, <2>1, <2>2, <2>3, <2>4, QuietStep
<1>5. CASE t = [pc |-> "routed", tier |-> "none", result |-> FailedClosed(h)]
  <2>1. t.pc = "routed" /\ t.tier = "none" /\ t.result = FailedClosed(h)
    BY <1>5
  <2>2. TaskOK(t)
    BY <2>1 DEF TaskOK, TaskStages, Asking
  <2>3. ~ t.result.submit
    BY <2>1 DEF FailedClosed
  <2> QED
    BY <1>1, <1>2, <2>1, <2>2, <2>3, QuietStep
<1> QED
  BY <1>1, <1>3, <1>4, <1>5

\* A tier of another implementation, or a stage that failed.
LEMMA FailedResolve ==
  ASSUME AnalysisInv, NEW h \in Hints, task[h].pc \in Asking, Resolve(h, FailedClosed(h)),
         UNCHANGED <<built, counter, issued, assessed>>
  PROVE  AnalysisInv'
<1>1. ~ FailedClosed(h).submit
  BY DEF FailedClosed
<1> QED
  BY <1>1, QuietResolve

\* The verdict on a confident rule is safe: the router keeps it.
LEMMA ConfidentIsSafe ==
  ASSUME NEW h, NEW rule, rule.kind = "rule", rule.hint = h, ValidateRule(rule)
  PROVE  /\ IsSafeAnalysis(Judged(h, rule), h)
         /\ Judged(h, rule).bps = rule.bps /\ Judged(h, rule).rule = rule
         /\ Judged(h, rule).hint = h
<1> DEFINE j == Judged(h, rule)
<1>1. j.hint = h /\ j.rule = rule /\ j.bps = rule.bps
      /\ j.submit = IsSubmittable(rule)
  BY DEF Judged
<1>2. rule # NoRule
  BY DEF NoRule
<1>3. rule.bps \in 0 .. FullConfidence /\ (IsSubmittable(rule) => rule.bps >= MinConfidence)
  BY DEF ValidateRule, IsSubmittable
<1> QED
  BY <1>1, <1>2, <1>3 DEF IsSafeAnalysis

\* The model's confidence arrives and the rule takes its number: the new number is above
\* all given out, and a confident assessment is answered with in this very step.
LEMMA AssessedStep ==
  ASSUME AnalysisInv, NEW h \in Hints, NEW e, task[h].pc = "assess",
         ConfidenceFromJson(e),
         NEW rule,
         rule = [kind |-> "rule", name |-> NextNumber(h), hint |-> h,
                 source |-> task[h].source, bps |-> e.json.value.bps],
         counter' = [counter EXCEPT ![task[h].tier] = NextNumber(h)],
         issued' = issued \union {<<task[h].tier, NextNumber(h), h, task[h].source>>},
         assessed' = assessed \union
                       {<<h, task[h].tier, task[h].source, e.json.value.bps>>},
         Resolve(h, Judged(h, rule)),
         built' = built
  PROVE  AnalysisInv'
<1> DEFINE tier == task[h].tier
           s == task[h].source
           bps == e.json.value.bps
           n == NextNumber(h)
           j == Judged(h, rule)
<1>0. PICK new : new = <<h, tier, s, bps>>
  OBVIOUS
<1>1. tier \in Tiers /\ task[h].pc \in Asking /\ task[h].pc # "routed"
  BY DEF AnalysisInv, AnalysisTypeOK, TaskOK, Asking
<1>2. counter[tier] \in Nat /\ n = counter[tier] + 1 /\ counter'[tier] = n
      /\ (\A t \in Tiers \ {tier} : counter'[t] = counter[t])
      /\ counter' \in [Tiers -> Nat]
  BY <1>1 DEF AnalysisInv, AnalysisTypeOK, NextNumber
<1>3. bps \in Nat /\ bps \in 0 .. FullConfidence
  BY AnalysisAssumption DEF ConfidenceFromJson
<1>4. rule.kind = "rule" /\ rule.hint = h /\ rule.source = s /\ rule.bps = bps
  OBVIOUS
<1>5. PICK t :
        /\ task' = [task EXCEPT ![h] = t]
        /\ \/ t = [pc |-> "analyze", tier |-> "70b"] /\ task[h].tier = "8b"
           \/ /\ t = [pc |-> "routed", tier |-> task[h].tier, result |-> j]
              /\ IsSafeAnalysis(j, h)
           \/ t = [pc |-> "routed", tier |-> "none", result |-> FailedClosed(h)]
  BY <1>1, ResolveMoves
<1>6. TaskOK(t)
  <2>1. t.pc \in {"analyze", "routed"} /\ (t.pc = "analyze" => t = [pc |-> "analyze", tier |-> "70b"])
    BY <1>5
  <2> QED
    BY <2>1 DEF TaskOK, TaskStages, Asking, Tiers
<1>7. /\ task' = [g \in Hints |-> task'[g]]
      /\ \A g \in Hints : TaskOK(task'[g])
      /\ task'[h] = t
      /\ \A g \in Hints \ {h} : task'[g] = task[g]
  BY <1>5, <1>6, TaskKeeps DEF AnalysisInv
<1>8. new[1] = h /\ new[2] = tier /\ new[3] = s /\ new[4] = bps
  BY <1>0
<1>9. AnalysisTypeOK'
  BY <1>0, <1>2, <1>3, <1>7, <1>8 DEF AnalysisInv, AnalysisTypeOK
<1>10. (\A r \in issued : Numbered(r))'
  BY <1>1, <1>2 DEF AnalysisInv, Numbered
<1>11. NamesAreUnique'
  <2>1. ASSUME NEW r \in issued, r[1] = tier PROVE r[2] # n
    BY <1>2, <2>1 DEF AnalysisInv, Numbered
  <2> QED
    BY <2>1 DEF AnalysisInv, NamesAreUnique
<1>12. ASSUME NEW a \in assessed, Confident(a) PROVE Kept(a)'
  <2>1. a[1] \in Hints /\ task[a[1]].pc = "routed" /\ Kept(a)
    BY <1>12 DEF AnalysisInv, AnalysisTypeOK, Kept
  <2>2. task'[a[1]] = task[a[1]]
    BY <2>1, <1>1, <1>7
  <2> QED
    BY <2>1, <2>2 DEF Kept, Confident
<1>13. ASSUME Confident(new) PROVE Kept(new)'
  <2>1. ValidateRule(rule)
    BY <1>3, <1>4, <1>8, <1>13 DEF ValidateRule, Confident
  <2>2. IsSafeAnalysis(j, h) /\ j.bps = bps /\ j.rule = rule
    BY <2>1, <1>4, ConfidentIsSafe
  <2>3. tier = "8b" /\ bps >= EscalationConfidence
    BY <1>8, <1>13 DEF Confident
  <2>4. task' = [task EXCEPT ![h] = [pc |-> "routed", tier |-> "8b", result |-> j]]
    BY <2>2, <2>3 DEF Resolve, Routed
  <2>5. task'[h] = [pc |-> "routed", tier |-> "8b", result |-> j]
    BY <2>4 DEF AnalysisInv, AnalysisTypeOK
  <2>6. task'[h].pc = "routed" /\ task'[h].tier = "8b" /\ task'[h].result = j
    BY <2>5
  <2>7. j.rule.source = s /\ j.bps = bps
    BY <2>2, <1>4
  <2> HIDE DEF j, bps, s
  <2> QED
    BY <2>6, <2>7, <1>8 DEF Kept
<1>14. (\A a \in assessed : Kept(a))'
  <2>1. ASSUME NEW a \in assessed' PROVE Kept(a)'
    <3>1. a \in assessed \/ a = new
      BY <2>1, <1>0
    <3>2. CASE Confident(a)
      BY <1>12, <1>13, <3>1, <3>2
    <3>3. CASE ~ Confident(a)
      BY <3>3 DEF Kept, Confident
    <3> QED
      BY <3>2, <3>3
  <2> QED
    BY <2>1
<1>15. SubmittedIsBacked'
  <2>1. ASSUME t.pc = "routed", t.result.submit
        PROVE  /\ t.tier # "none"
               /\ t.result.rule # NoRule /\ t.result.rule.hint = h
               /\ t.result.rule.bps = t.result.bps /\ t.result.rule.bps >= MinConfidence
               /\ t.result.rule.source.valid
               /\ <<h, t.tier, t.result.rule.source, t.result.rule.bps>> \in assessed'
    <3>1. ~ FailedClosed(h).submit
      BY DEF FailedClosed
    <3>2. t.tier = tier /\ t.result = j /\ IsSafeAnalysis(j, h)
      BY <2>1, <3>1, <1>5
    <3>3. j.submit
      BY <2>1, <3>2
    <3>4. IsSubmittable(rule) /\ ValidateRule(rule)
      BY <3>3 DEF Judged, IsSubmittable
    <3>5. j.bps = bps /\ j.rule = rule
      BY <3>4, <1>4, ConfidentIsSafe
    <3>6. rule # NoRule
      BY <1>4 DEF NoRule
    <3>7. rule.bps >= MinConfidence /\ tier # "none"
      BY <3>4, <1>1 DEF IsSubmittable, Tiers
    <3>8. rule.source.valid
      BY <3>4 DEF ValidateRule
    <3>9. t.result.rule = rule /\ t.result.bps = bps
      BY <3>2, <3>5
    <3>10. <<h, t.tier, t.result.rule.source, t.result.rule.bps>> = new
      BY <3>2, <3>9, <1>0, <1>4
    <3> HIDE DEF j, bps, s, n
    <3> QED
      BY <3>2, <3>6, <3>7, <3>8, <3>9, <3>10, <1>0, <1>4
  <2>2. ASSUME NEW g \in Hints, task'[g].pc = "routed", task'[g].result.submit
        PROVE  LET rule_1 == task'[g].result.rule
               IN /\ task'[g].tier # "none"
                  /\ rule_1 # NoRule /\ rule_1.hint = g
                  /\ rule_1.bps = task'[g].result.bps /\ rule_1.bps >= MinConfidence
                  /\ built'[task'[g].tier] = "Analyzer" =>
                       /\ rule_1.source.valid
                       /\ <<g, task'[g].tier, rule_1.source, rule_1.bps>> \in assessed'
    <3>1. CASE g = h
      BY <3>1, <2>1, <2>2, <1>7
    <3>2. CASE g # h
      BY <3>2, <2>2, <1>7 DEF AnalysisInv, SubmittedIsBacked
    <3> QED
      BY <3>1, <3>2
  <2> QED
    BY <2>2 DEF SubmittedIsBacked
<1> QED
  BY <1>9, <1>10, <1>11, <1>14, <1>15 DEF AnalysisInv

\* Every step of every coroutine keeps the invariant.
LEMMA AnalysisNextInv == AnalysisInv /\ [AnalysisNext]_analysisVars => AnalysisInv'
<1> SUFFICES ASSUME AnalysisInv, [AnalysisNext]_analysisVars PROVE AnalysisInv'
  OBVIOUS
<1> USE DEF Asking
<1>1. CASE UNCHANGED analysisVars
  BY <1>1 DEF analysisVars, AnalysisInv, AnalysisTypeOK, Numbered, NamesAreUnique, Kept,
              SubmittedIsBacked
<1>2. ASSUME NEW h \in Hints, ProcessThreatHint(h) PROVE AnalysisInv'
  <2>1. TaskOK([pc |-> "analyze", tier |-> "8b"])
    BY DEF TaskOK, TaskStages, Tiers
  <2> QED
    BY <1>2, <2>1, QuietStep DEF ProcessThreatHint
<1>3. ASSUME NEW h \in Hints, NEW e \in Envelopes, AnalyzeThreat(h, e) PROVE AnalysisInv'
  <2>1. task[h].pc = "analyze" /\ TaskOK(task[h])
    BY <1>3 DEF AnalyzeThreat, Awaits, AnalysisInv, AnalysisTypeOK
  <2>2. UNCHANGED <<built, counter, issued, assessed>>
    BY <1>3 DEF AnalyzeThreat
  <2>3. CASE ~ ModelCompletion(e)
    BY <1>3, <2>1, <2>2, <2>3, FailedResolve DEF AnalyzeThreat
  <2>4. CASE ModelCompletion(e)
    <3>1. task' = [task EXCEPT ![h].pc = "generate"]
      BY <1>3, <2>4 DEF AnalyzeThreat
    <3>2. PICK t : t = [pc |-> "generate", tier |-> task[h].tier]
      OBVIOUS
    <3>3. task[h] = [pc |-> "analyze", tier |-> task[h].tier] /\ task[h].tier \in Tiers
      BY <2>1 DEF TaskOK
    <3>4. [task[h] EXCEPT !.pc = "generate"] = t
      BY <3>2, <3>3
    <3>5. task' = [task EXCEPT ![h] = t]
      BY <3>1, <3>4
    <3>6. TaskOK(t) /\ t.pc = "generate"
      BY <3>2, <3>3 DEF TaskOK, TaskStages
    <3> QED
      BY <3>5, <3>6, <2>1, <2>2, QuietStep
  <2> QED
    BY <2>3, <2>4
<1>4. ASSUME NEW h \in Hints, NEW e \in Envelopes, GenerateYaraRule(h, e) PROVE AnalysisInv'
  <2>1. task[h].pc = "generate" /\ TaskOK(task[h])
    BY <1>4 DEF GenerateYaraRule, Awaits, AnalysisInv, AnalysisTypeOK
  <2>2. UNCHANGED <<built, counter, issued, assessed>>
    BY <1>4 DEF GenerateYaraRule
  <2>3. CASE ~ ModelCompletion(e)
    BY <1>4, <2>1, <2>2, <2>3, FailedResolve DEF GenerateYaraRule
  <2>4. CASE ModelCompletion(e)
    <3>1. PICK t : t = [pc |-> "assess", tier |-> task[h].tier, source |-> e.source]
      OBVIOUS
    <3>2. task' = [task EXCEPT ![h] = t]
      BY <1>4, <2>4, <3>1 DEF GenerateYaraRule
    <3>3. TaskOK(t) /\ t.pc = "assess"
      BY <2>1, <3>1 DEF TaskOK, TaskStages
    <3> QED
      BY <3>2, <3>3, <2>1, <2>2, QuietStep
  <2> QED
    BY <2>3, <2>4
<1>5. ASSUME NEW h \in Hints, NEW e \in Envelopes, AssessYaraRule(h, e) PROVE AnalysisInv'
  <2>1. task[h].pc = "assess" /\ built' = built
    BY <1>5 DEF AssessYaraRule, Awaits
  <2>2. CASE ModelCompletion(e) /\ ConfidenceFromJson(e)
    <3>1. PICK rule :
            rule = [kind |-> "rule", name |-> NextNumber(h), hint |-> h,
                    source |-> task[h].source, bps |-> e.json.value.bps]
      OBVIOUS
    <3>2. /\ counter' = [counter EXCEPT ![task[h].tier] = NextNumber(h)]
          /\ issued' = issued \union {<<task[h].tier, NextNumber(h), h, task[h].source>>}
          /\ assessed' = assessed \union
                           {<<h, task[h].tier, task[h].source, e.json.value.bps>>}
          /\ Resolve(h, Judged(h, rule))
      BY <1>5, <2>2, <3>1 DEF AssessYaraRule
    <3> QED
      BY <2>1, <2>2, <3>1, <3>2, AssessedStep
  <2>3. CASE ~ (ModelCompletion(e) /\ ConfidenceFromJson(e))
    <3>1. Resolve(h, FailedClosed(h)) /\ UNCHANGED <<counter, issued, assessed>>
      BY <1>5, <2>3 DEF AssessYaraRule
    <3> QED
      BY <2>1, <3>1, FailedResolve
  <2> QED
    BY <2>2, <2>3
<1>6. ASSUME NEW h \in Hints, NEW r \in ForeignResults, ForeignReturns(h, r) PROVE AnalysisInv'
  <2>1. PICK answer : Resolve(h, answer)
    BY <1>6 DEF ForeignReturns
  <2> QED
    BY <1>6, <2>1, QuietResolve DEF ForeignReturns
<1>7. ASSUME NEW h \in Hints, ForeignRaises(h) PROVE AnalysisInv'
  <2>1. /\ task[h].pc = "analyze" /\ task[h].tier \in Tiers
        /\ ResolveRaised(h)
        /\ UNCHANGED <<built, counter, issued, assessed>>
    BY <1>7 DEF ForeignRaises, AnalysisInv, AnalysisTypeOK, TaskOK
  <2>2. CASE task[h].tier = "8b"
    <3>1. TaskOK([pc |-> "analyze", tier |-> "70b"])
      BY DEF TaskOK, TaskStages, Tiers
    <3> QED
      BY <2>1, <2>2, <3>1, QuietStep DEF ResolveRaised
  <2>3. CASE task[h].tier = "70b"
    <3>1. PICK t : t = [pc |-> "routed", tier |-> "none", result |-> FailedClosed(h)]
      OBVIOUS
    <3>2. task' = [task EXCEPT ![h] = t]
      BY <2>1, <2>3, <3>1 DEF ResolveRaised, Routed
    <3>3. TaskOK(t) /\ ~ t.result.submit
      BY <3>1 DEF TaskOK, TaskStages, FailedClosed
    <3> QED
      BY <2>1, <3>2, <3>3, QuietStep
  <2> QED
    BY <2>1, <2>2, <2>3 DEF Tiers
<1>8. ASSUME NEW h \in Hints, Cancel(h) PROVE AnalysisInv'
  <2>1. TaskOK([pc |-> "cancelled"])
    BY DEF TaskOK, TaskStages
  <2> QED
    BY <1>8, <2>1, QuietStep DEF Cancel
<1> QED
  BY <1>1, <1>2, <1>3, <1>4, <1>5, <1>6, <1>7, <1>8
     DEF AnalysisNext, Answered, AllEnded

\* The inductive invariant of the analysis: numbers given out are below the counters and
\* a confident 8B assessment is the answer of its hint.
THEOREM AnalysisInvariant == AnalysisSpec => []AnalysisInv
<1> QED
  BY AnalysisInitInv, AnalysisNextInv, PTL DEF AnalysisSpec

\* What the analysis answers with is backed by the model's own words about that source
\* and hint, a confident 8B answer is not overruled, and rule names are used once, for
\* any number of concurrent hints, any answers and any thresholds.
THEOREM AnalysisIsSound == AnalysisSpec => []AnswersAreSound
<1>1. AnalysisInv => AnswersAreSound
  <2> SUFFICES ASSUME AnalysisInv PROVE ConfidentIsKept
    BY DEF AnswersAreSound, AnalysisInv
  <2> QED
    BY DEF ConfidentIsKept, AnalysisInv, Kept, Confident
<1> QED
  BY <1>1, AnalysisInvariant, PTL

\* The awaits a coroutine has before it at most.
AwaitsLeft(t) ==
    CASE t.pc = "idle" -> 7
      [] t.pc = "analyze" -> IF t.tier = "8b" THEN 6 ELSE 3
      [] t.pc = "generate" -> IF t.tier = "8b" THEN 5 ELSE 2
      [] t.pc = "assess" -> IF t.tier = "8b" THEN 4 ELSE 1
      [] OTHER -> 0

\* Each step of a coroutine leaves it fewer awaits: each tier is asked at most once, a
\* result is never taken back and a cancelled hint never resumes.
AnalysisAdvances ==
    \A h \in Hints : task'[h] # task[h] => AwaitsLeft(task'[h]) < AwaitsLeft(task[h])

\* One coroutine moves, and it moves forward.
LEMMA OneAdvances ==
  ASSUME AnalysisTypeOK, NEW h \in Hints, NEW t, task' = [task EXCEPT ![h] = t],
         AwaitsLeft(t) < AwaitsLeft(task[h])
  PROVE  AnalysisAdvances
<1>1. task'[h] = t /\ \A g \in Hints \ {h} : task'[g] = task[g]
  BY DEF AnalysisTypeOK
<1> QED
  BY <1>1 DEF AnalysisAdvances

\* The router sends an 8B hint to the 70B tier and everything else to its end.
LEMMA ResolveAdvances ==
  ASSUME AnalysisInv, NEW h \in Hints, NEW r, task[h].pc \in Asking, Resolve(h, r)
  PROVE  AnalysisAdvances
<1>1. PICK t :
        /\ task' = [task EXCEPT ![h] = t]
        /\ \/ t = [pc |-> "analyze", tier |-> "70b"] /\ task[h].tier = "8b"
           \/ /\ t = [pc |-> "routed", tier |-> task[h].tier, result |-> r]
              /\ IsSafeAnalysis(r, h)
           \/ t = [pc |-> "routed", tier |-> "none", result |-> FailedClosed(h)]
  BY ResolveMoves
<1>2. \/ t.pc = "analyze" /\ t.tier = "70b" /\ task[h].tier = "8b"
      \/ t.pc = "routed"
  BY <1>1
<1>3. AwaitsLeft(t) < AwaitsLeft(task[h])
  BY <1>2 DEF AwaitsLeft, Asking
<1> QED
  BY <1>1, <1>3, OneAdvances DEF AnalysisInv

\* Hints go through the tiers once and end: the measure that the liveness of the router
\* rests on, for any number of hints and any answers.
THEOREM AnalysisOnlyAdvances == AnalysisSpec => [][AnalysisAdvances]_analysisVars
<1>1. ASSUME AnalysisInv, AnalysisNext PROVE AnalysisAdvances
  <2> USE DEF Asking
  <2>1. CASE AllEnded
    BY <2>1 DEF AllEnded, analysisVars, AnalysisAdvances
  <2>2. ASSUME NEW h \in Hints, ProcessThreatHint(h) PROVE AnalysisAdvances
    <3>1. PICK t : t = [pc |-> "analyze", tier |-> "8b"]
      OBVIOUS
    <3>2. AwaitsLeft(t) < AwaitsLeft(task[h])
      BY <2>2, <3>1 DEF AwaitsLeft, ProcessThreatHint
    <3> QED
      BY <1>1, <2>2, <3>1, <3>2, OneAdvances DEF ProcessThreatHint, AnalysisInv
  <2>3. ASSUME NEW h \in Hints, NEW e \in Envelopes,
               AnalyzeThreat(h, e) \/ GenerateYaraRule(h, e) \/ AssessYaraRule(h, e)
        PROVE  AnalysisAdvances
    <3>1. task[h].pc \in Asking /\ TaskOK(task[h])
      BY <1>1, <2>3 DEF AnalyzeThreat, GenerateYaraRule, AssessYaraRule, Awaits, AnalysisInv,
                        AnalysisTypeOK
    <3>2. CASE \E r : Resolve(h, r)
      BY <1>1, <3>1, <3>2, ResolveAdvances
    <3>3. CASE AnalyzeThreat(h, e) /\ task' = [task EXCEPT ![h].pc = "generate"]
      <4>1. PICK t : t = [pc |-> "generate", tier |-> task[h].tier]
        OBVIOUS
      <4>2. task[h].pc = "analyze"
        BY <3>3 DEF AnalyzeThreat, Awaits
      <4>3. task[h] = [pc |-> "analyze", tier |-> task[h].tier]
        BY <3>1, <4>2 DEF TaskOK
      <4>4. [task[h] EXCEPT !.pc = "generate"] = t
        BY <4>1, <4>3
      <4>5. task' = [task EXCEPT ![h] = t]
        BY <3>3, <4>4
      <4>6. AwaitsLeft(t) < AwaitsLeft(task[h])
        BY <4>1, <4>2 DEF AwaitsLeft
      <4> QED
        BY <1>1, <4>5, <4>6, OneAdvances DEF AnalysisInv
    <3>4. CASE GenerateYaraRule(h, e)
               /\ task' = [task EXCEPT ![h] = [pc |-> "assess", tier |-> task[h].tier,
                                               source |-> e.source]]
      <4>1. PICK t : t = [pc |-> "assess", tier |-> task[h].tier, source |-> e.source]
        OBVIOUS
      <4>2. task[h].pc = "generate"
        BY <3>4 DEF GenerateYaraRule, Awaits
      <4>3. AwaitsLeft(t) < AwaitsLeft(task[h])
        BY <4>1, <4>2 DEF AwaitsLeft
      <4> QED
        BY <1>1, <3>4, <4>1, <4>3, OneAdvances DEF AnalysisInv
    <3>5. CASE AnalyzeThreat(h, e)
      <4>1. task' = [task EXCEPT ![h].pc = "generate"] \/ Resolve(h, FailedClosed(h))
        BY <3>5 DEF AnalyzeThreat
      <4> QED
        BY <3>2, <3>3, <3>5, <4>1
    <3>6. CASE GenerateYaraRule(h, e)
      <4>1. \/ task' = [task EXCEPT ![h] = [pc |-> "assess", tier |-> task[h].tier,
                                            source |-> e.source]]
            \/ Resolve(h, FailedClosed(h))
        BY <3>6 DEF GenerateYaraRule
      <4> QED
        BY <3>2, <3>4, <3>6, <4>1
    <3>7. CASE AssessYaraRule(h, e)
      <4>1. (\E rule : Resolve(h, Judged(h, rule))) \/ Resolve(h, FailedClosed(h))
        BY <3>7 DEF AssessYaraRule
      <4> QED
        BY <3>2, <4>1
    <3> QED
      BY <2>3, <3>5, <3>6, <3>7
  <2>4. ASSUME NEW h \in Hints, NEW r \in ForeignResults, ForeignReturns(h, r)
        PROVE  AnalysisAdvances
    <3>1. PICK answer : Resolve(h, answer)
      BY <2>4 DEF ForeignReturns
    <3> QED
      BY <1>1, <2>4, <3>1, ResolveAdvances DEF ForeignReturns
  <2>5. ASSUME NEW h \in Hints, ForeignRaises(h) PROVE AnalysisAdvances
    <3>1. PICK t :
            /\ task' = [task EXCEPT ![h] = t]
            /\ \/ t = [pc |-> "analyze", tier |-> "70b"] /\ task[h].tier = "8b"
               \/ t = [pc |-> "routed", tier |-> "none", result |-> FailedClosed(h)]
      BY <2>5 DEF ForeignRaises, ResolveRaised, Routed
    <3>2. \/ t.pc = "analyze" /\ t.tier = "70b" /\ task[h].tier = "8b"
          \/ t.pc = "routed"
      BY <3>1
    <3>3. AwaitsLeft(t) < AwaitsLeft(task[h])
      BY <2>5, <3>2 DEF AwaitsLeft, ForeignRaises
    <3> QED
      BY <1>1, <3>1, <3>3, OneAdvances DEF AnalysisInv
  <2>6. ASSUME NEW h \in Hints, Cancel(h) PROVE AnalysisAdvances
    <3>1. PICK t : t = [pc |-> "cancelled"]
      OBVIOUS
    <3>2. AwaitsLeft(t) < AwaitsLeft(task[h])
      BY <2>6, <3>1 DEF AwaitsLeft, Cancel
    <3> QED
      BY <1>1, <2>6, <3>1, <3>2, OneAdvances DEF Cancel, AnalysisInv
  <2> QED
    BY <1>1, <2>1, <2>2, <2>3, <2>4, <2>5, <2>6 DEF AnalysisNext, Answered
<1> QED
  BY <1>1, AnalysisInvariant, PTL DEF AnalysisSpec

-----------------------------------------------------------------------------
(* The documents of the confidence evaluation. *)

\* Rows of confidences the model gave, in case order, for that corpus.
RowsAnswered(c, rows) ==
    /\ rows \in Seq([id : Nat, bps : 0 .. FullScore])
    /\ \A i \in 1 .. Len(rows) : rows[i].id = i /\ <<c.text, i, rows[i].bps>> \in answered

\* A file of captured predictions is missing or complete.
CapturedOK(d) ==
    d # Absent =>
        /\ d.mode = "local_model_candidate" /\ d.prompt = ServerPrompt
        /\ ParseCorpus(d.corpus)
        /\ Len(d.rows) = NumCases
        /\ RowsAnswered(d.corpus, d.rows)

ManifestOK(d) ==
    d # Absent => d = Manifest(d.corpus, d.predictions, d.policy, d.report)

\* The capture has asked about the first cases of a corpus that parses.
CapOK ==
    cap # Stopped =>
        /\ cap = [pc |-> "asking", corpus |-> cap.corpus, subject |-> cap.subject,
                  rows |-> cap.rows]
        /\ ParseCorpus(cap.corpus)
        /\ RowsAnswered(cap.corpus, cap.rows)
        /\ Len(cap.rows) <= NumCases

\* What the evaluation has read so far came from files of the right kind.
ReadOK ==
    /\ ev = [pc |-> "reading", candidate |-> ev.candidate, read |-> ev.read]
    /\ ev.candidate \in BOOLEAN
    /\ \E S : ev.read \in Seq(S)
    /\ ev.candidate /\ Len(ev.read) >= 2 => ev.read[2] # Absent /\ CapturedOK(ev.read[2])
    /\ ~ ev.candidate /\ Len(ev.read) >= 5 => ev.read[5] # Absent /\ ManifestOK(ev.read[5])

EvidenceTypeOK ==
    /\ files = [path \in Paths |-> files[path]]
    /\ ev.pc \in {"stopped", "reading", "emitted", "failed"}

\* The strengthening: what the model was asked is on every document on its way to a
\* report, whoever edits which file in between.
EvidenceInv ==
    /\ EvidenceTypeOK
    /\ CapturedOK(files["captured"])
    /\ ManifestOK(files["manifest"])
    /\ CapOK
    /\ ev.pc = "reading" => ReadOK
    /\ EvidenceFits

\* Nothing has been captured or evaluated at the start.
LEMMA EvidenceInitInv == EvidenceInit => EvidenceInv
<1> SUFFICES ASSUME EvidenceInit PROVE EvidenceInv
  OBVIOUS
<1>0. PICK t \in Texts, bps \in ModelAnswers \intersect (0 .. FullScore) :
         LET c == [text |-> t, sound |-> TRUE]
             p == SyntheticPredictions(c, bps)
             q == [exact |-> TRUE]
             r == Report(c, p, q)
         IN files = [path \in Paths |->
                CASE path = "corpus" -> c [] path = "predictions" -> p
                  [] path = "policy" -> q [] path = "report" -> r
                  [] path = "manifest" -> Manifest(c, p, q, r)
                  [] OTHER -> Absent]
  BY DEF EvidenceInit
<1> DEFINE c == [text |-> t, sound |-> TRUE]
           p == SyntheticPredictions(c, bps)
           q == [exact |-> TRUE]
           r == Report(c, p, q)
<1>1. files = [path \in Paths |->
                 CASE path = "corpus" -> c [] path = "predictions" -> p
                   [] path = "policy" -> q [] path = "report" -> r
                   [] path = "manifest" -> Manifest(c, p, q, r)
                   [] OTHER -> Absent]
  BY <1>0
<1> HIDE DEF c, p, q, r
<1>2. files = [path \in Paths |-> files[path]]
  BY <1>1
<1>3. files["captured"] = Absent /\ files["manifest"] = Manifest(c, p, q, r)
  BY <1>1 DEF Paths
<1>4. ManifestOK(files["manifest"])
  BY <1>3 DEF ManifestOK, Manifest
<1>5. ev.pc = "stopped" /\ cap = Stopped
  BY DEF EvidenceInit, Stopped
<1>6. EvidenceFits
  BY <1>5 DEF EvidenceFits, AnswersFitCorpus, CaptureIsEvaluable, VerifiedIsCommitted
<1> QED
  BY <1>2, <1>3, <1>4, <1>5, <1>6 DEF EvidenceInv, EvidenceTypeOK, CapturedOK, CapOK

\* What was answered stays answered.
LEMMA AnsweredGrows ==
  ASSUME answered \subseteq answered', NEW c, NEW rows, RowsAnswered(c, rows)
  PROVE  RowsAnswered(c, rows)'
BY DEF RowsAnswered

\* A document, once captured, stays good.
LEMMA CapturedStays ==
  ASSUME answered \subseteq answered', NEW d, CapturedOK(d)
  PROVE  CapturedOK(d)'
<1> SUFFICES ASSUME d # Absent PROVE CapturedOK(d)'
  BY DEF CapturedOK
<1>1. RowsAnswered(d.corpus, d.rows)'
  BY AnsweredGrows DEF CapturedOK
<1> QED
  BY <1>1 DEF CapturedOK

\* A step that leaves the evaluation alone, and forgets no answer, keeps what it has read
\* and what it has reported.
LEMMA EvaluationRests ==
  ASSUME EvidenceInv, ev' = ev, answered \subseteq answered'
  PROVE  /\ ev'.pc \in {"stopped", "reading", "emitted", "failed"}
         /\ ev'.pc = "reading" => ReadOK'
         /\ EvidenceFits'
<1>1. ASSUME ev.pc = "reading" PROVE ReadOK'
  <2>1. ReadOK
    BY <1>1 DEF EvidenceInv
  <2>2. CapturedOK(ev.read[2]) => CapturedOK(ev.read[2])'
    BY CapturedStays
  <2>3. ManifestOK(ev.read[5]) => ManifestOK(ev.read[5])'
    BY DEF ManifestOK
  <2> QED
    BY <2>1, <2>2, <2>3, ev' = ev, Zenon DEF ReadOK, CapturedOK
<1>2. EvidenceFits'
  BY DEF EvidenceInv, EvidenceFits, AnswersFitCorpus, CaptureIsEvaluable, VerifiedIsCommitted
<1> QED
  BY <1>1, <1>2 DEF EvidenceInv, EvidenceTypeOK

\* An edit of one file by the owner: only "captured" and "manifest" matter, and what is
\* put there is nothing or a manifest.
LEMMA PutKeeps ==
  ASSUME EvidenceInv, NEW path \in Paths, NEW content, Put(path, content),
         path = "captured" => content = Absent,
         path = "manifest" => ManifestOK(content)
  PROVE  EvidenceInv'
<1>1. /\ files' = [p \in Paths |-> files'[p]]
      /\ files'["captured"] \in {files["captured"], Absent}
      /\ files'["manifest"] = files["manifest"] \/ ManifestOK(files'["manifest"])
  BY DEF Put, EvidenceInv, EvidenceTypeOK, Paths
<1>2. UNCHANGED <<modelDir, cap, answered, ev>>
  BY DEF Put
<1>3. CapturedOK(files["captured"])'
  BY <1>1, <1>2 DEF EvidenceInv, CapturedOK, RowsAnswered
<1>4. ManifestOK(files["manifest"])'
  BY <1>1 DEF EvidenceInv, ManifestOK
<1>5. CapOK'
  BY <1>2 DEF EvidenceInv, CapOK, RowsAnswered
<1> QED
  BY <1>1, <1>2, <1>3, <1>4, <1>5, EvaluationRests DEF EvidenceInv, EvidenceTypeOK

\* A step of the evaluation alone keeps the rest.
LEMMA CaptureRests ==
  ASSUME EvidenceInv, UNCHANGED <<files, modelDir, edits, cap, answered>>
  PROVE  /\ (files = [path \in Paths |-> files[path]])'
         /\ CapturedOK(files["captured"])'
         /\ ManifestOK(files["manifest"])'
         /\ CapOK'
BY DEF EvidenceInv, EvidenceTypeOK, CapturedOK, ManifestOK, CapOK, RowsAnswered

\* The capture: it begins with a corpus that parses and no rows, each valid answer adds
\* the row of the next case, and what it releases is complete.
LEMMA CaptureSteps ==
  ASSUME EvidenceInv,
         \/ \E supplied \in {Absent} \union [digest : Digests] : StartCapture(supplied)
         \/ \E bps \in ModelAnswers : Assess(bps)
         \/ AssessFails \/ Release
  PROVE  EvidenceInv'
<1>1. ASSUME NEW supplied \in {Absent} \union [digest : Digests], StartCapture(supplied)
      PROVE  EvidenceInv'
  <2>1. UNCHANGED <<files, modelDir, edits, answered, ev>>
    BY <1>1 DEF StartCapture
  <2>2. PICK a : cap' = [pc |-> "asking", corpus |-> files["corpus"], subject |-> a,
                         rows |-> <<>>]
    BY <1>1 DEF StartCapture
  <2>3. ParseCorpus(files["corpus"])
    BY <1>1 DEF StartCapture
  <2>4. cap' = [pc |-> "asking", corpus |-> cap'.corpus, subject |-> cap'.subject,
                rows |-> cap'.rows]
        /\ cap'.corpus = files["corpus"] /\ cap'.rows = <<>>
    BY <2>2
  <2>5. CapOK'
    <3>1. ParseCorpus(cap'.corpus)
      BY <2>3, <2>4
    <3>2. RowsAnswered(cap.corpus, cap.rows)' /\ Len(cap'.rows) <= NumCases
      BY <2>4, EvidenceAssumption DEF RowsAnswered
    <3> QED
      BY <2>4, <3>1, <3>2 DEF CapOK, ParseCorpus
  <2>6. /\ (files = [path \in Paths |-> files[path]])'
        /\ CapturedOK(files["captured"])'
        /\ ManifestOK(files["manifest"])'
    BY <2>1 DEF EvidenceInv, EvidenceTypeOK, CapturedOK, ManifestOK, RowsAnswered
  <2> QED
    BY <2>1, <2>5, <2>6, EvaluationRests DEF EvidenceInv, EvidenceTypeOK
<1>2. ASSUME NEW bps \in ModelAnswers, Assess(bps) PROVE EvidenceInv'
  <2>1. UNCHANGED <<files, modelDir, edits, ev>>
    BY <1>2 DEF Assess
  <2>2. answered \subseteq answered'
    BY <1>2 DEF Assess
  <2>3. cap # Stopped /\ CapOK /\ Len(cap.rows) < NumCases
    BY <1>2 DEF Assess, Stopped, EvidenceInv
  <2>4. ASSUME bps \notin 0 .. FullScore PROVE CapOK'
    BY <1>2, <2>4 DEF Assess, CapOK
  <2>5. ASSUME bps \in 0 .. FullScore PROVE CapOK'
    <3> DEFINE i == Len(cap.rows) + 1
               row == [id |-> i, bps |-> bps]
               R == [id : Nat, bps : 0 .. FullScore]
    <3>1. cap.rows \in Seq(R) /\ Len(cap.rows) \in Nat /\ i \in Nat
      BY <2>3 DEF CapOK, RowsAnswered
    <3>2. row \in R /\ row.id = i /\ row.bps = bps
      BY <3>1, <2>5
    <3>3. PICK rows : rows = Append(cap.rows, row)
      OBVIOUS
    <3>4. /\ cap' = [cap EXCEPT !.rows = rows]
          /\ answered' = answered \union {<<cap.corpus.text, i, bps>>}
      BY <1>2, <2>5, <3>3 DEF Assess
    <3>5. cap = [pc |-> "asking", corpus |-> cap.corpus, subject |-> cap.subject,
                 rows |-> cap.rows]
      BY <2>3 DEF CapOK
    <3>6. cap' = [pc |-> "asking", corpus |-> cap.corpus, subject |-> cap.subject,
                  rows |-> rows]
      BY <3>4, <3>5
    <3>7. /\ cap'.corpus = cap.corpus /\ cap'.rows = rows
          /\ cap' = [pc |-> "asking", corpus |-> cap'.corpus, subject |-> cap'.subject,
                     rows |-> cap'.rows]
      BY <3>6
    <3> HIDE DEF row, R
    <3>8. rows \in Seq(R) /\ Len(rows) = i /\ rows[i] = row
          /\ \A k \in 1 .. Len(cap.rows) : rows[k] = cap.rows[k]
      BY <3>1, <3>2, <3>3
    <3>9. ASSUME NEW k \in 1 .. i
          PROVE  rows[k].id = k /\ <<cap.corpus.text, k, rows[k].bps>> \in answered'
      <4>1. CASE k = i
        BY <3>2, <3>4, <3>8, <4>1
      <4>2. CASE k # i
        <5>1. k \in 1 .. Len(cap.rows)
          BY <3>1, <4>2
        <5> QED
          BY <5>1, <3>8, <2>2, <2>3 DEF CapOK, RowsAnswered
      <4> QED
        BY <4>1, <4>2
    <3>10. RowsAnswered(cap.corpus, cap.rows)'
      BY <3>7, <3>8, <3>9 DEF RowsAnswered, R
    <3>11. Len(rows) <= NumCases
      BY <3>1, <3>8, <2>3, EvidenceAssumption
    <3>12. ParseCorpus(cap'.corpus)
      BY <3>7, <2>3 DEF CapOK
    <3> QED
      BY <3>7, <3>10, <3>11, <3>12 DEF CapOK, ParseCorpus
  <2>6. CapOK'
    BY <2>4, <2>5
  <2>7. CapturedOK(files["captured"])'
    BY <2>1, <2>2, CapturedStays DEF EvidenceInv
  <2>8. ManifestOK(files["manifest"])' /\ (files = [path \in Paths |-> files[path]])'
    BY <2>1 DEF EvidenceInv, EvidenceTypeOK, ManifestOK
  <2> QED
    BY <2>1, <2>2, <2>6, <2>7, <2>8, EvaluationRests DEF EvidenceInv, EvidenceTypeOK
<1>3. CASE AssessFails
  <2>1. CapOK'
    BY <1>3 DEF AssessFails, CapOK
  <2>2. /\ (files = [path \in Paths |-> files[path]])'
        /\ CapturedOK(files["captured"])'
        /\ ManifestOK(files["manifest"])'
    BY <1>3 DEF AssessFails, EvidenceInv, EvidenceTypeOK, CapturedOK, ManifestOK, RowsAnswered
  <2>3. ev' = ev /\ answered \subseteq answered'
    BY <1>3 DEF AssessFails
  <2> QED
    BY <2>1, <2>2, <2>3, EvaluationRests DEF EvidenceInv, EvidenceTypeOK
<1>4. CASE Release
  <2>1. /\ cap # Stopped /\ CapOK /\ Len(cap.rows) = NumCases
        /\ cap' = Stopped /\ UNCHANGED <<modelDir, edits, answered, ev>>
    BY <1>4 DEF Release, Stopped, EvidenceInv
  <2>2. PICK d : d = CapturedDocument
    OBVIOUS
  <2>3. d.mode = "local_model_candidate" /\ d.prompt = ServerPrompt
        /\ d.corpus = cap.corpus /\ d.rows = cap.rows
    BY <2>2 DEF CapturedDocument
  <2>4. CapturedOK(d)'
    BY <2>1, <2>3 DEF CapturedOK, CapOK, RowsAnswered, ParseCorpus
  <2>5. /\ files' = [path \in Paths |-> files'[path]]
        /\ files'["captured"] \in {files["captured"], d}
        /\ files'["manifest"] = files["manifest"]
    BY <1>4, <2>2 DEF Release, EvidenceInv, EvidenceTypeOK, Paths
  <2>6. CapturedOK(files["captured"])'
    BY <2>1, <2>4, <2>5 DEF EvidenceInv, CapturedOK, RowsAnswered
  <2>7. ManifestOK(files["manifest"])' /\ CapOK'
    BY <2>1, <2>5 DEF EvidenceInv, ManifestOK, CapOK
  <2> QED
    BY <2>1, <2>5, <2>6, <2>7, EvaluationRests DEF EvidenceInv, EvidenceTypeOK
<1> QED
  BY <1>1, <1>2, <1>3, <1>4

\* The next file is read: what stands second in a candidate's order, or fifth in the
\* committed one, is a captured document or a manifest.
LEMMA ReadBoundedStep ==
  ASSUME EvidenceInv, ReadBounded
  PROVE  EvidenceInv'
<1>1. ReadOK /\ UNCHANGED <<files, modelDir, edits, cap, answered>>
  BY DEF ReadBounded, EvidenceInv
<1>2. PICK content :
        /\ content = files[ReadOrder(ev.candidate)[Len(ev.read) + 1]]
        /\ ev' = IF content = Absent THEN Stopped
                 ELSE [ev EXCEPT !.read = Append(@, content)]
  BY DEF ReadBounded
<1>3. CASE content = Absent
  <2>1. ev'.pc = "stopped"
    BY <1>2, <1>3 DEF Stopped
  <2>2. EvidenceFits'
    BY <2>1 DEF EvidenceFits, AnswersFitCorpus, CaptureIsEvaluable, VerifiedIsCommitted
  <2> QED
    BY <1>1, <2>1, <2>2, CaptureRests DEF EvidenceInv, EvidenceTypeOK
<1>4. CASE content # Absent
  <2>1. PICK S : ev.read \in Seq(S)
    BY <1>1 DEF ReadOK
  <2>2. PICK rows : rows = Append(ev.read, content)
    OBVIOUS
  <2>3. ev = [pc |-> "reading", candidate |-> ev.candidate, read |-> ev.read]
        /\ ev.candidate \in BOOLEAN
    BY <1>1 DEF ReadOK
  <2>4. ev' = [ev EXCEPT !.read = rows]
    BY <1>2, <1>4, <2>2
  <2>5. ev' = [pc |-> "reading", candidate |-> ev.candidate, read |-> rows]
    BY <2>3, <2>4
  <2>6. ev'.pc = "reading" /\ ev'.candidate = ev.candidate /\ ev'.read = rows
    BY <2>5
  <2>7. /\ rows \in Seq(S \union {content})
        /\ Len(rows) = Len(ev.read) + 1 /\ rows[Len(ev.read) + 1] = content
        /\ \A k \in 1 .. Len(ev.read) : rows[k] = ev.read[k]
        /\ Len(ev.read) \in Nat
    BY <2>1, <2>2
  <2>size. PICK n \in Nat : n = Len(ev.read) /\ Len(rows) = n + 1
    BY <2>7
  <2>8. ASSUME ev.candidate, Len(rows) >= 2
        PROVE  rows[2] # Absent /\ CapturedOK(rows[2])
    <3>1. CASE Len(ev.read) = 1
      <4>1. content = files["captured"]
        BY <1>2, <2>8, <3>1 DEF ReadOrder
      <4> QED
        BY <4>1, <3>1, <1>4, <2>7 DEF EvidenceInv
    <3>2. CASE Len(ev.read) # 1
      <4>0. n + 1 >= 2 /\ n # 1
        BY <2>size, <2>8, <3>2
      <4>1. n >= 2 /\ 2 \in 1 .. n
        BY <4>0
      <4>2. rows[2] = ev.read[2]
        BY <2>7, <2>size, <4>1
      <4>3. Len(ev.read) >= 2
        BY <2>size, <4>1
      <4> QED
        BY <4>2, <4>3, <2>8, <1>1, Zenon DEF ReadOK
    <3> QED
      BY <3>1, <3>2
  <2>9. ASSUME ~ ev.candidate, Len(rows) >= 5
        PROVE  rows[5] # Absent /\ ManifestOK(rows[5])
    <3>1. CASE Len(ev.read) = 4
      <4>1. content = files["manifest"]
        BY <1>2, <2>9, <3>1 DEF ReadOrder
      <4> QED
        BY <4>1, <3>1, <1>4, <2>7 DEF EvidenceInv
    <3>2. CASE Len(ev.read) # 4
      <4>0. n + 1 >= 5 /\ n # 4
        BY <2>size, <2>9, <3>2
      <4>1. n >= 5 /\ 5 \in 1 .. n
        BY <4>0
      <4>2. rows[5] = ev.read[5]
        BY <2>7, <2>size, <4>1
      <4>3. Len(ev.read) >= 5
        BY <2>size, <4>1
      <4> QED
        BY <4>2, <4>3, <2>9, <1>1, Zenon DEF ReadOK
    <3> QED
      BY <3>1, <3>2
  <2>11. \E T : ev'.read \in Seq(T)
    BY <2>6, <2>7
  <2>12. ev' = [pc |-> "reading", candidate |-> ev'.candidate, read |-> ev'.read]
         /\ ev'.candidate \in BOOLEAN
    BY <2>3, <2>5, <2>6, Zenon
  <2>13. ev'.candidate /\ Len(ev'.read) >= 2 => ev'.read[2] # Absent /\ CapturedOK(ev.read[2])'
    BY <2>6, <2>8, <1>1 DEF CapturedOK, RowsAnswered
  <2>14. ~ ev'.candidate /\ Len(ev'.read) >= 5 => ev'.read[5] # Absent /\ ManifestOK(ev.read[5])'
    BY <2>6, <2>9 DEF ManifestOK
  <2>15. ReadOK'
    BY <2>11, <2>12, <2>13, <2>14, Zenon DEF ReadOK
  <2>16. EvidenceFits'
    BY <2>6 DEF EvidenceFits, AnswersFitCorpus, CaptureIsEvaluable, VerifiedIsCommitted
  <2> QED
    BY <1>1, <2>6, <2>15, <2>16, CaptureRests DEF EvidenceInv, EvidenceTypeOK
<1> QED
  BY <1>3, <1>4

\* Captured predictions with their own corpus and the development policy are accepted.
LEMMA CapturedIsAccepted ==
  ASSUME NEW c, NEW p, NEW q, CapturedOK(p), p # Absent, p.corpus = c, q.exact
  PROVE  EvaluateCandidateSet(c, p, q)
<1>1. \A i \in 1 .. NumCases : p.rows[i].id = i /\ p.rows[i].bps \in 0 .. FullScore
  <2> DEFINE R == [id : Nat, bps : 0 .. FullScore]
  <2>1. p.rows \in Seq(R) /\ Len(p.rows) = NumCases
    BY DEF CapturedOK, RowsAnswered
  <2>2. \A i \in 1 .. NumCases : p.rows[i] \in R
    <3> HIDE DEF R
    <3> QED
      BY <2>1
  <2> QED
    BY <2>1, <2>2 DEF CapturedOK, RowsAnswered
<1> QED
  BY <1>1, EvidenceAssumption
     DEF EvaluateCandidateSet, ParseCorpus, ParsePredictions, BoundToCorpus, ParsePolicy,
         EvaluationInputs, CapturedOK

\* A candidate report is about answers, a refused candidate does not belong to the corpus
\* or the policy, and a verified report is the committed one.
LEMMA EvaluateStep ==
  ASSUME EvidenceInv, Evaluate
  PROVE  EvidenceInv'
<1>1. ReadOK /\ Len(ev.read) = Len(ReadOrder(ev.candidate))
      /\ UNCHANGED <<files, modelDir, edits, cap, answered>>
  BY DEF Evaluate, EvidenceInv
<1>2. PICK r : r = ev.read
  OBVIOUS
<1>3. CASE ev.candidate
  <2>1. CapturedOK(r[2]) /\ r[2] # Absent
    <3>1. Len(ev.read) = 3
      BY <1>1, <1>3 DEF ReadOrder
    <3>2. Len(ev.read) >= 2
      BY <3>1
    <3> QED
      BY <1>1, <1>2, <1>3, <3>2, Zenon DEF ReadOK
  <2>2. CASE EvaluateCandidateSet(r[1], r[2], r[3])
    <3>1. PICK made : made = Report(r[1], r[2], r[3])
      OBVIOUS
    <3>2. ev' = [pc |-> "emitted", candidate |-> ev.candidate, read |-> r, report |-> made]
      BY <1>2, <1>3, <2>2, <3>1 DEF Evaluate
    <3>3. ev'.pc = "emitted" /\ ev'.candidate = ev.candidate /\ ev'.report = made
      BY <3>2
    <3>4. made.corpus = r[1] /\ made.predictions = r[2] /\ r[2].corpus = r[1]
      BY <3>1, <2>2 DEF Report, EvaluateCandidateSet, ParsePredictions, BoundToCorpus
    <3>5. \A i \in 1 .. NumCases :
            <<made.corpus.text, i, made.predictions.rows[i].bps>> \in answered
      BY <3>4, <2>1 DEF CapturedOK, RowsAnswered
    <3>6. EvidenceFits'
      BY <3>3, <3>5, <1>1, <1>3
         DEF EvidenceFits, AnswersFitCorpus, CaptureIsEvaluable, VerifiedIsCommitted
    <3> QED
      BY <1>1, <3>3, <3>6, CaptureRests DEF EvidenceInv, EvidenceTypeOK
  <2>3. CASE ~ EvaluateCandidateSet(r[1], r[2], r[3])
    <3>1. ev' = [pc |-> "failed", candidate |-> ev.candidate, read |-> r]
      BY <1>2, <1>3, <2>3 DEF Evaluate
    <3>2. ev'.pc = "failed" /\ ev'.candidate = ev.candidate /\ ev'.read = r
      BY <3>1
    <3>3. r[2].corpus # r[1] \/ ~ r[3].exact
      BY <2>1, <2>3, CapturedIsAccepted
    <3>4. EvidenceFits'
      BY <3>2, <3>3 DEF EvidenceFits, AnswersFitCorpus, CaptureIsEvaluable, VerifiedIsCommitted
    <3> QED
      BY <1>1, <3>2, <3>4, CaptureRests DEF EvidenceInv, EvidenceTypeOK
  <2> QED
    BY <2>2, <2>3
<1>4. CASE ~ ev.candidate
  <2>1. ManifestOK(r[5]) /\ r[5] # Absent
    <3>1. Len(ev.read) = 5
      BY <1>1, <1>4 DEF ReadOrder
    <3>2. Len(ev.read) >= 5
      BY <3>1
    <3> QED
      BY <1>1, <1>2, <1>4, <3>2, Zenon DEF ReadOK
  <2>2. CASE VerifyFixtureSet(r[1], r[2], r[3], r[4], r[5])
    <3>1. PICK made : made = Report(r[1], r[2], r[3])
      OBVIOUS
    <3>2. ev' = [pc |-> "emitted", candidate |-> ev.candidate, read |-> r, report |-> made]
      BY <1>2, <1>4, <2>2, <3>1 DEF Evaluate
    <3>3. ev'.pc = "emitted" /\ ev'.candidate = ev.candidate /\ ev'.report = made
          /\ ev'.read = r
      BY <3>2
    <3>4. /\ r[4] = made
          /\ r[5].corpus = r[1] /\ r[5].predictions = r[2] /\ r[5].policy = r[3]
          /\ r[5].report = r[4]
      BY <3>1, <2>2 DEF VerifyFixtureSet, Reproduced, PinnedBy
    <3>5. made.corpus = r[1] /\ made.predictions = r[2] /\ made.policy = r[3]
      BY <3>1 DEF Report
    <3>6. r[5] = Manifest(made.corpus, made.predictions, made.policy, made)
      BY <2>1, <3>4, <3>5 DEF ManifestOK
    <3>7. EvidenceFits'
      BY <3>3, <3>4, <3>6, <1>4
         DEF EvidenceFits, AnswersFitCorpus, CaptureIsEvaluable, VerifiedIsCommitted
    <3> QED
      BY <1>1, <3>3, <3>7, CaptureRests DEF EvidenceInv, EvidenceTypeOK
  <2>3. CASE ~ VerifyFixtureSet(r[1], r[2], r[3], r[4], r[5])
    <3>1. ev' = [pc |-> "failed", candidate |-> ev.candidate, read |-> r]
      BY <1>2, <1>4, <2>3 DEF Evaluate
    <3>2. ev'.pc = "failed" /\ ev'.candidate = ev.candidate
      BY <3>1
    <3>3. EvidenceFits'
      BY <3>2, <1>4 DEF EvidenceFits, AnswersFitCorpus, CaptureIsEvaluable, VerifiedIsCommitted
    <3> QED
      BY <1>1, <3>2, <3>3, CaptureRests DEF EvidenceInv, EvidenceTypeOK
  <2> QED
    BY <2>2, <2>3
<1> QED
  BY <1>3, <1>4

\* Every step of the two programs and of the owner keeps the invariant.
LEMMA EvidenceNextInv == EvidenceInv /\ [EvidenceNext]_evidenceVars => EvidenceInv'
<1> SUFFICES ASSUME EvidenceInv, [EvidenceNext]_evidenceVars PROVE EvidenceInv'
  OBVIOUS
<1>1. CASE UNCHANGED <<files, modelDir, edits, cap, answered, ev>>
  BY <1>1, CaptureRests, EvaluationRests DEF EvidenceInv, EvidenceTypeOK
<1>2. ASSUME NEW candidate \in BOOLEAN, StartEvaluation(candidate) PROVE EvidenceInv'
  <2>1. ev' = [pc |-> "reading", candidate |-> candidate, read |-> <<>>]
        /\ UNCHANGED <<files, modelDir, edits, cap, answered>>
    BY <1>2 DEF StartEvaluation
  <2>2. ev'.pc = "reading" /\ ev'.candidate = candidate /\ ev'.read = <<>>
    BY <2>1
  <2>3. Len(ev'.read) = 0 /\ ev'.read \in Seq({})
    BY <2>2
  <2>4. ~ (Len(ev'.read) >= 2) /\ ~ (Len(ev'.read) >= 5)
    BY <2>3
  <2>5. ev' = [pc |-> "reading", candidate |-> ev'.candidate, read |-> ev'.read]
    BY <2>1, <2>2
  <2>6. ev'.candidate \in BOOLEAN
    BY <2>2, Zenon
  <2>7. ReadOK'
    BY <2>3, <2>4, <2>5, <2>6, Zenon DEF ReadOK
  <2>8. EvidenceFits'
    BY <2>2 DEF EvidenceFits, AnswersFitCorpus, CaptureIsEvaluable, VerifiedIsCommitted
  <2> QED
    BY <2>1, <2>2, <2>7, <2>8, CaptureRests DEF EvidenceInv, EvidenceTypeOK
<1>3. CASE EvaluationEnds
  <2>1. ev'.pc = "stopped" /\ UNCHANGED <<files, modelDir, edits, cap, answered>>
    BY <1>3 DEF EvaluationEnds, Stopped
  <2>2. EvidenceFits'
    BY <2>1 DEF EvidenceFits, AnswersFitCorpus, CaptureIsEvaluable, VerifiedIsCommitted
  <2> QED
    BY <2>1, <2>2, CaptureRests DEF EvidenceInv, EvidenceTypeOK
<1>4. CASE PutCorpus \/ PutPolicy \/ PutProvenance \/ PutPredictions \/ PutReport
  BY <1>4, PutKeeps
     DEF PutCorpus, PutPolicy, PutProvenance, PutPredictions, PutReport, Paths
<1>5. CASE RemoveCaptured
  BY <1>5, PutKeeps DEF RemoveCaptured, Paths
<1>6. CASE PutManifest
  <2>1. PICK d : /\ d = Manifest(files["corpus"], files["predictions"], files["policy"],
                                 files["report"])
                 /\ Put("manifest", d)
    BY <1>6 DEF PutManifest
  <2>2. ManifestOK(d)
    BY <2>1 DEF ManifestOK, Manifest
  <2> QED
    BY <2>1, <2>2, PutKeeps DEF Paths
<1>7. CASE ReplaceModel
  <2>1. UNCHANGED <<files, cap, answered, ev>>
    BY <1>7 DEF ReplaceModel
  <2>2. /\ (files = [path \in Paths |-> files[path]])'
        /\ CapturedOK(files["captured"])' /\ ManifestOK(files["manifest"])' /\ CapOK'
    BY <2>1 DEF EvidenceInv, EvidenceTypeOK, CapturedOK, ManifestOK, CapOK, RowsAnswered
  <2> QED
    BY <2>1, <2>2, EvaluationRests DEF EvidenceInv, EvidenceTypeOK
<1> QED
  BY <1>1, <1>2, <1>3, <1>4, <1>5, <1>6, <1>7, CaptureSteps, ReadBoundedStep, EvaluateStep
     DEF EvidenceNext, evidenceVars

\* The inductive invariant of capture and evaluation: a captured document, in its file or
\* read, is complete and all of its confidences were answered for its corpus.
THEOREM EvidenceInvariant == EvidenceSpec => []EvidenceInv
<1> QED
  BY EvidenceInitInv, EvidenceNextInv, PTL DEF EvidenceSpec

\* An emitted report is about the documents it was made from, whatever the owner edits
\* between the questions, the release and each read, and a released capture is never
\* refused with its own corpus and policy.
THEOREM EvidenceStaysFit == EvidenceSpec => []EvidenceFits
<1>1. EvidenceInv => EvidenceFits
  BY DEF EvidenceInv
<1> QED
  BY <1>1, EvidenceInvariant, PTL

-----------------------------------------------------------------------------
(* The semantic quality of the pinned rule. *)

Segments == [kind : STRING, value : Seq(Int), count : Nat]

CaseOK(c) ==
    /\ c = [expected |-> c.expected, segments |-> c.segments, payload |-> c.payload]
    /\ c.segments \in Seq(Segments)

Held == {"scanning", "scanning-verified", "evaluated", "verified"}
Unscanned == {"raw", "parsed", "rebuilt", "verifying"}

QualityTypeOK ==
    /\ stage \in Unscanned \union Held \union {"rejected"}
    /\ recipe \in Recipes
    /\ stage \in {"parsed", "rebuilt", "verifying"} \union Held \/ scanned # <<>> =>
         /\ corpus = [cases |-> corpus.cases, digest |-> corpus.digest]
         /\ corpus.cases = [i \in 1 .. NumRecipes |-> corpus.cases[i]]
         /\ \A i \in 1 .. NumRecipes : CaseOK(corpus.cases[i])
    /\ \E S : scanned \in Seq(S)

\* The strengthening: a corpus that parsed, unless rebuilt, and any corpus a scan has begun
\* on satisfies the revalidation; the scanner was given its payloads in order.
QualityInv ==
    /\ QualityTypeOK
    /\ stage \in {"parsed", "verifying"} \union Held \/ scanned # <<>> => QualityInputs(corpus)
    /\ stage \in Unscanned => scanned = <<>>
    /\ Len(scanned) <= NumRecipes
    /\ \A i \in 1 .. Len(scanned) : scanned[i] = corpus.cases[i].payload
    /\ stage \notin {"evaluated", "verified"} => ~ qualityReport.built
    /\ stage \in {"evaluated", "verified"} =>
         Len(scanned) = NumRecipes /\ qualityReport.corpus = corpus.digest
    /\ stage = "verified" => pin.expected = qualityReport.implementation

\* A raw segment parses to a segment; it is the canonical form of what it parses to, and
\* what it parses to passes the revalidation.
LEMMA ParsedSegment ==
  ASSUME NEW s \in Segments, ParsesSegment(s)
  PROVE  /\ ParseSegment(s) \in Segments
         /\ RevalidateSegment(ParseSegment(s))
         /\ CanonicalSegment(ParseSegment(s)) = s
<1>1. s = [kind |-> s.kind, value |-> s.value, count |-> s.count]
      /\ s.kind \in STRING /\ s.value \in Seq(Int) /\ s.count \in Nat
  BY DEF Segments
<1>2. CASE s.kind \in Counted
  BY <1>1, <1>2 DEF ParseSegment, CanonicalSegment, RevalidateSegment, ParsesSegment
<1>3. CASE s.kind \notin Counted
  <2>1. PICK n : n = Len(s.value)
    OBVIOUS
  <2>2. PICK t : t = ParseSegment(s)
    OBVIOUS
  <2>3. t = [kind |-> s.kind, value |-> s.value, count |-> n]
    BY <1>1, <1>3, <2>1, <2>2 DEF ParseSegment
  <2>4. t.kind = s.kind /\ t.value = s.value /\ t.count = n /\ n \in Nat
    BY <1>1, <2>1, <2>3
  <2>5. t \in Segments
    BY <1>1, <2>3, <2>4 DEF Segments
  <2>6. ValueValid(t)
    BY <2>4 DEF ParsesSegment, ValueValid
  <2>7. RevalidateSegment(t)
    BY <1>3, <2>1, <2>4, <2>6 DEF RevalidateSegment
  <2>8. s.count = 0
    BY <1>3 DEF ParsesSegment
  <2>9. CanonicalSegment(t) = [kind |-> s.kind, value |-> s.value, count |-> 0]
    BY <1>3, <2>3, <2>4 DEF CanonicalSegment
  <2> QED
    BY <1>1, <2>2, <2>5, <2>7, <2>8, <2>9
<1> QED
  BY <1>2, <1>3

\* A segment that passes the revalidation has a canonical form that parses back to it.
LEMMA RevalidatedSegment ==
  ASSUME NEW s \in Segments, RevalidateSegment(s)
  PROVE  /\ ParsesSegment(CanonicalSegment(s))
         /\ ParseSegment(CanonicalSegment(s)) = s
<1>1. s = [kind |-> s.kind, value |-> s.value, count |-> s.count]
      /\ s.kind \in STRING /\ s.value \in Seq(Int) /\ s.count \in Nat
  BY DEF Segments
<1>2. CASE s.kind \in Counted
  BY <1>1, <1>2 DEF ParseSegment, CanonicalSegment, RevalidateSegment, ParsesSegment
<1>3. CASE s.kind \notin Counted
  <2>1. PICK t : t = CanonicalSegment(s)
    OBVIOUS
  <2>2. t = [kind |-> s.kind, value |-> s.value, count |-> 0]
    BY <1>1, <1>3, <2>1 DEF CanonicalSegment
  <2>3. t.kind = s.kind /\ t.value = s.value /\ t.count = 0
    BY <2>2
  <2>4. ParsesSegment(t)
    <3>1. ValueValid(t)
      BY <2>3 DEF RevalidateSegment, ValueValid
    <3> QED
      BY <1>3, <2>3, <3>1 DEF ParsesSegment
  <2>5. s.count = Len(s.value)
    BY <1>3 DEF RevalidateSegment
  <2>6. PICK n : n = Len(s.value)
    OBVIOUS
  <2>7. ParseSegment(t) = [kind |-> s.kind, value |-> s.value, count |-> n]
    BY <1>3, <2>2, <2>3, <2>6 DEF ParseSegment
  <2> QED
    BY <1>1, <2>1, <2>4, <2>5, <2>6, <2>7
<1> QED
  BY <1>2, <1>3

\* A case of a recipe that parses: the parsed case passes the revalidation, and the case is
\* its canonical form.
LEMMA ParsedCase ==
  ASSUME QualityAssumption, NEW c \in [expected : BOOLEAN, segments : SeqOf(RawSegments, MaxSegments)],
         ParsesCase(c), NEW d, d = ParseCase(c)
  PROVE  /\ CaseOK(d)
         /\ Len(d.segments) \in 1 .. MaxSegments
         /\ \A j \in DOMAIN d.segments : RevalidateSegment(d.segments[j])
         /\ DerivesPayload(d.segments)
         /\ d.payload = Payload(d.segments)
         /\ [expected |-> d.expected,
             segments |-> [j \in DOMAIN d.segments |-> CanonicalSegment(d.segments[j])]] = c
<1>1. PICK segs : segs = [j \in DOMAIN c.segments |-> ParseSegment(c.segments[j])]
  OBVIOUS
<1>2. d = [expected |-> c.expected, segments |-> segs, payload |-> Payload(segs)]
  BY <1>1 DEF ParseCase
<1>3. d.expected = c.expected /\ d.segments = segs /\ d.payload = Payload(segs)
  BY <1>2
<1>4. c = [expected |-> c.expected, segments |-> c.segments]
  OBVIOUS
<1>5. PICK n \in Nat : c.segments \in [1 .. n -> RawSegments]
  <2>1. c.segments \in SeqOf(RawSegments, MaxSegments)
    OBVIOUS
  <2> QED
    BY <2>1, QualityAssumption DEF SeqOf
<1>6. ASSUME NEW j \in 1 .. n
      PROVE  /\ segs[j] \in Segments /\ RevalidateSegment(segs[j])
             /\ CanonicalSegment(segs[j]) = c.segments[j]
  <2>1. c.segments[j] \in Segments /\ ParsesSegment(c.segments[j])
    BY <1>5, <1>6, QualityAssumption DEF ParsesCase, Segments
  <2>2. segs[j] = ParseSegment(c.segments[j])
    BY <1>1, <1>5
  <2> QED
    BY <2>1, <2>2, ParsedSegment
<1>7. segs \in [1 .. n -> Segments]
  BY <1>1, <1>5, <1>6
<1>8. segs \in Seq(Segments) /\ Len(segs) = n /\ DOMAIN segs = 1 .. n /\ Len(c.segments) = n
  BY <1>5, <1>7
<1>9. CaseOK(d)
  BY <1>2, <1>3, <1>8 DEF CaseOK
<1>10. [j \in DOMAIN segs |-> CanonicalSegment(segs[j])] = c.segments
  BY <1>5, <1>6, <1>8
<1>11. n \in 1 .. MaxSegments /\ DerivesPayload(segs)
  BY <1>1, <1>8 DEF ParsesCase
<1> QED
  BY <1>3, <1>4, <1>6, <1>8, <1>9, <1>10, <1>11

\* A case that passes the revalidation: its canonical form parses back to its label and its
\* payload.
LEMMA RevalidatedCase ==
  ASSUME NEW c, CaseOK(c), Len(c.segments) \in 1 .. MaxSegments,
         \A j \in DOMAIN c.segments : RevalidateSegment(c.segments[j]),
         DerivesPayload(c.segments), c.payload = Payload(c.segments),
         NEW d,
         d = [expected |-> c.expected,
              segments |-> [j \in DOMAIN c.segments |-> CanonicalSegment(c.segments[j])]]
  PROVE  /\ ParsesCase(d)
         /\ ParseCase(d).payload = c.payload
         /\ ParseCase(d).expected = c.expected
<1>1. PICK raw : raw = [j \in DOMAIN c.segments |-> CanonicalSegment(c.segments[j])]
  OBVIOUS
<1>2. d.expected = c.expected /\ d.segments = raw
  BY <1>1
<1>3. PICK n \in Nat : n = Len(c.segments) /\ c.segments \in [1 .. n -> Segments]
  BY DEF CaseOK
<1>4. ASSUME NEW j \in 1 .. n
      PROVE  ParsesSegment(raw[j]) /\ ParseSegment(raw[j]) = c.segments[j]
  <2>1. c.segments[j] \in Segments /\ RevalidateSegment(c.segments[j])
    BY <1>3
  <2>2. raw[j] = CanonicalSegment(c.segments[j])
    BY <1>1, <1>3
  <2> QED
    BY <2>1, <2>2, RevalidatedSegment
<1>5. DOMAIN raw = 1 .. n /\ raw = [j \in 1 .. n |-> raw[j]]
  BY <1>1, <1>3
<1>6. Len(raw) = n
  BY <1>5
<1>7. PICK segs : segs = [j \in DOMAIN raw |-> ParseSegment(raw[j])]
  OBVIOUS
<1>8. segs = c.segments
  BY <1>3, <1>4, <1>5, <1>7
<1>9. ParseCase(d) = [expected |-> d.expected, segments |-> segs, payload |-> Payload(segs)]
  BY <1>2, <1>7 DEF ParseCase
<1>10. ParseCase(d).payload = Payload(segs) /\ ParseCase(d).expected = d.expected
  BY <1>9
<1>11. ParsesCase(d)
  BY <1>2, <1>3, <1>4, <1>5, <1>6, <1>7, <1>8 DEF ParsesCase
<1> QED
  BY <1>2, <1>8, <1>10, <1>11

\* Parsing makes a corpus that the revalidation accepts.
LEMMA ParsedCorpus ==
  ASSUME QualityAssumption, recipe \in Recipes, NEW cs,
         BothExpected(recipe), \A i \in DOMAIN recipe : ParsesCase(recipe[i]),
         cs = [i \in DOMAIN recipe |-> ParseCase(recipe[i])],
         NEW c, c = [cases |-> cs, digest |-> recipe]
  PROVE  /\ cs = [i \in 1 .. NumRecipes |-> cs[i]]
         /\ \A i \in 1 .. NumRecipes : CaseOK(cs[i])
         /\ QualityInputs(c)
<1>1. DOMAIN recipe = 1 .. NumRecipes /\ DOMAIN cs = 1 .. NumRecipes
      /\ cs = [i \in 1 .. NumRecipes |-> cs[i]] /\ recipe = [i \in 1 .. NumRecipes |-> recipe[i]]
  BY DEF Recipes
<1>2. ASSUME NEW i \in 1 .. NumRecipes
      PROVE  /\ CaseOK(cs[i])
             /\ Len(cs[i].segments) \in 1 .. MaxSegments
             /\ \A j \in DOMAIN cs[i].segments : RevalidateSegment(cs[i].segments[j])
             /\ DerivesPayload(cs[i].segments)
             /\ cs[i].payload = Payload(cs[i].segments)
             /\ [expected |-> cs[i].expected,
                 segments |-> [j \in DOMAIN cs[i].segments |->
                                 CanonicalSegment(cs[i].segments[j])]] = recipe[i]
             /\ cs[i].expected = recipe[i].expected
  <2>1. recipe[i] \in [expected : BOOLEAN, segments : SeqOf(RawSegments, MaxSegments)]
    BY DEF Recipes
  <2>2. cs[i] = ParseCase(recipe[i]) /\ ParsesCase(recipe[i])
    BY <1>1
  <2>3. cs[i].expected = recipe[i].expected
    BY <2>2 DEF ParseCase
  <2> QED
    BY <2>1, <2>2, <2>3, ParsedCase
<1>3. CanonicalCorpus(cs) = recipe
  BY <1>1, <1>2 DEF CanonicalCorpus
<1>4. BothExpected(cs)
  <2>1. {i \in DOMAIN cs : cs[i].expected} = {i \in DOMAIN recipe : recipe[i].expected}
    BY <1>1, <1>2, Zenon
  <2>2. Len(cs) = NumRecipes /\ Len(recipe) = NumRecipes
    BY <1>1, QualityAssumption
  <2> QED
    BY <2>1, <2>2 DEF BothExpected
<1>5. c.cases = cs /\ c.digest = recipe
  OBVIOUS
<1> QED
  BY <1>1, <1>2, <1>3, <1>4, <1>5 DEF QualityInputs, DigestHolds

\* The opposite direction: a corpus that the revalidation accepts is the one its digest
\* parses to.
LEMMA RevalidatedCorpus ==
  ASSUME NEW c, QualityInputs(c), c.cases = [i \in 1 .. NumRecipes |-> c.cases[i]],
         \A i \in 1 .. NumRecipes : CaseOK(c.cases[i]),
         NEW i \in 1 .. NumRecipes
  PROVE  /\ ParsesCase(c.digest[i])
         /\ ParseCase(c.digest[i]).payload = c.cases[i].payload
         /\ ParseCase(c.digest[i]).expected = c.cases[i].expected
         /\ DerivesPayload(c.cases[i].segments)
         /\ c.cases[i].payload = Payload(c.cases[i].segments)
<1>1. DOMAIN c.cases = 1 .. NumRecipes
  OBVIOUS
<1>2. /\ Len(c.cases[i].segments) \in 1 .. MaxSegments
      /\ \A j \in DOMAIN c.cases[i].segments : RevalidateSegment(c.cases[i].segments[j])
      /\ DerivesPayload(c.cases[i].segments)
      /\ c.cases[i].payload = Payload(c.cases[i].segments)
  BY <1>1 DEF QualityInputs
<1>3. c.digest[i] = [expected |-> c.cases[i].expected,
                     segments |-> [j \in DOMAIN c.cases[i].segments |->
                                     CanonicalSegment(c.cases[i].segments[j])]]
  BY <1>1 DEF QualityInputs, DigestHolds, CanonicalCorpus
<1> QED
  BY <1>2, <1>3, RevalidatedCase

\* Nothing is parsed or scanned at the start.
LEMMA QualityInitInv == QualityInit => QualityInv
<1> SUFFICES ASSUME QualityInit PROVE QualityInv
  OBVIOUS
<1>1. stage = "raw" /\ scanned = <<>> /\ recipe \in Recipes /\ ~ qualityReport.built
  BY DEF QualityInit, NoQualityReport
<1>2. scanned \in Seq({}) /\ Len(scanned) = 0
  BY <1>1
<1>3. NumRecipes \in Nat
  BY QualityAssumption
<1> QED
  BY <1>1, <1>2, <1>3 DEF QualityInv, QualityTypeOK, Unscanned, Held

\* A caller rebuilds one parsed case: the result is a case still, and may be anything else.
LEMMA RebuildStep ==
  ASSUME QualityInv, NEW i \in DOMAIN corpus.cases, NEW changed, Rebuild(i, changed),
         CaseOK(changed)
  PROVE  QualityInv'
<1>1. /\ stage = "parsed" /\ stage' = "rebuilt" /\ scanned = <<>>
      /\ UNCHANGED <<recipe, scanned, cells, evaluator, pin, qualityReport>>
      /\ corpus' = [corpus EXCEPT !.cases[i] = changed]
  BY DEF Rebuild, QualityInv, Unscanned
<1>2. /\ corpus = [cases |-> corpus.cases, digest |-> corpus.digest]
      /\ corpus.cases = [k \in 1 .. NumRecipes |-> corpus.cases[k]]
      /\ \A k \in 1 .. NumRecipes : CaseOK(corpus.cases[k])
  BY <1>1 DEF QualityInv, QualityTypeOK
<1>3. PICK cs : cs = [corpus.cases EXCEPT ![i] = changed]
  OBVIOUS
<1>4. corpus' = [corpus EXCEPT !.cases = cs]
  BY <1>1, <1>3
<1>5. corpus' = [cases |-> cs, digest |-> corpus.digest]
  BY <1>2, <1>4
<1>6. corpus'.cases = cs /\ corpus'.digest = corpus.digest
  BY <1>5
<1>7. corpus' = [cases |-> corpus'.cases, digest |-> corpus'.digest]
  BY <1>5, <1>6
<1>8. cs = [k \in 1 .. NumRecipes |-> cs[k]]
  BY <1>2, <1>3
<1>9. \A k \in 1 .. NumRecipes : CaseOK(cs[k])
  BY <1>2, <1>3
<1>10. QualityTypeOK'
  BY <1>1, <1>6, <1>7, <1>8, <1>9 DEF QualityInv, QualityTypeOK, Unscanned, CaseOK
<1>11. Len(scanned) = 0 /\ scanned' = <<>>
  BY <1>1
<1> QED
  BY <1>1, <1>10, <1>11 DEF QualityInv, Unscanned, Held

\* A changed label, payload or first segment leaves a case.
LEMMA RebuiltCase ==
  ASSUME QualityAssumption, NEW c, CaseOK(c)
  PROVE  /\ CaseOK([c EXCEPT !.expected = ~@])
         /\ \A p : CaseOK([c EXCEPT !.payload = p])
         /\ \A s \in RawSegments : \A p :
              CaseOK([c EXCEPT !.segments[1] = s, !.payload = p])
<1>1. c = [expected |-> c.expected, segments |-> c.segments, payload |-> c.payload]
      /\ c.segments \in Seq(Segments)
  BY DEF CaseOK
<1>2. CaseOK([c EXCEPT !.expected = ~@])
  <2>1. PICK b : b = (~ c.expected)
    OBVIOUS
  <2>2. PICK d : d = [c EXCEPT !.expected = b]
    OBVIOUS
  <2>3. d = [expected |-> b, segments |-> c.segments, payload |-> c.payload]
    BY <1>1, <2>2
  <2>4. d.expected = b /\ d.segments = c.segments /\ d.payload = c.payload
    BY <2>3
  <2>5. CaseOK(d)
    BY <1>1, <2>3, <2>4 DEF CaseOK
  <2>6. [c EXCEPT !.expected = ~@] = d
    BY <2>1, <2>2, Zenon
  <2> QED
    BY <2>5, <2>6
<1>3. ASSUME NEW p PROVE CaseOK([c EXCEPT !.payload = p])
  <2>1. PICK d : d = [c EXCEPT !.payload = p]
    OBVIOUS
  <2>2. d = [expected |-> c.expected, segments |-> c.segments, payload |-> p]
    BY <1>1, <2>1
  <2>3. d.expected = c.expected /\ d.segments = c.segments /\ d.payload = p
    BY <2>2
  <2>4. CaseOK(d)
    BY <1>1, <2>2, <2>3 DEF CaseOK
  <2> QED
    BY <2>1, <2>4
<1>4. ASSUME NEW s \in RawSegments, NEW p
      PROVE  CaseOK([c EXCEPT !.segments[1] = s, !.payload = p])
  <2>1. PICK segs : segs = [c.segments EXCEPT ![1] = s]
    OBVIOUS
  <2>2. segs \in Seq(Segments)
    <3>1. s \in Segments
      BY QualityAssumption DEF Segments
    <3>2. PICK n \in Nat : c.segments \in [1 .. n -> Segments]
      BY <1>1
    <3>3. segs \in [1 .. n -> Segments]
      BY <2>1, <3>1, <3>2
    <3> QED
      BY <3>3
  <2>3. PICK e : e = [c EXCEPT !.segments = segs]
    OBVIOUS
  <2>4. e = [expected |-> c.expected, segments |-> segs, payload |-> c.payload]
    BY <1>1, <2>3
  <2>5. PICK d : d = [e EXCEPT !.payload = p]
    OBVIOUS
  <2>6. d = [expected |-> c.expected, segments |-> segs, payload |-> p]
    BY <2>4, <2>5
  <2>7. d.expected = c.expected /\ d.segments = segs /\ d.payload = p
    BY <2>6
  <2>8. CaseOK(d)
    BY <2>2, <2>6, <2>7 DEF CaseOK
  <2>9. [c EXCEPT !.segments[1] = s, !.payload = p] = d
    BY <2>1, <2>3, <2>5
  <2> QED
    BY <2>8, <2>9
<1> QED
  BY <1>2, <1>3, <1>4

\* One payload goes to the scanner: that of the next case.
LEMMA ScanInMemoryStep ==
  ASSUME QualityInv, ScanInMemory
  PROVE  QualityInv'
<1>1. /\ stage \in Held /\ stage \notin {"evaluated", "verified"} /\ stage \notin Unscanned
      /\ Len(scanned) < NumRecipes
      /\ UNCHANGED <<stage, recipe, corpus, evaluator, pin, qualityReport>>
      /\ scanned' = Append(scanned, corpus.cases[Len(scanned) + 1].payload)
  BY DEF ScanInMemory, ScanningCases, Held, Unscanned
<1>2. PICK S : scanned \in Seq(S)
  BY DEF QualityInv, QualityTypeOK
<1>3. PICK p : p = corpus.cases[Len(scanned) + 1].payload
  OBVIOUS
<1>4. PICK n \in Nat : n = Len(scanned)
  BY <1>2
<1>5. /\ scanned' \in Seq(S \union {p}) /\ Len(scanned') = n + 1
      /\ scanned'[n + 1] = p
      /\ \A k \in 1 .. n : scanned'[k] = scanned[k]
  BY <1>1, <1>2, <1>3, <1>4
<1>6. \A k \in 1 .. n : scanned[k] = corpus.cases[k].payload
  BY <1>4 DEF QualityInv
<1>7. ASSUME NEW k \in 1 .. n + 1 PROVE scanned'[k] = corpus.cases[k].payload
  <2>1. k \in 1 .. n \/ k = n + 1
    OBVIOUS
  <2> QED
    BY <2>1, <1>3, <1>4, <1>5, <1>6
<1>8. (\A k \in 1 .. Len(scanned) : scanned[k] = corpus.cases[k].payload)'
  BY <1>1, <1>5, <1>7
<1>9. Len(scanned') <= NumRecipes
  BY <1>1, <1>4, <1>5, QualityAssumption
<1>10. QualityTypeOK'
  BY <1>1, <1>5 DEF QualityInv, QualityTypeOK, CaseOK
<1>11. QualityInputs(corpus)'
  BY <1>1 DEF QualityInv, QualityInputs, BothExpected, DigestHolds, CanonicalCorpus
<1> QED
  BY <1>1, <1>8, <1>9, <1>10, <1>11 DEF QualityInv

\* A step that changes neither corpus nor scan, to a stage that is entitled to them.
LEMMA StageStep ==
  ASSUME QualityInv, UNCHANGED <<recipe, corpus, scanned>>,
         stage \in {"parsed", "rebuilt", "verifying"} \union Held,
         stage' \in Unscanned \ {"raw"} => stage \in Unscanned,
         stage' \in Unscanned \union Held \union {"rejected"}, stage' # "raw",
         stage' \in {"parsed", "verifying"} \union Held => QualityInputs(corpus),
         stage' \notin {"evaluated", "verified"} => ~ qualityReport'.built,
         stage' \in {"evaluated", "verified"} =>
           Len(scanned) = NumRecipes /\ qualityReport'.corpus = corpus.digest,
         stage' = "verified" => pin'.expected = qualityReport'.implementation
  PROVE  QualityInv'
<1>1. QualityTypeOK'
  BY DEF QualityInv, QualityTypeOK, CaseOK
<1>2. stage' \in {"parsed", "verifying"} \union Held \/ scanned' # <<>> => QualityInputs(corpus)'
  BY DEF QualityInv, QualityInputs, BothExpected, DigestHolds, CanonicalCorpus
<1> QED
  BY <1>1, <1>2 DEF QualityInv

\* Every step of a caller, of the evaluation and of an upgrade keeps the invariant.
LEMMA QualityNextInv == QualityInv /\ [QualityNext]_qualityVars => QualityInv'
<1> SUFFICES ASSUME QualityInv, [QualityNext]_qualityVars PROVE QualityInv'
  OBVIOUS
<1>1. CASE UNCHANGED qualityVars
  BY <1>1 DEF qualityVars, QualityInv, QualityTypeOK, CaseOK, QualityInputs, BothExpected,
              DigestHolds, CanonicalCorpus
<1>2. CASE ParseQualityCorpus
  <2>1. /\ stage = "raw" /\ scanned = <<>> /\ ~ qualityReport.built /\ recipe \in Recipes
        /\ UNCHANGED <<recipe, scanned, cells, evaluator, pin, qualityReport>>
    BY <1>2 DEF ParseQualityCorpus, QualityInv, QualityTypeOK, Unscanned
  <2>2. CASE BothExpected(recipe) /\ \A i \in DOMAIN recipe : ParsesCase(recipe[i])
    <3>1. PICK cs, c : /\ cs = [i \in DOMAIN recipe |-> ParseCase(recipe[i])]
                       /\ c = [cases |-> cs, digest |-> recipe]
      OBVIOUS
    <3>2. stage' = "parsed" /\ corpus' = c
      BY <1>2, <2>2, <3>1 DEF ParseQualityCorpus
    <3>3. /\ cs = [i \in 1 .. NumRecipes |-> cs[i]]
          /\ \A i \in 1 .. NumRecipes : CaseOK(cs[i])
          /\ QualityInputs(c)
      BY <2>1, <2>2, <3>1, ParsedCorpus, QualityAssumption
    <3>4. c.cases = cs /\ c = [cases |-> c.cases, digest |-> c.digest]
      BY <3>1
    <3>5. QualityTypeOK'
      BY <2>1, <3>2, <3>3, <3>4 DEF QualityInv, QualityTypeOK, Unscanned, CaseOK
    <3>6. QualityInputs(corpus)'
      BY <3>2, <3>3 DEF QualityInputs, BothExpected, DigestHolds, CanonicalCorpus
    <3>7. Len(scanned) = 0 /\ scanned' = <<>>
      BY <2>1
    <3> QED
      BY <2>1, <3>2, <3>5, <3>6, <3>7 DEF QualityInv, Unscanned, Held
  <2>3. CASE ~ (BothExpected(recipe) /\ \A i \in DOMAIN recipe : ParsesCase(recipe[i]))
    <3>1. stage' = "rejected"
      BY <1>2, <2>3 DEF ParseQualityCorpus
    <3>2. Len(scanned) = 0 /\ scanned' = <<>>
      BY <2>1
    <3> QED
      BY <2>1, <3>1, <3>2 DEF QualityInv, QualityTypeOK, Unscanned, Held
  <2> QED
    BY <2>2, <2>3
<1>3. ASSUME NEW i \in DOMAIN corpus.cases,
             \/ RebuildLabel(i)
             \/ \E p \in Patterns \union Magics : RebuildPayload(i, p)
             \/ \E s \in RawSegments : RebuildSegment(i, s)
      PROVE  QualityInv'
  <2>1. stage = "parsed"
    BY <1>3 DEF RebuildLabel, RebuildPayload, RebuildSegment, Rebuild
  <2>2. CaseOK(corpus.cases[i])
    <3>1. /\ corpus.cases = [k \in 1 .. NumRecipes |-> corpus.cases[k]]
          /\ \A k \in 1 .. NumRecipes : CaseOK(corpus.cases[k])
      BY <2>1 DEF QualityInv, QualityTypeOK
    <3> QED
      BY <3>1
  <2>3. CASE RebuildLabel(i)
    <3>1. PICK changed : changed = [corpus.cases[i] EXCEPT !.expected = ~@]
      OBVIOUS
    <3>2. CaseOK(changed)
      BY <2>2, <3>1, RebuiltCase, QualityAssumption
    <3>3. Rebuild(i, changed)
      BY <2>3, <3>1 DEF RebuildLabel
    <3> QED
      BY <3>2, <3>3, RebuildStep
  <2>4. ASSUME NEW p \in Patterns \union Magics, RebuildPayload(i, p) PROVE QualityInv'
    <3>1. PICK changed : changed = [corpus.cases[i] EXCEPT !.payload = p]
      OBVIOUS
    <3>2. CaseOK(changed)
      BY <2>2, <3>1, RebuiltCase, QualityAssumption
    <3>3. Rebuild(i, changed)
      BY <2>4, <3>1 DEF RebuildPayload
    <3> QED
      BY <3>2, <3>3, RebuildStep
  <2>5. ASSUME NEW s \in RawSegments, RebuildSegment(i, s) PROVE QualityInv'
    <3>1. PICK p : p = IF RevalidateSegment(s)
                       THEN Payload([corpus.cases[i].segments EXCEPT ![1] = s])
                       ELSE corpus.cases[i].payload
      OBVIOUS
    <3>2. PICK changed :
            changed = [corpus.cases[i] EXCEPT !.segments[1] = s, !.payload = p]
      OBVIOUS
    <3>3. CaseOK(changed)
      BY <2>2, <3>2, RebuiltCase, QualityAssumption
    <3>4. changed = [corpus.cases[i] EXCEPT
                       !.segments[1] = s,
                       !.payload = IF RevalidateSegment(s)
                                   THEN Payload([corpus.cases[i].segments EXCEPT ![1] = s])
                                   ELSE @]
      <4>1. PICK c : c = corpus.cases[i]
        OBVIOUS
      <4>2. c = [expected |-> c.expected, segments |-> c.segments, payload |-> c.payload]
        BY <2>2, <4>1 DEF CaseOK
      <4> QED
        BY <3>1, <3>2, <4>1, <4>2
    <3>5. Rebuild(i, changed)
      BY <2>5, <3>4 DEF RebuildSegment
    <3> QED
      BY <3>3, <3>5, RebuildStep
  <2> QED
    BY <1>3, <2>3, <2>4, <2>5
<1>4. CASE EvaluateQuality
  <2>1. /\ stage \in {"parsed", "rebuilt", "verifying"}
        /\ UNCHANGED <<recipe, corpus, scanned, cells, evaluator, pin>>
        /\ ~ qualityReport.built
    BY <1>4 DEF EvaluateQuality, QualityInv
  <2>2. CASE QualityInputs(corpus)
    <3>1. /\ stage' \in {"scanning", "scanning-verified"}
          /\ qualityReport' = [built |-> FALSE, implementation |-> evaluator]
      BY <1>4, <2>2 DEF EvaluateQuality
    <3>2. ~ qualityReport'.built
      BY <3>1
    <3> QED
      BY <2>1, <2>2, <3>1, <3>2, StageStep DEF Unscanned, Held
  <2>3. CASE ~ QualityInputs(corpus)
    <3>1. stage' = "rejected" /\ qualityReport' = qualityReport
      BY <1>4, <2>3 DEF EvaluateQuality
    <3> QED
      BY <2>1, <3>1, StageStep DEF Unscanned, Held
  <2> QED
    BY <2>2, <2>3
<1>5. CASE VerifyQualityFixtures
  <2>1. /\ stage = "parsed" /\ stage' \in {"verifying", "rejected"}
        /\ UNCHANGED <<recipe, corpus, scanned, cells, evaluator, pin, qualityReport>>
        /\ ~ qualityReport.built /\ QualityInputs(corpus)
    BY <1>5 DEF VerifyQualityFixtures, QualityInv
  <2> QED
    BY <2>1, StageStep DEF Unscanned, Held
<1>6. CASE Emit
  <2>1. /\ stage \in {"scanning", "scanning-verified"} /\ Len(scanned) = NumRecipes
        /\ UNCHANGED <<recipe, corpus, scanned, cells, evaluator, pin>>
        /\ ~ qualityReport.built /\ QualityInputs(corpus)
    BY <1>6 DEF Emit, ScanningCases, QualityInv, Held
  <2>2. CASE stage = "scanning-verified" => QualityReproduced(qualityReport.implementation)
    <3>1. PICK pass : pass = GatePass(cells)
      OBVIOUS
    <3>2. /\ stage' = IF stage = "scanning" THEN "evaluated" ELSE "verified"
          /\ qualityReport' = [built |-> TRUE, implementation |-> qualityReport.implementation,
                               corpus |-> corpus.digest, gatePass |-> pass]
      BY <1>6, <2>2, <3>1 DEF Emit
    <3>3. qualityReport'.corpus = corpus.digest
          /\ qualityReport'.implementation = qualityReport.implementation
      BY <3>2
    <3>4. stage' = "verified" => pin'.expected = qualityReport'.implementation
      BY <2>1, <2>2, <3>2, <3>3 DEF QualityReproduced
    <3>5. stage' \in {"evaluated", "verified"}
      BY <3>2
    <3> QED
      BY <2>1, <3>3, <3>4, <3>5, StageStep DEF Unscanned, Held
  <2>3. CASE ~ (stage = "scanning-verified" => QualityReproduced(qualityReport.implementation))
    <3>1. stage' = "rejected" /\ qualityReport' = qualityReport
      BY <1>6, <2>3 DEF Emit
    <3> QED
      BY <2>1, <3>1, StageStep DEF Unscanned, Held
  <2> QED
    BY <2>2, <2>3
<1>7. CASE ReplaceSource
  <2>1. /\ stage \in {"parsed", "verifying"}
        /\ UNCHANGED <<stage, recipe, corpus, scanned, cells, pin, qualityReport>>
        /\ ~ qualityReport.built /\ QualityInputs(corpus)
    BY <1>7 DEF ReplaceSource, QualityInv
  <2> QED
    BY <2>1, StageStep DEF Unscanned, Held
<1> QED
  BY <1>1, <1>2, <1>3, <1>4, <1>5, <1>6, <1>7, ScanInMemoryStep DEF QualityNext, QualityEnds

\* The inductive invariant of the quality evaluation: whatever a scan has begun on passes
\* the revalidation, and the scanner was given its payloads in order.
THEOREM QualityInvariant == QualitySpec => []QualityInv
<1> QED
  BY QualityInitInv, QualityNextInv, PTL DEF QualitySpec

\* What is reported was parsed, scanned and pinned: for every recipe, whatever a caller
\* rebuilds and whenever the source file is replaced.
THEOREM QualityStaysBound == QualitySpec => []QualityIsBound
<1>1. ASSUME QualityInv PROVE ReportBindsCases
  <2>1. ASSUME qualityReport.built, NEW i \in 1 .. NumRecipes
        PROVE  /\ ParsesCase(qualityReport.corpus[i])
               /\ ParseCase(qualityReport.corpus[i]).payload = scanned[i]
               /\ ParseCase(qualityReport.corpus[i]).expected = corpus.cases[i].expected
    <3>1. /\ stage \in Held /\ Len(scanned) = NumRecipes
          /\ qualityReport.corpus = corpus.digest
      BY <1>1, <2>1 DEF QualityInv, Held
    <3>2. /\ QualityInputs(corpus)
          /\ corpus.cases = [k \in 1 .. NumRecipes |-> corpus.cases[k]]
          /\ \A k \in 1 .. NumRecipes : CaseOK(corpus.cases[k])
          /\ scanned[i] = corpus.cases[i].payload
      BY <1>1, <3>1 DEF QualityInv, QualityTypeOK
    <3> QED
      BY <3>1, <3>2, RevalidatedCorpus
  <2> QED
    BY <2>1 DEF ReportBindsCases
<1>2. ASSUME QualityInv PROVE NoMagicIsScanned
  <2>1. ASSUME NEW i \in DOMAIN scanned, NEW magic \in Magics
        PROVE  ~ IsPrefix(magic, scanned[i])
    <3>1. i \in 1 .. Len(scanned) /\ Len(scanned) \in Nat /\ scanned # <<>>
      BY <1>2, <2>1 DEF QualityInv, QualityTypeOK
    <3>2. /\ QualityInputs(corpus)
          /\ corpus.cases = [k \in 1 .. NumRecipes |-> corpus.cases[k]]
          /\ \A k \in 1 .. NumRecipes : CaseOK(corpus.cases[k])
          /\ scanned[i] = corpus.cases[i].payload
          /\ Len(scanned) <= NumRecipes
      BY <1>2, <3>1 DEF QualityInv, QualityTypeOK
    <3>3. i \in 1 .. NumRecipes
      BY <3>1, <3>2, QualityAssumption
    <3> QED
      BY <3>2, <3>3, RevalidatedCorpus DEF DerivesPayload
  <2> QED
    BY <2>1 DEF NoMagicIsScanned
<1>3. QualityInv => VerifiedIsPinned
  BY DEF QualityInv, VerifiedIsPinned
<1> QED
  BY <1>1, <1>2, <1>3, QualityInvariant, PTL DEF QualityIsBound

\* Revalidation never refuses what the parser made and nobody rebuilt: canonical bytes
\* derived from the parsed objects are the bytes that were parsed.
THEOREM QualityParsedIsEvaluated == QualitySpec => ParsedIsEvaluated
<1>1. QualityInv => (stage \in {"parsed", "verifying"} /\ EvaluateQuality => stage' # "rejected")
  BY DEF QualityInv, EvaluateQuality
<1> QED
  BY <1>1, QualityInvariant, PTL DEF ParsedIsEvaluated, QualitySpec

-----------------------------------------------------------------------------
(* Sums over finite sets. *)

\* A set of numbers that is not empty has a least element.
LEMMA LeastNumber ==
  ASSUME NEW S, S \subseteq Nat, S # {}
  PROVE  \E n \in S : \A k \in S : n <= k
<1> DEFINE R == {ss \in Nat \X Nat : ss[1] < ss[2]}
<1>1. IsWellFoundedOn(R, Nat)
  BY NatLessThanWellFounded DEF OpToRel
<1>2. \A x \in Nat, y \in Nat : x < y => <<x, y>> \in R
  OBVIOUS
<1> HIDE DEF R
<1>3. PICK n \in S : \A k \in S : ~ (<<k, n>> \in R)
  BY <1>1, WFMin
<1>4. \A k \in S : n <= k
  <2>1. ASSUME NEW k \in S PROVE n <= k
    <3>1. n \in Nat /\ k \in Nat /\ ~ (k < n)
      BY <1>2, <1>3
    <3> QED
      BY <3>1
  <2> QED
    BY <2>1
<1> QED
  BY <1>3, <1>4

\* Induction over the subsets of a finite set: a set of subsets that has with each of them
\* one with an element less is empty.
LEMMA Descent ==
  ASSUME NEW S, IsFiniteSet(S), NEW bad \in SUBSET (SUBSET S),
         \A s \in bad : \E x \in s : s \ {x} \in bad
  PROVE  bad = {}
<1> SUFFICES ASSUME bad # {} PROVE FALSE
  OBVIOUS
<1>1. \A s \in bad : IsFiniteSet(s) /\ Cardinality(s) \in Nat
  BY FS_Subset, FS_CardinalityType
<1>2. PICK cards : cards = {Cardinality(s) : s \in bad}
  OBVIOUS
<1>3. PICK n \in cards : \A k \in cards : n <= k
  <2>1. cards \subseteq Nat /\ cards # {}
    BY <1>1, <1>2
  <2> QED
    BY <2>1, LeastNumber
<1>4. PICK s \in bad : Cardinality(s) = n
  BY <1>2
<1>5. PICK x \in s : s \ {x} \in bad
  OBVIOUS
<1>6. Cardinality(s \ {x}) = Cardinality(s) - 1
  BY <1>1, <1>5, FS_RemoveElement
<1>7. n <= Cardinality(s \ {x})
  BY <1>2, <1>3, <1>5
<1> QED
  BY <1>1, <1>4, <1>6, <1>7

\* What the fold of SumFunctionOnSet over S is.
IsFold(e, S, g) ==
    g = [s \in SUBSET S |->
           IF s = {} THEN 0
           ELSE e[CHOOSE x \in s : TRUE] + g[s \ {CHOOSE x \in s : TRUE}]]

\* A table of the sums over the subsets of S, whatever order they are taken in.
IsTable(e, S, g) ==
    /\ g \in [SUBSET S -> Int]
    /\ g[{}] = 0
    /\ \A s \in SUBSET S : \A x \in s : g[s] = e[x] + g[s \ {x}]

\* The definition of the sum, expanded.
LEMMA SumIsChosen ==
  ASSUME NEW e, NEW S
  PROVE  SumFunctionOnSet(e, S) =
           (CHOOSE g : g = [s \in SUBSET S |->
                              IF s = {} THEN 0
                              ELSE e[CHOOSE x \in s : TRUE]
                                   + g[s \ {CHOOSE x \in s : TRUE}]])[S]
BY Zenon DEF SumFunctionOnSet, FoldFunctionOnSet, MapThenFoldSet

\* Where some fold exists, the sum is what one yields.
LEMMA SumIsFold ==
  ASSUME NEW e, NEW S, \E h : IsFold(e, S, h)
  PROVE  \E g : IsFold(e, S, g) /\ SumFunctionOnSet(e, S) = g[S]
<1> DEFINE g0 == CHOOSE g : g = [s \in SUBSET S |->
                                   IF s = {} THEN 0
                                   ELSE e[CHOOSE x \in s : TRUE]
                                        + g[s \ {CHOOSE x \in s : TRUE}]]
<1>1. IsFold(e, S, g0)
  BY DEF IsFold
<1>2. SumFunctionOnSet(e, S) = g0[S]
  BY SumIsChosen
<1> QED
  BY <1>1, <1>2

\* Every finite set has a table of sums.
LEMMA TableExists ==
  ASSUME NEW S, IsFiniteSet(S), NEW e \in [S -> Int]
  PROVE  \E g : IsTable(e, S, g)
<1> PICK bad : bad = {T \in SUBSET S : ~ \E g : IsTable(e, T, g)}
  OBVIOUS
<1>1. ASSUME NEW T \in bad PROVE \E x \in T : T \ {x} \in bad
  <2>1. T # {}
    <3>1. SUBSET {} = {{}}
      OBVIOUS
    <3>2. PICK g : g = [s \in {{}} |-> 0]
      OBVIOUS
    <3>3. IsTable(e, {}, g)
      BY <3>1, <3>2 DEF IsTable
    <3> QED
      BY <3>3
  <2>2. PICK x \in T : TRUE
    BY <2>1
  <2>3. ASSUME NEW g, IsTable(e, T \ {x}, g) PROVE \E h : IsTable(e, T, h)
    <3>1. PICK h : h = [s \in SUBSET T |-> IF x \in s THEN e[x] + g[s \ {x}] ELSE g[s]]
      OBVIOUS
    <3>2. \A s \in SUBSET T : s \ {x} \in SUBSET (T \ {x}) /\ g[s \ {x}] \in Int
      BY <2>3 DEF IsTable
    <3>3. e[x] \in Int
      BY <2>2
    <3>4. h \in [SUBSET T -> Int]
      <4>1. ASSUME NEW s \in SUBSET T PROVE h[s] \in Int
        <5>1. CASE x \in s
          <6>1. h[s] = e[x] + g[s \ {x}]
            BY <3>1, <5>1
          <6> QED
            BY <3>2, <3>3, <6>1
        <5>2. CASE x \notin s
          <6>1. s \ {x} = s
            BY <5>2
          <6> QED
            BY <3>1, <3>2, <5>2, <6>1
        <5> QED
          BY <5>1, <5>2
      <4> QED
        BY <3>1, <4>1
    <3>5. h[{}] = 0
      BY <2>3, <3>1 DEF IsTable
    <3>6. ASSUME NEW s \in SUBSET T, NEW y \in s PROVE h[s] = e[y] + h[s \ {y}]
      <4>0. s \ {y} \in SUBSET T /\ e[y] \in Int
        OBVIOUS
      <4>1. CASE y = x
        <5>1. h[s] = e[x] + g[s \ {x}] /\ h[s \ {x}] = g[s \ {x}]
          BY <3>1, <4>0, <4>1
        <5> QED
          BY <4>1, <5>1
      <4>2. CASE y # x /\ x \in s
        <5>1. h[s] = e[x] + g[s \ {x}]
          BY <3>1, <4>2
        <5>2. h[s \ {y}] = e[x] + g[(s \ {y}) \ {x}]
          BY <3>1, <4>0, <4>2
        <5>3. (s \ {x}) \ {y} = (s \ {y}) \ {x} /\ y \in s \ {x}
          BY <4>2
        <5>4. g[s \ {x}] = e[y] + g[(s \ {y}) \ {x}]
          <6>1. g[s \ {x}] = e[y] + g[(s \ {x}) \ {y}]
            BY <2>3, <3>2, <5>3 DEF IsTable
          <6> QED
            BY <5>3, <6>1
        <5>5. g[(s \ {y}) \ {x}] \in Int
          BY <3>2, <4>0
        <5> QED
          BY <3>3, <4>0, <5>1, <5>2, <5>4, <5>5
      <4>3. CASE x \notin s
        <5>1. s \in SUBSET (T \ {x}) /\ x \notin s \ {y}
          BY <4>3
        <5>2. h[s] = g[s] /\ h[s \ {y}] = g[s \ {y}]
          BY <3>1, <4>0, <4>3, <5>1
        <5> QED
          BY <2>3, <5>1, <5>2 DEF IsTable
      <4> QED
        BY <4>1, <4>2, <4>3
    <3> QED
      BY <3>4, <3>5, <3>6 DEF IsTable
  <2>4. T \ {x} \in SUBSET S
    OBVIOUS
  <2> QED
    BY <2>2, <2>3, <2>4
<1>2. bad \in SUBSET (SUBSET S)
  OBVIOUS
<1>3. bad = {}
  BY <1>1, <1>2, Descent
<1> QED
  BY <1>3

\* A table and a fold over a subset agree.
LEMMA FoldIsTable ==
  ASSUME NEW S, IsFiniteSet(S), NEW e, NEW g, IsTable(e, S, g),
         NEW T \in SUBSET S, NEW h, IsFold(e, T, h)
  PROVE  h[T] = g[T]
<1> PICK bad : bad = {s \in SUBSET T : h[s] # g[s]}
  OBVIOUS
<1>1. IsFiniteSet(T) /\ bad \in SUBSET (SUBSET T)
  BY FS_Subset
<1>2. ASSUME NEW s \in bad PROVE \E x \in s : s \ {x} \in bad
  <2>1. h[s] = IF s = {} THEN 0
               ELSE e[CHOOSE x \in s : TRUE] + h[s \ {CHOOSE x \in s : TRUE}]
    BY DEF IsFold
  <2>2. s # {}
    BY <2>1 DEF IsTable
  <2>3. PICK c : c = CHOOSE x \in s : TRUE
    OBVIOUS
  <2>4. c \in s /\ h[s] = e[c] + h[s \ {c}]
    BY <2>1, <2>2, <2>3
  <2>5. g[s] = e[c] + g[s \ {c}]
    BY <2>4 DEF IsTable
  <2> QED
    BY <2>4, <2>5
<1>3. bad = {}
  BY <1>1, <1>2, Descent
<1> QED
  BY <1>3

\* The sums over the subsets of a finite set are a table: no sum depends on an order.
LEMMA SumsAreTable ==
  ASSUME NEW S, IsFiniteSet(S), NEW e \in [S -> Int]
  PROVE  IsTable(e, S, [T \in SUBSET S |-> SumFunctionOnSet(e, T)])
<1>1. PICK g : IsTable(e, S, g)
  BY TableExists
<1>2. ASSUME NEW T \in SUBSET S PROVE SumFunctionOnSet(e, T) = g[T]
  <2>1. PICK h : h = [s \in SUBSET T |-> g[s]]
    OBVIOUS
  <2>2. IsFold(e, T, h)
    <3>1. ASSUME NEW s \in SUBSET T
          PROVE  h[s] = IF s = {} THEN 0
                        ELSE e[CHOOSE x \in s : TRUE] + h[s \ {CHOOSE x \in s : TRUE}]
      <4>1. PICK c : c = CHOOSE x \in s : TRUE
        OBVIOUS
      <4>2. s # {} => c \in s /\ g[s] = e[c] + g[s \ {c}]
        BY <1>1, <4>1 DEF IsTable
      <4>3. h[s] = g[s] /\ h[s \ {c}] = g[s \ {c}]
        BY <2>1
      <4>4. s = {} => h[s] = 0
        BY <1>1, <4>3 DEF IsTable
      <4>5. h[s] = IF s = {} THEN 0 ELSE e[c] + h[s \ {c}]
        BY <4>2, <4>3, <4>4
      <4> QED
        BY <4>1, <4>5
    <3> QED
      BY <2>1, <3>1 DEF IsFold
  <2>3. PICK k : IsFold(e, T, k) /\ SumFunctionOnSet(e, T) = k[T]
    BY <2>2, SumIsFold
  <2> QED
    BY <1>1, <2>3, FoldIsTable
<1>3. [T \in SUBSET S |-> SumFunctionOnSet(e, T)] = g
  BY <1>1, <1>2 DEF IsTable
<1> QED
  BY <1>1, <1>3

\* The sum of no elements, and of one more.
LEMMA SumRules ==
  ASSUME NEW S, IsFiniteSet(S), NEW e \in [S -> Int], NEW T \in SUBSET S
  PROVE  /\ SumFunctionOnSet(e, T) \in Int
         /\ SumFunctionOnSet(e, {}) = 0
         /\ \A x \in T : SumFunctionOnSet(e, T) = e[x] + SumFunctionOnSet(e, T \ {x})
<1>1. PICK g : g = [R \in SUBSET S |-> SumFunctionOnSet(e, R)]
  OBVIOUS
<1>2. IsTable(e, S, g)
  BY <1>1, SumsAreTable
<1>3. \A R \in SUBSET S : g[R] = SumFunctionOnSet(e, R)
  BY <1>1
<1>4. {} \in SUBSET S /\ \A x \in T : T \ {x} \in SUBSET S
  OBVIOUS
<1> QED
  BY <1>2, <1>3, <1>4 DEF IsTable

\* One element more.
LEMMA SumAdds ==
  ASSUME NEW S, IsFiniteSet(S), NEW e \in [S -> Int], NEW T \in SUBSET S, NEW x \in S \ T
  PROVE  SumFunctionOnSet(e, T \union {x}) = SumFunctionOnSet(e, T) + e[x]
<1>1. T \union {x} \in SUBSET S /\ (T \union {x}) \ {x} = T /\ x \in T \union {x}
  OBVIOUS
<1>2. SumFunctionOnSet(e, T \union {x}) = e[x] + SumFunctionOnSet(e, T)
  <2>1. PICK U : U = T \union {x}
    OBVIOUS
  <2>2. U \in SUBSET S /\ U \ {x} = T /\ x \in U
    BY <1>1, <2>1
  <2>3. SumFunctionOnSet(e, U) = e[x] + SumFunctionOnSet(e, U \ {x})
    BY <2>2, SumRules
  <2> QED
    BY <2>1, <2>2, <2>3
<1>3. SumFunctionOnSet(e, T) \in Int /\ e[x] \in Int
  BY SumRules
<1> QED
  BY <1>2, <1>3

\* Sums depend on the elements they are over.
LEMMA SumCongruent ==
  ASSUME NEW S, IsFiniteSet(S), NEW e \in [S -> Int], NEW f \in [S -> Int],
         NEW T \in SUBSET S, \A x \in T : e[x] = f[x]
  PROVE  SumFunctionOnSet(e, T) = SumFunctionOnSet(f, T)
<1> PICK bad : bad = {s \in SUBSET T : SumFunctionOnSet(e, s) # SumFunctionOnSet(f, s)}
  OBVIOUS
<1>1. IsFiniteSet(T) /\ bad \in SUBSET (SUBSET T)
  BY FS_Subset
<1>2. ASSUME NEW s \in bad PROVE \E x \in s : s \ {x} \in bad
  <2>1. s # {}
    <3>1. SumFunctionOnSet(e, {}) = 0 /\ SumFunctionOnSet(f, {}) = 0
      BY SumRules
    <3> QED
      BY <3>1
  <2>2. PICK x \in s : TRUE
    BY <2>1
  <2>3. s \in SUBSET S /\ s \ {x} \in SUBSET T /\ e[x] = f[x]
    OBVIOUS
  <2>4. SumFunctionOnSet(e, s) = e[x] + SumFunctionOnSet(e, s \ {x})
    BY <2>3, SumRules
  <2>5. SumFunctionOnSet(f, s) = f[x] + SumFunctionOnSet(f, s \ {x})
    BY <2>3, SumRules
  <2> QED
    BY <2>3, <2>4, <2>5
<1>3. bad = {}
  BY <1>1, <1>2, Descent
<1> QED
  BY <1>3

\* What a change of one element does to a sum.
LEMMA SumChanges ==
  ASSUME NEW S, IsFiniteSet(S), NEW e \in [S -> Int], NEW f \in [S -> Int], NEW x \in S,
         \A y \in S : y # x => e[y] = f[y]
  PROVE  SumFunctionOnSet(f, S) = SumFunctionOnSet(e, S) - e[x] + f[x]
<1>1. PICK T : T = S \ {x}
  OBVIOUS
<1>2. T \in SUBSET S /\ x \in S \ T /\ T \union {x} = S
  BY <1>1
<1>3. SumFunctionOnSet(e, T \union {x}) = SumFunctionOnSet(e, T) + e[x]
      /\ SumFunctionOnSet(f, T \union {x}) = SumFunctionOnSet(f, T) + f[x]
  BY <1>2, SumAdds
<1>4. SumFunctionOnSet(e, T) = SumFunctionOnSet(f, T)
  BY <1>1, <1>2, SumCongruent
<1>5. SumFunctionOnSet(e, T) \in Int /\ e[x] \in Int /\ f[x] \in Int
  BY <1>2, SumRules
<1>6. SumFunctionOnSet(e, S) = SumFunctionOnSet(e, T) + e[x]
      /\ SumFunctionOnSet(f, S) = SumFunctionOnSet(e, T) + f[x]
  BY <1>2, <1>3, <1>4
<1> QED
  BY <1>5, <1>6

\* A sum of numbers that bound others bounds the sum of those.
LEMMA SumBounds ==
  ASSUME NEW S, IsFiniteSet(S), NEW a \in [S -> Int], NEW d \in [S -> Int],
         \A x \in S : a[x] >= d[x] /\ a[x] >= -d[x]
  PROVE  SumFunctionOnSet(a, S) >= SumFunctionOnSet(d, S)
         /\ SumFunctionOnSet(a, S) >= -SumFunctionOnSet(d, S)
<1> PICK bad : bad = {s \in SUBSET S :
                        ~ (/\ SumFunctionOnSet(a, s) >= SumFunctionOnSet(d, s)
                           /\ SumFunctionOnSet(a, s) >= -SumFunctionOnSet(d, s))}
  OBVIOUS
<1>1. bad \in SUBSET (SUBSET S)
  OBVIOUS
<1>2. ASSUME NEW s \in bad PROVE \E x \in s : s \ {x} \in bad
  <2>1. s # {}
    <3>1. SumFunctionOnSet(a, {}) = 0 /\ SumFunctionOnSet(d, {}) = 0
      BY SumRules
    <3>2. PICK x, y : x = SumFunctionOnSet(a, {}) /\ y = SumFunctionOnSet(d, {})
      OBVIOUS
    <3>3. x >= y /\ x >= -y
      BY <3>1, <3>2
    <3>4. ASSUME s = {} PROVE FALSE
      <4>1. ~ (x >= y /\ x >= -y)
        BY <3>2, <3>4
      <4> QED
        BY <3>3, <4>1
    <3> QED
      BY <3>4
  <2>2. PICK x \in s : TRUE
    BY <2>1
  <2>3. s \in SUBSET S /\ s \ {x} \in SUBSET S /\ x \in S
    OBVIOUS
  <2>4. PICK as, ar, ax, ds, dr, dx :
          /\ as = SumFunctionOnSet(a, s) /\ ar = SumFunctionOnSet(a, s \ {x}) /\ ax = a[x]
          /\ ds = SumFunctionOnSet(d, s) /\ dr = SumFunctionOnSet(d, s \ {x}) /\ dx = d[x]
    OBVIOUS
  <2>5. as = ax + ar /\ ds = dx + dr
    BY <2>3, <2>4, SumRules
  <2>6. ar \in Int /\ dr \in Int /\ ax \in Int /\ dx \in Int
    BY <2>3, <2>4, SumRules
  <2>7. ax >= dx /\ ax >= -dx
    BY <2>3, <2>4
  <2>8. ar >= dr /\ ar >= -dr => as >= ds /\ as >= -ds
    BY <2>5, <2>6, <2>7
  <2>9. ~ (as >= ds /\ as >= -ds)
    BY <2>4
  <2>10. ~ (ar >= dr /\ ar >= -dr)
    BY <2>8, <2>9
  <2> QED
    BY <2>3, <2>4, <2>10
<1>3. bad = {}
  BY <1>1, <1>2, Descent
<1> QED
  BY <1>3

-----------------------------------------------------------------------------
(* Squares and quotients. *)

\* A product grows with its factors.
LEMMA Products ==
  ASSUME NEW a \in Nat, NEW b \in Nat, NEW c \in Nat, a <= b
  PROVE  a * c <= b * c /\ a * c \in Nat /\ b * c \in Nat
<1>1. PICK k \in Nat : b = a + k
  <2>1. b - a \in Nat /\ b = a + (b - a)
    OBVIOUS
  <2> QED
    BY <2>1
<1>2. b * c = a * c + k * c
  BY <1>1
<1>3. k * c \in Nat /\ a * c \in Nat
  OBVIOUS
<1> QED
  BY <1>2, <1>3

\* The quotient of a division by a positive number.
LEMMA Quotients ==
  ASSUME NEW x \in Nat, NEW w \in Nat \ {0}
  PROVE  x \div w \in Nat /\ (x \div w) * w <= x /\ x < (x \div w) * w + w
OBVIOUS

\* It is the only number that lies so.
LEMMA QuotientIs ==
  ASSUME NEW x \in Nat, NEW w \in Nat \ {0}, NEW q \in Nat, q * w <= x, x < q * w + w
  PROVE  x \div w = q
<1> PICK p : p = x \div w
  OBVIOUS
<1>1. p \in Nat /\ p * w <= x /\ x < p * w + w
  BY Quotients
<1>2. ASSUME NEW a \in Nat, NEW b \in Nat, a < b, b * w <= x, x < a * w + w PROVE FALSE
  <2>1. (a + 1) * w <= b * w
    BY <1>2, Products
  <2>2. (a + 1) * w = a * w + w
    OBVIOUS
  <2>3. a * w \in Nat /\ b * w \in Nat
    OBVIOUS
  <2> QED
    BY <1>2, <2>1, <2>2, <2>3
<1>3. ~ (p < q) /\ ~ (q < p)
  BY <1>1, <1>2
<1> QED
  BY <1>1, <1>3

\* Cauchy's inequality, one term at a time.
LEMMA SquareOfSum ==
  ASSUME NEW s \in Nat, NEW n \in Nat, NEW q \in Nat, NEW x \in Nat, s * s <= n * q
  PROVE  (s + x) * (s + x) <= (n + 1) * (q + x * x)
<1>1. 2 * s * x <= q + n * x * x
  <2>1. CASE n = 0
    <3>1. s * s <= 0
      BY <2>1
    <3>2. s = 0
      <4>1. s # 0 => s * s >= s
        <5>1. s # 0 => 1 * s <= s * s
          BY Products
        <5> QED
          BY <5>1
      <4> QED
        BY <3>1, <4>1
    <3> QED
      BY <2>1, <3>2
  <2>2. CASE n # 0
    <3>1. SUFFICES ASSUME 2 * s * x >= q + n * x * x + 1 PROVE FALSE
      OBVIOUS
    <3>2. PICK d \in Int : d = s - n * x
      OBVIOUS
    <3>3. d * d >= 0
      OBVIOUS
    <3>4. d * d = s * s - 2 * (n * (s * x)) + n * (n * (x * x))
      BY <3>2
    <3>5. (q + n * x * x + 1) * n <= (2 * s * x) * n
      BY <3>1, Products
    <3>6. (q + n * x * x + 1) * n = n * q + n * (n * (x * x)) + n
          /\ (2 * s * x) * n = 2 * (n * (s * x))
      OBVIOUS
    <3>7. PICK nq, nnxx, nsx, ss :
             nq = n * q /\ nnxx = n * (n * (x * x)) /\ nsx = n * (s * x) /\ ss = s * s
      OBVIOUS
    <3>8. nq \in Nat /\ nnxx \in Nat /\ nsx \in Nat /\ ss \in Nat
      BY <3>7
    <3>9. nq + nnxx + n <= 2 * nsx /\ ss <= nq /\ ss - 2 * nsx + nnxx >= 0
      BY <3>3, <3>4, <3>5, <3>6, <3>7
    <3> QED
      BY <2>2, <3>8, <3>9
  <2> QED
    BY <2>1, <2>2
<1>2. (s + x) * (s + x) = s * s + 2 * s * x + x * x
  OBVIOUS
<1>3. (n + 1) * (q + x * x) = n * q + n * x * x + q + x * x
  OBVIOUS
<1>4. PICK ss, sx, xx, nq, nxx :
        ss = s * s /\ sx = 2 * s * x /\ xx = x * x /\ nq = n * q /\ nxx = n * x * x
  OBVIOUS
<1>5. ss \in Nat /\ sx \in Nat /\ xx \in Nat /\ nq \in Nat /\ nxx \in Nat
  BY <1>4
<1>6. ss + sx + xx <= nq + nxx + q + xx
  BY <1>1, <1>4, <1>5
<1> QED
  BY <1>2, <1>3, <1>4, <1>6

-----------------------------------------------------------------------------
(* The metrics of the confidence evaluation. *)

Scored == {i \in DOMAIN cases : i < next}
InBin(b) == {i \in Scored : BinIndex(cases[i].bps) = b}
Submitted == {i \in Scored : cases[i].bps >= Threshold}

\* How far the confidences of a bin lie above its labels, together.
Excess == [b \in DOMAIN bins |-> bins[b].sum - bins[b].positive * Full]

MetricsTypeOK ==
    /\ cases \in Seq([acceptable : BOOLEAN, bps : Confidences])
    /\ Len(cases) >= MinCases
    /\ next \in 1 .. (Len(cases) + 1)
    /\ matrix \in [tp : Nat, fp : Nat, tn : Nat, fn : Nat]
    /\ squared \in Nat
    /\ bins \in [0 .. (BinCount - 1) -> [count : Nat, positive : Nat, sum : Nat]]

BinsOK ==
    \A b \in 0 .. (BinCount - 1) :
        /\ bins[b].count = Cardinality(InBin(b))
        /\ bins[b].positive = Cardinality(InBin(b) \intersect Acceptable)
        /\ bins[b].sum = SumFunctionOnSet(CaseBps, InBin(b))

MatrixOK ==
    /\ matrix.tp = Cardinality(Submitted \intersect Acceptable)
    /\ matrix.tp + matrix.fn = Cardinality(Scored \intersect Acceptable)
    /\ matrix.tp + matrix.fp = Cardinality(Submitted)
    /\ matrix.tp + matrix.fn + matrix.fp + matrix.tn = next - 1

\* The gaps so far are bounded by the squared error so far and by what the confidences and
\* the labels so far differ by.
GapsOK ==
    /\ GapSum \in Nat
    /\ GapSum * GapSum <= (next - 1) * squared
    /\ SumFunction(Excess)
         = SumFunctionOnSet(CaseBps, Scored) - Cardinality(Scored \intersect Acceptable) * Full

ReportOK == report = NoReport \/ (next > Len(cases) /\ report = Evaluation)

MetricsInv == MetricsTypeOK /\ BinsOK /\ MatrixOK /\ GapsOK /\ ReportOK

\* What scoring the next case knows of it.
LEMMA NextCase ==
  ASSUME MetricsTypeOK, next <= Len(cases)
  PROVE  /\ next \in DOMAIN cases /\ next \in Nat
         /\ cases[next] \in [acceptable : BOOLEAN, bps : Confidences]
         /\ cases[next].bps \in 0 .. Full /\ cases[next].bps \in Nat
         /\ cases[next].acceptable \in BOOLEAN
         /\ DOMAIN cases = 1 .. Len(cases) /\ Len(cases) \in Nat
         /\ IsFiniteSet(DOMAIN cases)
         /\ CaseBps \in [DOMAIN cases -> Int] /\ CaseBps[next] = cases[next].bps
<1>1. DOMAIN cases = 1 .. Len(cases) /\ Len(cases) \in Nat /\ next \in DOMAIN cases
      /\ next \in Nat
  BY DEF MetricsTypeOK
<1>2. \A i \in DOMAIN cases : cases[i] \in [acceptable : BOOLEAN, bps : Confidences]
  <2>1. PICK C : C = [acceptable : BOOLEAN, bps : Confidences]
    OBVIOUS
  <2>2. cases \in Seq(C)
    BY <2>1 DEF MetricsTypeOK
  <2>3. \A i \in DOMAIN cases : cases[i] \in C
    BY <2>2
  <2> QED
    BY <2>1, <2>3
<1>3. \A x \in Confidences : x \in 0 .. Full /\ x \in Nat
  <2>1. Full \in Nat /\ Confidences \subseteq 0 .. Full
    BY MetricsAssumption
  <2> QED
    BY <2>1
<1>4. IsFiniteSet(DOMAIN cases)
  BY <1>1, FS_Interval
<1>5. CaseBps \in [DOMAIN cases -> Int] /\ CaseBps[next] = cases[next].bps
  BY <1>1, <1>2, <1>3 DEF CaseBps
<1> QED
  BY <1>1, <1>2, <1>3, <1>4, <1>5

\* The bin of a confidence is the one whose published bounds hold it.
LEMMA BinHolds ==
  ASSUME NEW x \in 0 .. Full, NEW b \in 0 .. (BinCount - 1)
  PROVE  /\ BinIndex(x) \in 0 .. (BinCount - 1)
         /\ BinIndex(x) = b <=> x \in PublishedBin(b).lower .. PublishedBin(b).upper
<1> PICK w, n, q : w = BinWidth /\ n = BinCount /\ q = x \div w
  OBVIOUS
<1>1. w \in Nat \ {0} /\ n \in Nat \ {0} /\ x \in Nat /\ b \in Nat /\ Full = w * n
      /\ w * n \in Nat
  BY MetricsAssumption
<1>2. q \in Nat /\ q * w <= x /\ x < q * w + w
  BY <1>1, Quotients
<1>3. BinIndex(x) = IF q < n THEN q ELSE n - 1
  BY DEF BinIndex
<1>4. PublishedBin(b).lower = b * w
      /\ PublishedBin(b).upper = IF b = n - 1 THEN Full ELSE b * w + w - 1
  BY DEF PublishedBin
<1>5. BinIndex(x) \in 0 .. (n - 1)
  BY <1>1, <1>2, <1>3
<1>6. ASSUME NEW a \in Nat, NEW c \in Nat, a < c PROVE a * w + w <= c * w /\ a * w \in Nat
  <2>1. (a + 1) * w <= c * w
    BY <1>1, <1>6, Products
  <2>2. (a + 1) * w = a * w + w
    BY <1>1
  <2> QED
    BY <1>1, <2>1, <2>2
<1>7. b * w \in Nat /\ q * w \in Nat
  BY <1>1, <1>2
<1>8. CASE b # n - 1
  <2>1. b < n - 1
    BY <1>1, <1>8
  <2>2. BinIndex(x) = b <=> q = b
    BY <1>1, <1>2, <1>3, <2>1
  <2>3. q = b => b * w <= x /\ x <= b * w + w - 1
    BY <1>1, <1>2, <1>7
  <2>4. b * w <= x /\ x <= b * w + w - 1 => q = b
    <3>1. b * w <= x /\ x <= b * w + w - 1 => x < b * w + w
      BY <1>1, <1>7
    <3> QED
      BY <1>1, <3>1, QuotientIs
  <2>5. x \in PublishedBin(b).lower .. PublishedBin(b).upper
        <=> b * w <= x /\ x <= b * w + w - 1
    BY <1>1, <1>4, <1>7, <1>8
  <2> QED
    BY <1>5, <2>2, <2>3, <2>4, <2>5
<1>9. CASE b = n - 1
  <2>1. BinIndex(x) = b <=> q >= b
    BY <1>1, <1>2, <1>3, <1>9
  <2>2. q >= b => b * w <= x
    <3>1. q >= b => b * w <= q * w
      BY <1>1, <1>2, Products
    <3> QED
      BY <1>1, <1>2, <1>7, <3>1
  <2>3. q < b => ~ (b * w <= x)
    <3>1. q < b => q * w + w <= b * w
      BY <1>1, <1>2, <1>6
    <3> QED
      BY <1>1, <1>2, <1>7, <3>1
  <2>4. x \in PublishedBin(b).lower .. PublishedBin(b).upper <=> b * w <= x
    BY <1>1, <1>4, <1>7, <1>9
  <2> QED
    BY <1>1, <1>2, <1>5, <2>1, <2>2, <2>3, <2>4
<1> QED
  BY <1>8, <1>9

\* What one case adds to the matrix.
LEMMA MatrixCounts ==
  ASSUME MetricsTypeOK, ScoreCase
  PROVE  LET c == cases[next]
             one(d) == IF d THEN 1 ELSE 0
         IN /\ matrix' \in [tp : Nat, fp : Nat, tn : Nat, fn : Nat]
            /\ matrix'.tp = matrix.tp + one(c.bps >= Threshold /\ c.acceptable)
            /\ matrix'.fp = matrix.fp + one(c.bps >= Threshold /\ ~ c.acceptable)
            /\ matrix'.fn = matrix.fn + one(~ (c.bps >= Threshold) /\ c.acceptable)
            /\ matrix'.tn = matrix.tn + one(~ (c.bps >= Threshold) /\ ~ c.acceptable)
<1>1. next <= Len(cases)
      /\ matrix' = [matrix EXCEPT ![Cell(cases[next].acceptable, cases[next].bps)] = @ + 1]
  BY DEF ScoreCase
<1>3. CASE cases[next].bps >= Threshold /\ cases[next].acceptable
  <2>1. matrix' = [matrix EXCEPT !["tp"] = @ + 1]
    BY <1>1, <1>3 DEF Cell
  <2> QED
    BY <1>3, <2>1 DEF MetricsTypeOK
<1>4. CASE cases[next].bps >= Threshold /\ ~ cases[next].acceptable
  <2>1. matrix' = [matrix EXCEPT !["fp"] = @ + 1]
    BY <1>1, <1>4 DEF Cell
  <2> QED
    BY <1>4, <2>1 DEF MetricsTypeOK
<1>5. CASE ~ (cases[next].bps >= Threshold) /\ cases[next].acceptable
  <2>1. matrix' = [matrix EXCEPT !["fn"] = @ + 1]
    BY <1>1, <1>5 DEF Cell
  <2> QED
    BY <1>5, <2>1 DEF MetricsTypeOK
<1>6. CASE ~ (cases[next].bps >= Threshold) /\ ~ cases[next].acceptable
  <2>1. matrix' = [matrix EXCEPT !["tn"] = @ + 1]
    BY <1>1, <1>6 DEF Cell
  <2> QED
    BY <1>6, <2>1 DEF MetricsTypeOK
<1> QED
  BY <1>3, <1>4, <1>5, <1>6

\* One element more, counted in a set of interest.
LEMMA OneMoreCounted ==
  ASSUME NEW A, IsFiniteSet(A), NEW x, x \notin A, NEW D
  PROVE  /\ Cardinality(A) \in Nat /\ Cardinality(A \intersect D) \in Nat
         /\ Cardinality(A \union {x}) = Cardinality(A) + 1
         /\ x \in D => Cardinality((A \union {x}) \intersect D)
                          = Cardinality(A \intersect D) + 1
         /\ x \notin D => (A \union {x}) \intersect D = A \intersect D
<1>1. IsFiniteSet(A \intersect D)
  BY FS_Subset
<1>2. Cardinality(A) \in Nat /\ Cardinality(A \intersect D) \in Nat
  BY <1>1, FS_CardinalityType
<1>3. Cardinality(A \union {x}) = Cardinality(A) + 1
  BY FS_AddElement
<1>4. ASSUME x \in D
      PROVE  Cardinality((A \union {x}) \intersect D) = Cardinality(A \intersect D) + 1
  <2>1. (A \union {x}) \intersect D = (A \intersect D) \union {x} /\ x \notin A \intersect D
    BY <1>4
  <2>2. Cardinality((A \intersect D) \union {x}) = Cardinality(A \intersect D) + 1
    BY <1>1, <2>1, FS_AddElement
  <2> QED
    BY <2>1, <2>2
<1>5. x \notin D => (A \union {x}) \intersect D = A \intersect D
  OBVIOUS
<1> QED
  BY <1>2, <1>3, <1>4, <1>5

\* Scoring moves one case into what is scored, and into its bin alone.
LEMMA ScoredGrows ==
  ASSUME MetricsTypeOK, ScoreCase
  PROVE  /\ next <= Len(cases) /\ next' = next + 1 /\ cases' = cases /\ report' = report
         /\ Scored \subseteq DOMAIN cases /\ IsFiniteSet(Scored) /\ next \notin Scored
         /\ Scored' = Scored \union {next}
         /\ Acceptable' = Acceptable /\ CaseBps' = CaseBps
         /\ next \in Acceptable <=> cases[next].acceptable
         /\ Submitted' = IF cases[next].bps >= Threshold THEN Submitted \union {next}
                                                         ELSE Submitted
         /\ Submitted \subseteq Scored
         /\ \A b : InBin(b) \subseteq Scored
         /\ \A b : InBin(b)' = IF b = BinIndex(cases[next].bps) THEN InBin(b) \union {next}
                                                               ELSE InBin(b)
<1>1. next <= Len(cases) /\ next' = next + 1 /\ cases' = cases /\ report' = report
  BY DEF ScoreCase
<1>2. /\ DOMAIN cases = 1 .. Len(cases) /\ Len(cases) \in Nat /\ next \in DOMAIN cases
      /\ IsFiniteSet(DOMAIN cases)
  BY <1>1, NextCase
<1>3. Scored \subseteq DOMAIN cases /\ next \notin Scored
  BY <1>2 DEF Scored
<1>4. IsFiniteSet(Scored)
  BY <1>2, <1>3, FS_Subset
<1>5. Scored' = Scored \union {next}
  BY <1>1, <1>2 DEF Scored
<1>6. Acceptable' = Acceptable /\ CaseBps' = CaseBps
      /\ (next \in Acceptable <=> cases[next].acceptable)
  BY <1>1, <1>2 DEF Acceptable, CaseBps
<1>7. Submitted' = IF cases[next].bps >= Threshold THEN Submitted \union {next}
                                                   ELSE Submitted
  BY <1>1, <1>5 DEF Submitted
<1>8. ASSUME NEW b
      PROVE  InBin(b)' = IF b = BinIndex(cases[next].bps) THEN InBin(b) \union {next}
                                                         ELSE InBin(b)
  BY <1>1, <1>5 DEF InBin
<1>9. Submitted \subseteq Scored /\ \A b : InBin(b) \subseteq Scored
  BY DEF Submitted, InBin
<1> QED
  BY <1>1, <1>3, <1>4, <1>5, <1>6, <1>7, <1>8, <1>9

\* What one case adds to the bins.
LEMMA BinCounts ==
  ASSUME MetricsTypeOK, ScoreCase
  PROVE  LET c == cases[next]
             k == BinIndex(c.bps)
         IN /\ k \in 0 .. (BinCount - 1)
            /\ bins' \in [0 .. (BinCount - 1) -> [count : Nat, positive : Nat, sum : Nat]]
            /\ \A b \in 0 .. (BinCount - 1) : b # k => bins'[b] = bins[b]
            /\ bins'[k].count = bins[k].count + 1
            /\ bins'[k].positive = bins[k].positive + (IF c.acceptable THEN 1 ELSE 0)
            /\ bins'[k].sum = bins[k].sum + c.bps
<1> PICK c, k : c = cases[next] /\ k = BinIndex(c.bps)
  OBVIOUS
<1>1. next <= Len(cases)
  BY DEF ScoreCase
<1>2. c.bps \in Nat /\ c.bps \in 0 .. Full
  BY <1>1, NextCase
<1>3. k \in 0 .. (BinCount - 1)
  <2>1. BinCount \in Nat \ {0}
    BY MetricsAssumption
  <2>2. 0 \in 0 .. (BinCount - 1)
    BY <2>1
  <2> QED
    BY <1>2, <2>2, BinHolds
<1>4. PICK new : new = [count |-> bins[k].count + 1,
                        positive |-> bins[k].positive + (IF c.acceptable THEN 1 ELSE 0),
                        sum |-> bins[k].sum + c.bps]
  OBVIOUS
<1>5. bins' = [bins EXCEPT ![k] = new]
  BY <1>4 DEF ScoreCase
<1>6. /\ new \in [count : Nat, positive : Nat, sum : Nat]
      /\ new.count = bins[k].count + 1
      /\ new.positive = bins[k].positive + (IF c.acceptable THEN 1 ELSE 0)
      /\ new.sum = bins[k].sum + c.bps
  <2>1. bins[k] \in [count : Nat, positive : Nat, sum : Nat]
    BY <1>3 DEF MetricsTypeOK
  <2>2. bins[k].count + 1 \in Nat
        /\ bins[k].positive + (IF c.acceptable THEN 1 ELSE 0) \in Nat
        /\ bins[k].sum + c.bps \in Nat
    BY <1>2, <2>1
  <2> QED
    BY <1>4, <2>2
<1>7. /\ bins' \in [0 .. (BinCount - 1) -> [count : Nat, positive : Nat, sum : Nat]]
      /\ \A b \in 0 .. (BinCount - 1) : b # k => bins'[b] = bins[b]
      /\ bins'[k] = new
  BY <1>3, <1>5, <1>6 DEF MetricsTypeOK
<1> QED
  BY <1>3, <1>6, <1>7

\* Scoring keeps the counts of bins and matrix those of the cases scored.
LEMMA CountsGrow ==
  ASSUME MetricsTypeOK, BinsOK, MatrixOK, ScoreCase
  PROVE  BinsOK' /\ MatrixOK'
<1> PICK c, k : c = cases[next] /\ k = BinIndex(c.bps)
  OBVIOUS
<1>1. next <= Len(cases)
  BY DEF ScoreCase
<1>2. IsFiniteSet(Scored) /\ next \notin Scored
  BY ScoredGrows
<1>3. ASSUME NEW b \in 0 .. (BinCount - 1)
      PROVE  /\ bins'[b].count = Cardinality(InBin(b)')
             /\ bins'[b].positive = Cardinality(InBin(b)' \intersect Acceptable')
             /\ bins'[b].sum = SumFunctionOnSet(CaseBps', InBin(b)')
  <2>1. CASE b # k
    <3>1. InBin(b)' = InBin(b) /\ Acceptable' = Acceptable /\ CaseBps' = CaseBps
      BY <2>1, ScoredGrows
    <3>2. bins'[b] = bins[b]
      BY <2>1, BinCounts
    <3> QED
      BY <3>1, <3>2 DEF BinsOK
  <2>2. CASE b = k
    <3>1. /\ InBin(b)' = InBin(b) \union {next} /\ Acceptable' = Acceptable
          /\ CaseBps' = CaseBps /\ InBin(b) \subseteq Scored
          /\ (next \in Acceptable <=> c.acceptable)
      BY <2>2, ScoredGrows
    <3>2. /\ bins'[b].count = bins[b].count + 1
          /\ bins'[b].positive = bins[b].positive + (IF c.acceptable THEN 1 ELSE 0)
          /\ bins'[b].sum = bins[b].sum + c.bps
      BY <2>2, BinCounts
    <3>3. IsFiniteSet(InBin(b)) /\ next \notin InBin(b)
      BY <1>2, <3>1, FS_Subset
    <3>4. PICK old : old = InBin(b)
      OBVIOUS
    <3>5. /\ Cardinality(old \union {next}) = Cardinality(old) + 1
          /\ Cardinality((old \union {next}) \intersect Acceptable)
               = Cardinality(old \intersect Acceptable) + (IF next \in Acceptable THEN 1 ELSE 0)
      <4>1. PICK n, m : n = Cardinality(old \intersect Acceptable)
                        /\ m = Cardinality((old \union {next}) \intersect Acceptable)
        OBVIOUS
      <4>2. /\ Cardinality(old \union {next}) = Cardinality(old) + 1 /\ n \in Nat
            /\ next \in Acceptable => m = n + 1
            /\ next \notin Acceptable => m = n
        <5>1. PICK A : A = Acceptable
          OBVIOUS
        <5>2. IsFiniteSet(old) /\ next \notin old
          BY <3>3, <3>4
        <5>3. /\ Cardinality(old) \in Nat /\ Cardinality(old \intersect A) \in Nat
              /\ Cardinality(old \union {next}) = Cardinality(old) + 1
              /\ next \in A => Cardinality((old \union {next}) \intersect A)
                                = Cardinality(old \intersect A) + 1
              /\ next \notin A => (old \union {next}) \intersect A = old \intersect A
          BY <5>2, OneMoreCounted
        <5> QED
          BY <4>1, <5>1, <5>3
      <4> QED
        BY <4>1, <4>2
    <3>6. SumFunctionOnSet(CaseBps, old \union {next})
            = SumFunctionOnSet(CaseBps, old) + CaseBps[next]
      <4>1. old \in SUBSET (DOMAIN cases) /\ next \in (DOMAIN cases) \ old
            /\ IsFiniteSet(DOMAIN cases) /\ CaseBps \in [DOMAIN cases -> Int]
        BY <1>1, <3>1, <3>3, <3>4, NextCase DEF Scored
      <4> QED
        BY <4>1, SumAdds
    <3>7. CaseBps[next] = c.bps
      BY <1>1, NextCase
    <3> QED
      BY <3>1, <3>2, <3>4, <3>5, <3>6, <3>7 DEF BinsOK
  <2> QED
    BY <2>1, <2>2
<1>4. BinsOK'
  BY <1>3 DEF BinsOK
<1>5. MatrixOK'
  <2>1. PICK tp, fp, fn, tn :
          tp = matrix.tp /\ fp = matrix.fp /\ fn = matrix.fn /\ tn = matrix.tn
    OBVIOUS
  <2>2. tp \in Nat /\ fp \in Nat /\ fn \in Nat /\ tn \in Nat /\ next \in Nat
    BY <1>1, <2>1, NextCase DEF MetricsTypeOK
  <2>3. PICK sub, acc : /\ sub \in BOOLEAN /\ sub <=> c.bps >= Threshold
                        /\ acc \in BOOLEAN /\ acc <=> next \in Acceptable
    OBVIOUS
  <2>4. acc <=> c.acceptable
    BY <2>3, ScoredGrows
  <2>5. /\ matrix'.tp = tp + (IF sub /\ acc THEN 1 ELSE 0)
        /\ matrix'.fp = fp + (IF sub /\ ~ acc THEN 1 ELSE 0)
        /\ matrix'.fn = fn + (IF ~ sub /\ acc THEN 1 ELSE 0)
        /\ matrix'.tn = tn + (IF ~ sub /\ ~ acc THEN 1 ELSE 0)
    BY <2>1, <2>3, <2>4, MatrixCounts
  <2>6. PICK A, S : A = Acceptable /\ S = Submitted
    OBVIOUS
  <2>7. /\ Acceptable' = A /\ Scored' = Scored \union {next} /\ next' = next + 1
        /\ Submitted' = IF sub THEN S \union {next} ELSE S
        /\ S \subseteq Scored
    BY <2>3, <2>6, ScoredGrows
  <2>8. IsFiniteSet(S) /\ next \notin S
    BY <1>2, <2>7, FS_Subset
  <2>9. acc <=> next \in A
    BY <2>3, <2>6
  <2>10. PICK s, sa, ca : /\ s = Cardinality(S) /\ sa = Cardinality(S \intersect A)
                          /\ ca = Cardinality(Scored \intersect A)
    OBVIOUS
  <2>11. /\ s \in Nat /\ sa \in Nat /\ Cardinality(S \union {next}) = s + 1
         /\ acc => Cardinality((S \union {next}) \intersect A) = sa + 1
         /\ ~ acc => Cardinality((S \union {next}) \intersect A) = sa
    <3>1. /\ Cardinality(S) \in Nat /\ Cardinality(S \intersect A) \in Nat
          /\ Cardinality(S \union {next}) = Cardinality(S) + 1
          /\ next \in A => Cardinality((S \union {next}) \intersect A)
                            = Cardinality(S \intersect A) + 1
          /\ next \notin A => (S \union {next}) \intersect A = S \intersect A
      BY <2>8, OneMoreCounted
    <3> QED
      BY <2>9, <2>10, <3>1
  <2>12. /\ ca \in Nat
         /\ acc => Cardinality((Scored \union {next}) \intersect A) = ca + 1
         /\ ~ acc => Cardinality((Scored \union {next}) \intersect A) = ca
    <3>1. PICK R : R = Scored
      OBVIOUS
    <3>2. IsFiniteSet(R) /\ next \notin R
      BY <1>2, <3>1
    <3>3. /\ Cardinality(R) \in Nat /\ Cardinality(R \intersect A) \in Nat
          /\ Cardinality(R \union {next}) = Cardinality(R) + 1
          /\ next \in A => Cardinality((R \union {next}) \intersect A)
                            = Cardinality(R \intersect A) + 1
          /\ next \notin A => (R \union {next}) \intersect A = R \intersect A
      BY <3>2, OneMoreCounted
    <3> QED
      BY <2>9, <2>10, <3>1, <3>3
  <2>13. /\ tp = sa /\ tp + fn = ca /\ tp + fp = s /\ tp + fn + fp + tn = next - 1
    BY <2>1, <2>6, <2>10 DEF MatrixOK
  <2>14. PICK s1, sa1, ca1 : /\ s1 = Cardinality(Submitted')
                             /\ sa1 = Cardinality(Submitted' \intersect A)
                             /\ ca1 = Cardinality(Scored' \intersect A)
    OBVIOUS
  <2>15. (acc => ca1 = ca + 1) /\ (~ acc => ca1 = ca)
    BY <2>7, <2>12, <2>14
  <2>16. sub => s1 = s + 1 /\ (acc => sa1 = sa + 1) /\ (~ acc => sa1 = sa)
    BY <2>7, <2>11, <2>14
  <2>17. ~ sub => s1 = s /\ sa1 = sa
    BY <2>7, <2>10, <2>14
  <2>18. PICK tp1, fp1, fn1, tn1 :
           tp1 = matrix'.tp /\ fp1 = matrix'.fp /\ fn1 = matrix'.fn /\ tn1 = matrix'.tn
    OBVIOUS
  <2>19. /\ tp1 = sa1 /\ tp1 + fn1 = ca1 /\ tp1 + fp1 = s1
         /\ tp1 + fn1 + fp1 + tn1 = (next + 1) - 1
    <3>1. CASE sub /\ acc
      BY <2>2, <2>5, <2>11, <2>12, <2>13, <2>15, <2>16, <2>18, <3>1
    <3>2. CASE sub /\ ~ acc
      BY <2>2, <2>5, <2>11, <2>12, <2>13, <2>15, <2>16, <2>18, <3>2
    <3>3. CASE ~ sub /\ acc
      BY <2>2, <2>5, <2>11, <2>12, <2>13, <2>15, <2>17, <2>18, <3>3
    <3>4. CASE ~ sub /\ ~ acc
      BY <2>2, <2>5, <2>11, <2>12, <2>13, <2>15, <2>17, <2>18, <3>4
    <3> QED
      BY <3>1, <3>2, <3>3, <3>4
  <2> QED
    BY <2>7, <2>14, <2>18, <2>19 DEF MatrixOK
<1> QED
  BY <1>4, <1>5

\* The gaps of the bins, and what makes them.
Gaps == [b \in DOMAIN bins |-> BinGap(bins[b])]

GapsAreExcess ==
    LET D == 0 .. (BinCount - 1)
    IN /\ DOMAIN bins = D /\ IsFiniteSet(D)
       /\ Gaps \in [D -> Int] /\ Excess \in [D -> Int]
       /\ \A b \in D : /\ Excess[b] = bins[b].sum - bins[b].positive * Full
                       /\ Gaps[b] >= Excess[b] /\ Gaps[b] >= -Excess[b]
                       /\ Gaps[b] = Excess[b] \/ Gaps[b] = -Excess[b]
                       /\ Gaps[b] \in Nat
       /\ GapSum = SumFunctionOnSet(Gaps, D)
       /\ SumFunction(Excess) = SumFunctionOnSet(Excess, D)

\* A gap is how far a sum lies from what the labels ask for.
LEMMA GapIsExcess == MetricsTypeOK => GapsAreExcess
<1> SUFFICES ASSUME MetricsTypeOK PROVE GapsAreExcess
  OBVIOUS
<1> PICK D : D = 0 .. (BinCount - 1)
  OBVIOUS
<1>0. BinCount \in Nat \ {0} /\ Full \in Nat
  BY MetricsAssumption
<1>1. DOMAIN bins = D /\ IsFiniteSet(D)
  BY <1>0, FS_Interval DEF MetricsTypeOK
<1>2. ASSUME NEW b \in D
      PROVE  /\ Gaps[b] = BinGap(bins[b])
             /\ Excess[b] = bins[b].sum - bins[b].positive * Full
             /\ Excess[b] \in Int /\ Gaps[b] \in Nat
             /\ Gaps[b] >= Excess[b] /\ Gaps[b] >= -Excess[b]
             /\ Gaps[b] = Excess[b] \/ Gaps[b] = -Excess[b]
  <2>1. Gaps[b] = BinGap(bins[b]) /\ Excess[b] = bins[b].sum - bins[b].positive * Full
    BY <1>1 DEF Gaps, Excess
  <2>2. bins[b].sum \in Nat /\ bins[b].positive \in Nat
    BY DEF MetricsTypeOK
  <2>3. PICK x : x = bins[b].sum - bins[b].positive * Full
    OBVIOUS
  <2>4. x \in Int
    BY <1>0, <2>2, <2>3
  <2>5. Gaps[b] = IF x < 0 THEN -x ELSE x
    BY <2>1, <2>3 DEF BinGap, AbsoluteValue
  <2> QED
    BY <2>1, <2>3, <2>4, <2>5
<1>3. Gaps \in [D -> Int] /\ Excess \in [D -> Int]
  <2>1. Gaps = [b \in D |-> Gaps[b]] /\ Excess = [b \in D |-> Excess[b]]
    BY <1>1 DEF Gaps, Excess
  <2> QED
    BY <1>2, <2>1
<1>4. GapSum = SumFunctionOnSet(Gaps, D)
  <2>1. DOMAIN Gaps = D
    BY <1>1 DEF Gaps
  <2> QED
    BY <2>1 DEF GapSum, Gaps, SumFunction
<1>5. SumFunction(Excess) = SumFunctionOnSet(Excess, D)
  <2>1. DOMAIN Excess = D
    BY <1>1 DEF Excess
  <2> QED
    BY <2>1 DEF SumFunction
<1> QED
  BY <1>1, <1>2, <1>3, <1>4, <1>5 DEF GapsAreExcess

\* Scoring a case moves the sum of the gaps by no more than the case's error, and the sum of
\* the excesses by that error.
LEMMA GapsGrow ==
  ASSUME MetricsTypeOK, MetricsTypeOK', GapsOK, ScoreCase
  PROVE  GapsOK'
<1> PICK c, k, D : c = cases[next] /\ k = BinIndex(c.bps) /\ D = 0 .. (BinCount - 1)
  OBVIOUS
<1>1. /\ next <= Len(cases) /\ next' = next + 1
      /\ squared' = squared + (c.bps - Target(c.acceptable)) * (c.bps - Target(c.acceptable))
  BY DEF ScoreCase
<1>2. /\ c.bps \in Nat /\ next \in Nat \ {0} /\ squared \in Nat /\ Full \in Nat
      /\ next \in DOMAIN cases
  <2>1. c.bps \in Nat /\ next \in Nat /\ next \in DOMAIN cases
        /\ DOMAIN cases = 1 .. Len(cases)
    BY <1>1, NextCase
  <2>2. squared \in Nat
    BY DEF MetricsTypeOK
  <2> QED
    BY <2>1, <2>2, MetricsAssumption
<1>3. PICK e : e = c.bps - Target(c.acceptable)
  OBVIOUS
<1>4. e = (IF c.acceptable THEN c.bps - Full ELSE c.bps) /\ e \in Int
  BY <1>2, <1>3 DEF Target
<1>5. PICK x : x = IF e < 0 THEN -e ELSE e
  OBVIOUS
<1>6. x \in Nat /\ x >= e /\ x >= -e /\ x * x = e * e
  BY <1>4, <1>5
<1>7. PICK f, g, d, h : f = Gaps /\ g = Gaps' /\ d = Excess /\ h = Excess'
  OBVIOUS
<1>8. /\ IsFiniteSet(D) /\ k \in D
      /\ f \in [D -> Int] /\ d \in [D -> Int] /\ g \in [D -> Int] /\ h \in [D -> Int]
      /\ GapSum = SumFunctionOnSet(f, D) /\ SumFunction(Excess) = SumFunctionOnSet(d, D)
      /\ (GapSum)' = SumFunctionOnSet(g, D) /\ (SumFunction(Excess))' = SumFunctionOnSet(h, D)
      /\ \A b \in D : /\ d[b] = bins[b].sum - bins[b].positive * Full
                      /\ f[b] \in Nat /\ (f[b] = d[b] \/ f[b] = -d[b])
                      /\ f[b] >= d[b] /\ f[b] >= -d[b]
      /\ \A b \in D : /\ h[b] = bins'[b].sum - bins'[b].positive * Full
                      /\ g[b] \in Nat /\ (g[b] = h[b] \/ g[b] = -h[b])
                      /\ g[b] >= h[b] /\ g[b] >= -h[b]
  <2>1. k \in D
    BY BinCounts
  <2>2. /\ IsFiniteSet(D) /\ f \in [D -> Int] /\ d \in [D -> Int]
        /\ GapSum = SumFunctionOnSet(f, D) /\ SumFunction(Excess) = SumFunctionOnSet(d, D)
        /\ \A b \in D : /\ d[b] = bins[b].sum - bins[b].positive * Full
                        /\ f[b] \in Nat /\ (f[b] = d[b] \/ f[b] = -d[b])
                        /\ f[b] >= d[b] /\ f[b] >= -d[b]
    BY <1>7, GapIsExcess DEF GapsAreExcess
  <2>3. /\ g \in [D -> Int] /\ h \in [D -> Int]
        /\ (GapSum)' = SumFunctionOnSet(g, D)
        /\ (SumFunction(Excess))' = SumFunctionOnSet(h, D)
        /\ \A b \in D : /\ h[b] = bins'[b].sum - bins'[b].positive * Full
                        /\ g[b] \in Nat /\ (g[b] = h[b] \/ g[b] = -h[b])
                        /\ g[b] >= h[b] /\ g[b] >= -h[b]
    <3>1. GapsAreExcess'
      BY GapIsExcess, PTL
    <3> QED
      BY <1>7, <3>1 DEF GapsAreExcess
  <2> QED
    BY <2>1, <2>2, <2>3
<1>9. h[k] = d[k] + e /\ \A b \in D : b # k => h[b] = d[b] /\ g[b] = f[b]
  <2>1. /\ \A b \in D : b # k => bins'[b] = bins[b]
        /\ bins'[k].positive = bins[k].positive + (IF c.acceptable THEN 1 ELSE 0)
        /\ bins'[k].sum = bins[k].sum + c.bps
    BY BinCounts
  <2>2. bins[k].positive \in Nat /\ bins[k].sum \in Nat
    BY <1>8 DEF MetricsTypeOK
  <2>3. h[k] = d[k] + e
    <3>1. PICK p, s : p = bins[k].positive /\ s = bins[k].sum
      OBVIOUS
    <3>2. p \in Nat /\ s \in Nat /\ d[k] = s - p * Full
      BY <1>8, <2>2, <3>1
    <3>3. h[k] = (s + c.bps) - (p + (IF c.acceptable THEN 1 ELSE 0)) * Full
      BY <1>8, <2>1, <3>1
    <3>4. (p + 1) * Full = p * Full + Full /\ p * Full \in Nat /\ p + 0 = p
      BY <1>2, <3>2
    <3> PICK pf, cb, dk, hk : pf = p * Full /\ cb = c.bps /\ dk = d[k] /\ hk = h[k]
      OBVIOUS
    <3>5. pf \in Nat /\ cb \in Nat /\ s \in Nat /\ Full \in Nat /\ dk = s - pf
      BY <1>2, <3>2, <3>4
    <3>6. CASE c.acceptable
      <4>1. hk = (s + cb) - (pf + Full) /\ e = cb - Full
        BY <1>4, <3>3, <3>4, <3>6
      <4>2. hk = dk + e
        BY <3>5, <4>1
      <4> QED
        BY <4>2
    <3>7. CASE ~ c.acceptable
      <4>1. hk = (s + cb) - pf /\ e = cb
        BY <1>4, <3>3, <3>4, <3>7
      <4>2. hk = dk + e
        BY <3>5, <4>1
      <4> QED
        BY <4>2
    <3> QED
      BY <3>6, <3>7
  <2>4. \A b \in D : b # k => g[b] = Gaps'[b] /\ f[b] = Gaps[b]
    BY <1>7
  <2>5. \A b \in D : b # k => g[b] = f[b]
    <3>1. DOMAIN bins = D /\ DOMAIN bins' = D
      BY DEF MetricsTypeOK
    <3>2. \A b \in D : f[b] = BinGap(bins[b]) /\ g[b] = BinGap(bins'[b])
      BY <1>7, <3>1 DEF Gaps, BinGap, AbsoluteValue
    <3> QED
      BY <2>1, <3>2
  <2> QED
    BY <1>8, <2>1, <2>3, <2>5
<1>10. PICK G, G1, E, E1 :
         /\ G = SumFunctionOnSet(f, D) /\ G1 = SumFunctionOnSet(g, D)
         /\ E = SumFunctionOnSet(d, D) /\ E1 = SumFunctionOnSet(h, D)
  OBVIOUS
<1>11. G1 = G - f[k] + g[k] /\ E1 = E - d[k] + h[k] /\ G \in Int /\ E \in Int
  <2>1. G1 = G - f[k] + g[k]
    BY <1>8, <1>9, <1>10, SumChanges
  <2>2. E1 = E - d[k] + h[k]
    BY <1>8, <1>9, <1>10, SumChanges
  <2>3. G \in Int /\ E \in Int
    <3>1. D \in SUBSET D
      OBVIOUS
    <3> QED
      BY <1>8, <1>10, <3>1, SumRules
  <2> QED
    BY <2>1, <2>2, <2>3
<1>12. f[k] \in Nat /\ g[k] \in Nat /\ d[k] \in Int /\ h[k] \in Int
       /\ (f[k] = d[k] \/ f[k] = -d[k]) /\ f[k] >= d[k] /\ f[k] >= -d[k]
       /\ (g[k] = h[k] \/ g[k] = -h[k])
  BY <1>8
<1>13. G1 <= G + x /\ E1 = E + e
  <2>1. PICK fk, gk, dk, hk : fk = f[k] /\ gk = g[k] /\ dk = d[k] /\ hk = h[k]
    OBVIOUS
  <2>2. /\ fk \in Nat /\ gk \in Nat /\ dk \in Int /\ hk \in Int /\ hk = dk + e
        /\ fk >= dk /\ fk >= -dk /\ (gk = hk \/ gk = -hk)
    BY <1>9, <1>12, <2>1
  <2>3. gk <= fk + x
    <3>1. e \in Int /\ x \in Nat /\ x >= e /\ x >= -e
      BY <1>4, <1>6
    <3>2. CASE gk = hk
      BY <2>2, <3>1, <3>2
    <3>3. CASE gk = -hk
      BY <2>2, <3>1, <3>3
    <3> QED
      BY <2>2, <3>2, <3>3
  <2>4. G1 = G - fk + gk /\ E1 = E - dk + hk /\ G \in Int /\ E \in Int
    BY <1>11, <2>1
  <2>5. E1 = E + e
    BY <1>4, <2>2, <2>4
  <2>6. G1 <= G + x
    BY <1>6, <2>2, <2>3, <2>4
  <2> QED
    BY <2>5, <2>6
<1>14. G1 \in Nat
  <2>1. \A b \in D : g[b] >= g[b] /\ g[b] >= -g[b]
    BY <1>8
  <2>2. SumFunctionOnSet(g, D) >= -SumFunctionOnSet(g, D)
    BY <1>8, <2>1, SumBounds
  <2>3. G1 \in Int
    BY <1>11, <1>12
  <2> QED
    BY <1>10, <2>2, <2>3
<1>15. G1 * G1 <= next * squared'
  <2>1. G \in Nat /\ G * G <= (next - 1) * squared
    BY <1>8, <1>10 DEF GapsOK
  <2>2. PICK n, t : n = next - 1 /\ t = G + x
    OBVIOUS
  <2>3. n \in Nat /\ n + 1 = next /\ t \in Nat /\ G1 <= t
    BY <1>2, <1>6, <1>13, <2>1, <2>2
  <2>4. t * t <= (n + 1) * (squared + x * x)
    BY <1>2, <1>6, <2>1, <2>2, <2>3, SquareOfSum
  <2>5. G1 * G1 <= t * G1 /\ G1 * t <= t * t
    BY <1>14, <2>3, Products
  <2>6. G1 * t = t * G1
    BY <1>14, <2>3
  <2>7. squared' = squared + x * x
    BY <1>1, <1>3, <1>6
  <2>8. PICK a, b, z, w : a = G1 * G1 /\ b = t * G1 /\ z = t * t /\ w = next * squared'
    OBVIOUS
  <2>9. a \in Nat /\ b \in Nat /\ z \in Nat /\ w \in Nat
    BY <1>2, <1>6, <1>14, <2>3, <2>7, <2>8
  <2>10. a <= b /\ b <= z /\ z <= w
    BY <2>3, <2>4, <2>5, <2>6, <2>7, <2>8
  <2>11. a <= w
    BY <2>9, <2>10
  <2> QED
    BY <2>8, <2>11
<1>16. E1 = SumFunctionOnSet(CaseBps', Scored')
            - Cardinality(Scored' \intersect Acceptable') * Full
  <2>1. PICK R, A, s, m : /\ R = Scored /\ A = Acceptable
                          /\ s = SumFunctionOnSet(CaseBps, R) /\ m = Cardinality(R \intersect A)
    OBVIOUS
  <2>2. /\ Scored' = R \union {next} /\ Acceptable' = A /\ CaseBps' = CaseBps
        /\ IsFiniteSet(R) /\ next \notin R /\ R \subseteq DOMAIN cases
        /\ (next \in A <=> c.acceptable)
    BY <2>1, ScoredGrows
  <2>3. SumFunctionOnSet(CaseBps, R \union {next}) = s + c.bps
    <3>1. R \in SUBSET (DOMAIN cases) /\ next \in (DOMAIN cases) \ R
          /\ IsFiniteSet(DOMAIN cases) /\ CaseBps \in [DOMAIN cases -> Int]
          /\ CaseBps[next] = c.bps
      BY <1>1, <2>2, NextCase
    <3>2. SumFunctionOnSet(CaseBps, R \union {next})
            = SumFunctionOnSet(CaseBps, R) + CaseBps[next]
      BY <3>1, SumAdds
    <3> QED
      BY <2>1, <3>1, <3>2
  <2>4. s \in Int
    <3>1. R \in SUBSET (DOMAIN cases)
          /\ IsFiniteSet(DOMAIN cases) /\ CaseBps \in [DOMAIN cases -> Int]
      BY <1>1, <2>2, NextCase
    <3> QED
      BY <2>1, <3>1, SumRules
  <2>5. /\ Cardinality(R) \in Nat /\ Cardinality(R \intersect A) \in Nat
        /\ Cardinality(R \union {next}) = Cardinality(R) + 1
        /\ next \in A => Cardinality((R \union {next}) \intersect A)
                          = Cardinality(R \intersect A) + 1
        /\ next \notin A => (R \union {next}) \intersect A = R \intersect A
    BY <2>2, OneMoreCounted
  <2>6. PICK m1 : m1 = Cardinality((R \union {next}) \intersect A)
    OBVIOUS
  <2>7. m \in Nat /\ (c.acceptable => m1 = m + 1) /\ (~ c.acceptable => m1 = m)
    BY <2>1, <2>2, <2>5, <2>6
  <2>8. E = s - m * Full
    BY <1>8, <1>10, <2>1 DEF GapsOK
  <2>9. (m + 1) * Full = m * Full + Full /\ m * Full \in Nat
    BY <1>2, <2>7
  <2>10. E + e = (s + c.bps) - m1 * Full
    <3>1. PICK p, mf : p = c.bps /\ mf = m * Full
      OBVIOUS
    <3>2. CASE c.acceptable
      <4>1. m1 * Full = mf + Full /\ e = p - Full /\ E = s - mf
        BY <1>4, <2>7, <2>8, <2>9, <3>1, <3>2
      <4> QED
        BY <1>2, <2>4, <2>9, <3>1, <4>1
    <3>3. CASE ~ c.acceptable
      <4>1. m1 * Full = mf /\ e = p /\ E = s - mf
        BY <1>4, <2>7, <2>8, <3>1, <3>3
      <4> QED
        BY <1>2, <2>4, <2>9, <3>1, <4>1
    <3> QED
      BY <3>2, <3>3
  <2> QED
    BY <1>13, <2>2, <2>3, <2>6, <2>10
<1> QED
  <2>1. next' - 1 = next
    BY <1>1, <1>2
  <2> QED
    BY <1>8, <1>10, <1>14, <1>15, <1>16, <2>1 DEF GapsOK

\* Nothing is scored at the start.
LEMMA MetricsInitInv == MetricsInit => MetricsInv
<1> SUFFICES ASSUME MetricsInit PROVE MetricsInv
  OBVIOUS
<1>1. PICK C : C = [acceptable : BOOLEAN, bps : Confidences]
  OBVIOUS
<1>2. PICK n \in MinCases .. MaxCases : cases \in [1 .. n -> C]
  BY <1>1 DEF MetricsInit, Corpora
<1>3. MinCases \in Nat \ {0} /\ BinCount \in Nat \ {0} /\ Full \in Nat
  BY MetricsAssumption
<1>4. cases \in Seq(C) /\ Len(cases) = n /\ n \in Nat
  BY <1>2, <1>3
<1>5. MetricsTypeOK
  BY <1>1, <1>2, <1>3, <1>4 DEF MetricsInit, MetricsTypeOK
<1>6. Scored = {} /\ Submitted = {} /\ \A b : InBin(b) = {}
  <2>1. next = 1 /\ DOMAIN cases = 1 .. n
    BY <1>2 DEF MetricsInit
  <2>2. Scored = {}
    BY <1>4, <2>1 DEF Scored
  <2> QED
    BY <2>2 DEF Submitted, InBin
<1>7. next <= Len(cases) /\ IsFiniteSet(DOMAIN cases) /\ CaseBps \in [DOMAIN cases -> Int]
  <2>1. next <= Len(cases)
    BY <1>2, <1>3, <1>4 DEF MetricsInit
  <2> QED
    BY <1>5, <2>1, NextCase
<1>8. Cardinality({}) = 0 /\ SumFunctionOnSet(CaseBps, {}) = 0
  <2>1. {} \in SUBSET (DOMAIN cases)
    OBVIOUS
  <2> QED
    BY <1>7, <2>1, SumRules, FS_EmptySet
<1>9. BinsOK
  <2>1. \A b \in 0 .. (BinCount - 1) :
           bins[b].count = 0 /\ bins[b].positive = 0 /\ bins[b].sum = 0
    BY DEF MetricsInit
  <2>2. {} \intersect Acceptable = {}
    OBVIOUS
  <2> QED
    BY <1>6, <1>8, <2>1, <2>2 DEF BinsOK
<1>10. MatrixOK
  <2>1. matrix.tp = 0 /\ matrix.fp = 0 /\ matrix.tn = 0 /\ matrix.fn = 0 /\ next = 1
    BY DEF MetricsInit
  <2>2. {} \intersect Acceptable = {}
    OBVIOUS
  <2> QED
    BY <1>6, <1>8, <2>1, <2>2 DEF MatrixOK
<1>11. GapsOK
  <2>1. PICK D, f : D = 0 .. (BinCount - 1) /\ f = [b \in D |-> 0]
    OBVIOUS
  <2>2. IsFiniteSet(D) /\ f \in [D -> Int] /\ D \in SUBSET D
    BY <1>3, <2>1, FS_Interval
  <2>3. SumFunctionOnSet(f, D) = 0
    <3>1. PICK bad : bad = {s \in SUBSET D : SumFunctionOnSet(f, s) # 0}
      OBVIOUS
    <3>2. ASSUME NEW s \in bad PROVE \E b \in s : s \ {b} \in bad
      <4>1. s \in SUBSET D /\ SumFunctionOnSet(f, s) # 0
        BY <3>1
      <4>2. s # {}
        BY <2>2, <4>1, SumRules
      <4>3. PICK b \in s : TRUE
        BY <4>2
      <4>4. s \ {b} \in SUBSET D /\ f[b] = 0
        BY <2>1, <4>1
      <4>5. SumFunctionOnSet(f, s) = f[b] + SumFunctionOnSet(f, s \ {b})
        BY <2>2, <4>1, <4>3, SumRules
      <4>6. SumFunctionOnSet(f, s \ {b}) \in Int
        BY <2>2, <4>4, SumRules
      <4>7. SumFunctionOnSet(f, s \ {b}) # 0
        BY <4>1, <4>4, <4>5, <4>6
      <4> QED
        BY <3>1, <4>3, <4>4, <4>7
    <3>3. bad \in SUBSET (SUBSET D)
      BY <3>1
    <3>4. bad = {}
      BY <2>2, <3>2, <3>3, Descent
    <3> QED
      BY <2>2, <3>1, <3>4
  <2>4. Gaps = f /\ Excess = f
    <3>1. /\ DOMAIN bins = D
          /\ \A b \in D : bins[b].positive = 0 /\ bins[b].sum = 0
      BY <2>1 DEF MetricsInit
    <3>2. 0 - 0 * Full = 0
      BY <1>3
    <3>3. \A b \in D : BinGap(bins[b]) = 0 /\ bins[b].sum - bins[b].positive * Full = 0
      BY <3>1, <3>2 DEF BinGap, AbsoluteValue
    <3> QED
      BY <2>1, <3>1, <3>3 DEF Gaps, Excess
  <2>5. GapSum = 0 /\ SumFunction(Excess) = 0
    BY <1>5, <2>1, <2>3, <2>4, GapIsExcess DEF GapsAreExcess
  <2>6. next - 1 = 0 /\ squared = 0
    BY DEF MetricsInit
  <2>7. {} \intersect Acceptable = {} /\ 0 - 0 * Full = 0
    BY <1>3
  <2> QED
    BY <1>6, <1>8, <2>5, <2>6, <2>7 DEF GapsOK
<1>12. ReportOK
  BY DEF MetricsInit, ReportOK
<1> QED
  BY <1>5, <1>9, <1>10, <1>11, <1>12 DEF MetricsInv

\* Every step keeps what the counters say of the cases.
LEMMA MetricsStepInv ==
  ASSUME MetricsInv, [MetricsNext]_metricVars
  PROVE  MetricsInv'
<1>1. CASE ScoreCase
  <2>1. next <= Len(cases) /\ next' = next + 1 /\ cases' = cases /\ report' = report
    BY <1>1 DEF ScoreCase
  <2>2. MetricsTypeOK
    BY DEF MetricsInv
  <2>3. MetricsTypeOK'
    <3>1. next' \in 1 .. (Len(cases') + 1)
      BY <2>1, <2>2 DEF MetricsTypeOK
    <3>2. squared' \in Nat
      <4>1. cases[next].bps \in Nat /\ cases[next].acceptable \in BOOLEAN
        BY <2>1, <2>2, NextCase
      <4>2. PICK e : e = cases[next].bps - Target(cases[next].acceptable)
        OBVIOUS
      <4>3. e \in Int
        <5>1. Full \in Nat
          BY MetricsAssumption
        <5> QED
          BY <4>1, <4>2, <5>1 DEF Target
      <4>4. e * e \in Nat
        BY <4>3
      <4>5. squared' = squared + e * e
        BY <1>1, <4>2 DEF ScoreCase
      <4> QED
        BY <2>2, <4>4, <4>5 DEF MetricsTypeOK
    <3>3. matrix' \in [tp : Nat, fp : Nat, tn : Nat, fn : Nat]
      BY <1>1, <2>2, MatrixCounts
    <3>4. bins' \in [0 .. (BinCount - 1) -> [count : Nat, positive : Nat, sum : Nat]]
      BY <1>1, <2>2, BinCounts
    <3> QED
      BY <2>1, <2>2, <3>1, <3>2, <3>3, <3>4 DEF MetricsTypeOK
  <2>4. BinsOK' /\ MatrixOK'
    BY <1>1, <2>2, CountsGrow DEF MetricsInv
  <2>5. GapsOK'
    BY <1>1, <2>2, <2>3, GapsGrow DEF MetricsInv
  <2>6. ReportOK'
    <3>1. ~ (next > Len(cases))
      BY <2>1, <2>2 DEF MetricsTypeOK
    <3> QED
      BY <2>1, <3>1 DEF MetricsInv, ReportOK
  <2> QED
    BY <2>3, <2>4, <2>5, <2>6 DEF MetricsInv
<1>2. ASSUME UNCHANGED <<cases, next, matrix, squared, bins>>
      PROVE  /\ MetricsTypeOK' /\ BinsOK' /\ MatrixOK' /\ GapsOK'
             /\ Evaluation' = Evaluation
  <2>1. /\ Scored' = Scored /\ Acceptable' = Acceptable /\ CaseBps' = CaseBps
        /\ Submitted' = Submitted /\ Excess' = Excess /\ (GapSum)' = GapSum
        /\ \A b : InBin(b)' = InBin(b)
    BY <1>2 DEF Scored, Acceptable, CaseBps, Submitted, Excess, GapSum, InBin
  <2>2. MetricsTypeOK' /\ BinsOK' /\ MatrixOK'
    BY <1>2, <2>1 DEF MetricsInv, MetricsTypeOK, BinsOK, MatrixOK
  <2>3. GapsOK'
    BY <1>2, <2>1 DEF MetricsInv, GapsOK
  <2>4. (Checks)' = Checks /\ \A b : (PublishedBin(b))' = PublishedBin(b)
    BY <1>2, <2>1 DEF Checks, PublishedBin
  <2>5. Evaluation' = Evaluation
    BY <1>2, <2>1, <2>4 DEF Evaluation
  <2> QED
    BY <2>2, <2>3, <2>5
<1>3. CASE BuildReport
  <2>1. /\ UNCHANGED <<cases, next, matrix, squared, bins>>
        /\ next > Len(cases) /\ report' = Evaluation
    BY <1>3 DEF BuildReport
  <2> QED
    BY <1>2, <2>1 DEF MetricsInv, ReportOK
<1>4. CASE Reported \/ UNCHANGED metricVars
  <2>1. UNCHANGED <<cases, next, matrix, squared, bins>> /\ report' = report
    BY <1>4 DEF Reported, metricVars
  <2> QED
    BY <1>2, <2>1 DEF MetricsInv, ReportOK
<1> QED
  BY <1>1, <1>3, <1>4 DEF MetricsNext

\* The inductive invariant of evaluate_confidence: the counters are those of the cases
\* scored, and the gaps are bounded by what they are made of.
THEOREM MetricsInvariant == MetricsSpec => []MetricsInv
<1>1. MetricsInit => MetricsInv
  BY MetricsInitInv
<1>2. MetricsInv /\ [MetricsNext]_metricVars => MetricsInv'
  BY MetricsStepInv
<1> QED
  BY <1>1, <1>2, PTL DEF MetricsSpec

\* A ratio rounded half up stays on its side of a limit that the exact product keeps.
LEMMA RoundingKeepsSide ==
  ASSUME NEW a \in Nat, NEW d \in Nat \ {0}, NEW m \in Nat
  PROVE  /\ a >= m * d => RoundRatio(a, d) >= m
         /\ a <= m * d => RoundRatio(a, d) <= m
<1> PICK x, w, q, md : x = 2 * a + d /\ w = 2 * d /\ q = x \div w /\ md = m * d
  OBVIOUS
<1>1. x \in Nat /\ w \in Nat \ {0} /\ md \in Nat /\ RoundRatio(a, d) = q
  BY DEF RoundRatio
<1>2. q \in Nat /\ q * w <= x /\ x < q * w + w
  BY <1>1, Quotients
<1>3. m * w = 2 * md /\ m * w \in Nat /\ q * w \in Nat
  BY <1>1, <1>2
<1>4. ASSUME a >= md, q < m PROVE FALSE
  <2>1. PICK r : r = q + 1
    OBVIOUS
  <2>2. r \in Nat /\ w \in Nat /\ r <= m
    BY <1>1, <1>2, <1>4, <2>1
  <2>3. r * w <= m * w
    BY <2>2, Products
  <2>4. r * w = q * w + w
    <3>1. q \in Nat /\ w \in Nat
      BY <1>1, <1>2
    <3>2. (q + 1) * w = q * w + w
      BY <3>1
    <3> QED
      BY <2>1, <3>2
  <2> QED
    BY <1>1, <1>2, <1>3, <1>4, <2>3, <2>4
<1>5. ASSUME a <= md, m < q PROVE FALSE
  <2>1. (m + 1) * w <= q * w
    BY <1>1, <1>2, <1>5, Products
  <2>2. (m + 1) * w = m * w + w
    BY <1>1
  <2> QED
    BY <1>1, <1>2, <1>3, <1>5, <2>1, <2>2
<1> QED
  BY <1>1, <1>2, <1>4, <1>5

\* What is known of a report that has been built.
LEMMA BuiltReport ==
  ASSUME MetricsInv, report # NoReport
  PROVE  /\ report = Evaluation
         /\ next - 1 = Len(cases)
         /\ DOMAIN cases = 1 .. Len(cases) /\ Len(cases) \in Nat \ {0}
         /\ IsFiniteSet(DOMAIN cases)
         /\ \A i \in DOMAIN cases : cases[i].bps \in 0 .. Full
         /\ Scored = DOMAIN cases
<1>1. report = Evaluation /\ next > Len(cases) /\ MetricsTypeOK
  BY DEF MetricsInv, ReportOK
<1>2. DOMAIN cases = 1 .. Len(cases) /\ Len(cases) \in Nat \ {0} /\ next \in Nat
  <2>1. MinCases \in Nat \ {0}
    BY MetricsAssumption
  <2> QED
    BY <1>1, <2>1 DEF MetricsTypeOK
<1>3. next = Len(cases) + 1
  BY <1>1, <1>2 DEF MetricsTypeOK
<1>4. IsFiniteSet(DOMAIN cases)
  BY <1>2, FS_Interval
<1>5. \A i \in DOMAIN cases : cases[i].bps \in 0 .. Full
  <2>1. PICK C : C = [acceptable : BOOLEAN, bps : Confidences]
    OBVIOUS
  <2>2. cases \in Seq(C)
    BY <1>1, <2>1 DEF MetricsTypeOK
  <2>3. \A i \in DOMAIN cases : cases[i] \in C
    BY <2>2
  <2>4. Confidences \subseteq 0 .. Full
    BY MetricsAssumption
  <2> QED
    BY <2>1, <2>3, <2>4
<1>6. Scored = DOMAIN cases
  BY <1>2, <1>3 DEF Scored
<1> QED
  BY <1>1, <1>2, <1>3, <1>4, <1>5, <1>6

\* The counts of a report are those of the cases its published bins hold.
LEMMA ReportCounts ==
  ASSUME MetricsInv
  PROVE  CountsAreTheCases
<1> SUFFICES ASSUME report.built PROVE CountsAreTheCases
  BY DEF CountsAreTheCases
<1>1. report # NoReport
  BY DEF NoReport
<1>2. /\ report = Evaluation /\ next - 1 = Len(cases) /\ Scored = DOMAIN cases
      /\ \A i \in DOMAIN cases : cases[i].bps \in 0 .. Full
  BY <1>1, BuiltReport
<1> PICK D : D = 0 .. (BinCount - 1)
  OBVIOUS
<1>3. DOMAIN report.bins = D /\ \A b \in D : report.bins[b] = PublishedBin(b)
  BY <1>2 DEF Evaluation, MetricsInv, MetricsTypeOK
<1>4. ASSUME NEW b \in D
      PROVE  LET held == {i \in DOMAIN cases :
                            cases[i].bps \in report.bins[b].lower .. report.bins[b].upper}
             IN /\ report.bins[b].count = Cardinality(held)
                /\ bins[b].sum = SumFunctionOnSet(CaseBps, held)
                /\ bins[b].positive = Cardinality(held \intersect Acceptable)
  <2> PICK held : held = {i \in DOMAIN cases :
                            cases[i].bps \in report.bins[b].lower .. report.bins[b].upper}
    OBVIOUS
  <2>1. \A i \in DOMAIN cases :
           BinIndex(cases[i].bps) = b
           <=> cases[i].bps \in report.bins[b].lower .. report.bins[b].upper
    BY <1>2, <1>3, BinHolds
  <2>2. held = InBin(b)
    BY <1>2, <2>1 DEF InBin
  <2>3. report.bins[b].count = bins[b].count
    <3>1. PublishedBin(b).count = bins[b].count
      BY DEF PublishedBin
    <3>2. report.bins[b] = PublishedBin(b)
      BY <1>3
    <3> QED
      BY <3>1, <3>2
  <2>4. /\ bins[b].count = Cardinality(held)
        /\ bins[b].sum = SumFunctionOnSet(CaseBps, held)
        /\ bins[b].positive = Cardinality(held \intersect Acceptable)
    BY <2>2 DEF MetricsInv, BinsOK
  <2> QED
    BY <2>3, <2>4
<1>5. /\ Scored \intersect Acceptable = Acceptable
      /\ Submitted = {i \in DOMAIN cases : cases[i].bps >= Threshold}
      /\ Submitted \intersect Acceptable = {i \in Acceptable : cases[i].bps >= Threshold}
  BY <1>2 DEF Submitted, Acceptable
<1>6. /\ matrix.tp = Cardinality({i \in Acceptable : cases[i].bps >= Threshold})
      /\ matrix.tp + matrix.fn = Cardinality(Acceptable)
      /\ matrix.tp + matrix.fp = Cardinality({i \in DOMAIN cases : cases[i].bps >= Threshold})
      /\ matrix.tp + matrix.fn + matrix.fp + matrix.tn = Len(cases)
  BY <1>2, <1>5 DEF MetricsInv, MatrixOK
<1> QED
  BY <1>3, <1>4, <1>6 DEF CountsAreTheCases

\* A ratio that reaches its minimum is published at or above it.
LEMMA ReachedIsPublished ==
  ASSUME NEW a \in Nat, NEW d \in Nat, NEW m \in Nat, Reaches(a, d, m)
  PROVE  RatioBps(a, d) >= m
<1> PICK x : x = a * Full
  OBVIOUS
<1>1. x \in Nat /\ d \in Nat \ {0}
  BY MetricsAssumption DEF Reaches
<1>2. x >= m * d
  BY DEF Reaches
<1>3. RoundRatio(x, d) >= m
  BY <1>1, <1>2, RoundingKeepsSide
<1> QED
  BY <1>1, <1>3 DEF RatioBps

\* A report that passes shows every number on the right side of its limit.
LEMMA ReportPasses ==
  ASSUME MetricsInv
  PROVE  PassIsPublished
<1> SUFFICES ASSUME report.gatePass PROVE PassIsPublished
  BY DEF PassIsPublished
<1>1. report # NoReport
  BY DEF NoReport
<1> PICK tp, fp, fn, n, sq, gs :
      /\ tp = matrix.tp /\ fp = matrix.fp /\ fn = matrix.fn
      /\ n = Len(cases) /\ sq = squared /\ gs = GapSum
  OBVIOUS
<1>2. report = Evaluation /\ n \in Nat \ {0}
  BY <1>1, BuiltReport
<1>3. tp \in Nat /\ fp \in Nat /\ fn \in Nat /\ sq \in Nat /\ gs \in Nat
  BY DEF MetricsInv, MetricsTypeOK, GapsOK
<1>4. /\ Reaches(tp, tp + fp, MinPrecision) /\ Reaches(tp, tp + fn, MinRecall)
      /\ sq <= MaxBrier * (n * BrierUnit) /\ gs <= MaxEce * n
  <2>1. \A c \in DOMAIN Checks : Checks[c]
    BY <1>2 DEF Evaluation
  <2>2. /\ Checks.minimum_precision /\ Checks.minimum_recall
        /\ Checks.maximum_brier_score /\ Checks.maximum_expected_calibration_error
    BY <2>1 DEF Checks
  <2> QED
    BY <2>2 DEF Checks, Precise
<1>5. /\ report.precision = RatioBps(tp, tp + fp) /\ report.recall = RatioBps(tp, tp + fn)
      /\ report.brier = RoundRatio(sq, n * BrierUnit) /\ report.ece = RoundRatio(gs, n)
  BY <1>2 DEF Evaluation
<1>6. /\ MinPrecision \in Nat \ {0} /\ MinRecall \in Nat /\ MaxBrier \in Nat /\ MaxEce \in Nat
      /\ BrierUnit \in Nat \ {0} /\ Full \in Nat \ {0}
  BY MetricsAssumption
<1>7. report.precision >= MinPrecision /\ report.recall >= MinRecall
  <2>1. PICK d, k, lo, hi : d = tp + fp /\ k = tp + fn /\ lo = MinPrecision /\ hi = MinRecall
    OBVIOUS
  <2>2. d \in Nat /\ k \in Nat /\ lo \in Nat /\ hi \in Nat
    BY <1>3, <1>6, <2>1
  <2>3. Reaches(tp, d, lo) /\ Reaches(tp, k, hi)
    BY <1>4, <2>1
  <2>4. RatioBps(tp, d) >= lo
    BY <1>3, <2>2, <2>3, ReachedIsPublished
  <2>5. RatioBps(tp, k) >= hi
    BY <1>3, <2>2, <2>3, ReachedIsPublished
  <2> QED
    BY <1>5, <2>1, <2>4, <2>5
<1>8. report.brier <= MaxBrier
  <2>1. PICK d, m : d = n * BrierUnit /\ m = MaxBrier
    OBVIOUS
  <2>2. d \in Nat \ {0} /\ m \in Nat
    BY <1>2, <1>6, <2>1
  <2>3. sq <= m * d
    BY <1>4, <2>1
  <2>4. RoundRatio(sq, d) <= m
    BY <1>3, <2>2, <2>3, RoundingKeepsSide
  <2> QED
    BY <1>5, <2>1, <2>4
<1>9. report.ece <= MaxEce
  <2>1. PICK m : m = MaxEce
    OBVIOUS
  <2>2. m \in Nat /\ gs <= m * n
    BY <1>4, <1>6, <2>1
  <2>3. RoundRatio(gs, n) <= m
    BY <1>2, <1>3, <2>2, RoundingKeepsSide
  <2> QED
    BY <1>5, <2>1, <2>3
<1>10. tp > 0
  <2>1. PICK d, p : d = tp + fp /\ p = MinPrecision
    OBVIOUS
  <2>2. d \in Nat \ {0} /\ p \in Nat \ {0} /\ tp * Full >= p * d
    <3>1. d \in Nat /\ p \in Nat \ {0}
      BY <1>3, <1>6, <2>1
    <3>2. Reaches(tp, d, p)
      BY <1>4, <2>1
    <3>3. d > 0 /\ tp * Full >= p * d
      BY <3>2 DEF Reaches
    <3> QED
      BY <3>1, <3>3
  <2>3. p * d \in Nat \ {0}
    BY <2>2
  <2>4. ASSUME tp = 0 PROVE FALSE
    <3>1. tp * Full = 0
      BY <1>6, <2>4
    <3> QED
      BY <2>2, <2>3, <3>1
  <2> QED
    BY <1>3, <2>4
<1> QED
  BY <1>7, <1>8, <1>9, <1>10 DEF PassIsPublished

\* The sum of the gaps lies between the gap of the whole sample and the error.
LEMMA ReportGaps ==
  ASSUME MetricsInv
  PROVE  GapWithinError
<1> SUFFICES ASSUME report.built PROVE GapWithinError
  BY DEF GapWithinError
<1>1. report # NoReport
  BY DEF NoReport
<1>2. report = Evaluation /\ next - 1 = Len(cases) /\ Scored = DOMAIN cases
  BY <1>1, BuiltReport
<1>3. report.gap = GapSum
  BY <1>2 DEF Evaluation
<1>4. GapSum * GapSum <= Len(cases) * squared
  BY <1>2 DEF MetricsInv, GapsOK
<1>5. PICK x : x = SumFunction(CaseBps) - Cardinality(Acceptable) * Full
  OBVIOUS
<1>6. SumFunction(Excess) = x
  <2>1. Scored \intersect Acceptable = Acceptable
    BY <1>2 DEF Acceptable
  <2>2. DOMAIN CaseBps = DOMAIN cases
    BY DEF CaseBps
  <2>3. SumFunction(CaseBps) = SumFunctionOnSet(CaseBps, Scored)
    BY <1>2, <2>2 DEF SumFunction
  <2> QED
    BY <1>5, <2>1, <2>3 DEF MetricsInv, GapsOK
<1>7. GapSum >= x /\ GapSum >= -x /\ x \in Int
  <2>1. PICK D, f, d : D = 0 .. (BinCount - 1) /\ f = Gaps /\ d = Excess
    OBVIOUS
  <2>2. /\ IsFiniteSet(D) /\ f \in [D -> Int] /\ d \in [D -> Int]
        /\ \A b \in D : f[b] >= d[b] /\ f[b] >= -d[b]
        /\ GapSum = SumFunctionOnSet(f, D) /\ SumFunction(Excess) = SumFunctionOnSet(d, D)
    BY <2>1, GapIsExcess DEF MetricsInv, GapsAreExcess
  <2>3. SumFunctionOnSet(f, D) >= SumFunctionOnSet(d, D)
        /\ SumFunctionOnSet(f, D) >= -SumFunctionOnSet(d, D)
    BY <2>2, SumBounds
  <2>4. SumFunctionOnSet(d, D) \in Int
    <3>1. D \in SUBSET D
      OBVIOUS
    <3> QED
      BY <2>2, <3>1, SumRules
  <2>5. SumFunctionOnSet(d, D) = x /\ SumFunctionOnSet(f, D) = GapSum
    BY <1>6, <2>2
  <2> QED
    BY <2>3, <2>4, <2>5
<1>8. GapSum >= AbsoluteValue(x)
  BY <1>7 DEF AbsoluteValue
<1> QED
  BY <1>3, <1>4, <1>5, <1>8 DEF GapWithinError

\* Counters, gate and calibration measures of every report evaluate_confidence returns agree:
\* each case is in the one bin and cell its numbers ask for, a passing gate never publishes a
\* number beyond its limit, and the two calibration errors bound each other.
THEOREM MetricsReportIsConsistent == MetricsSpec => []ReportIsConsistent
<1>1. MetricsInv => ReportIsConsistent
  BY ReportCounts, ReportPasses, ReportGaps DEF ReportIsConsistent
<1> QED
  BY <1>1, MetricsInvariant, PTL

-----------------------------------------------------------------------------
(* The drafts in front of the scanner. *)

\* What stands at a place of a rendered draft, and what may follow: the head of the rule,
\* from "H1" to "H6"; "L" where a line starts; its name and what it is set to; inside a
\* "text" or "hex" value; "E" at the end of a line; "C" and "D" in the condition; "Z" behind.
Places == {"H1", "H2", "H3", "H4", "H5", "H6", "L", "N", "V", "text", "hex", "E", "C", "D", "Z"}

Arrow(p, char, q) ==
    \/ p = "H1" /\ char = "rule" /\ q = "H2"
    \/ p = "H2" /\ char = "sp" /\ q = "H3"
    \/ p = "H3" /\ char = "id" /\ q = "H4"
    \/ p = "H4" /\ char = "sp" /\ q = "H5"
    \/ p = "H5" /\ char = "open" /\ q = "H6"
    \/ p = "H6" /\ char = "nl" /\ q = "L"
    \/ p = "L" /\ char = "id" /\ q = "N"
    \/ p = "N" /\ char = "sp" /\ q = "V"
    \/ p = "V" /\ char = "quote" /\ q = "text"
    \/ p = "V" /\ char = "open" /\ q = "hex"
    \/ p = "V" /\ char = "id" /\ q = "C"
    \/ p = "text" /\ char \in IdentifierChars \union {"dot"} /\ q = "text"
    \/ p = "text" /\ char = "quote" /\ q = "E"
    \/ p = "hex" /\ char \in {"sp", "digit", "wild"} /\ q = "hex"
    \/ p = "hex" /\ char = "close" /\ q = "E"
    \/ p = "E" /\ char = "nl" /\ q = "L"
    \/ p = "C" /\ char = "nl" /\ q = "D"
    \/ p = "D" /\ char = "close" /\ q = "Z"

\* A labelling of a text with the places before and behind its symbols.
Leads(at, text, p, q) ==
    /\ at[1] = p /\ at[Len(text) + 1] = q
    /\ \A i \in 1 .. Len(text) : Arrow(at[i], text[i], at[i + 1])

\* What sources are made of: the symbols of a draft are named, a prover does not know that
\* they are strings.
Symbols == STRING \union {"rule", "sp", "id", "open", "nl", "quote", "close"}

Path(text, p, q) == text \in Seq(Symbols) /\ \E at : Leads(at, text, p, q)

\* Paths are put together.
LEMMA PathsJoin ==
  ASSUME NEW s, NEW u, NEW p, NEW q, NEW r, Path(s, p, q), Path(u, q, r)
  PROVE  Path(s \o u, p, r)
<1> PICK a, b : Leads(a, s, p, q) /\ Leads(b, u, q, r)
  BY DEF Path
<1> PICK m, n : m = Len(s) /\ n = Len(u)
  OBVIOUS
<1>1. s \in Seq(Symbols) /\ u \in Seq(Symbols) /\ m \in Nat /\ n \in Nat
  BY DEF Path
<1> PICK t : t = s \o u
  OBVIOUS
<1>2. /\ t \in Seq(Symbols) /\ Len(t) = m + n
      /\ \A i \in 1 .. m : t[i] = s[i]
      /\ \A i \in (m + 1) .. (m + n) : t[i] = u[i - m]
  BY <1>1
<1> PICK c : c = [i \in 1 .. (m + n + 1) |-> IF i <= m + 1 THEN a[i] ELSE b[i - m]]
  OBVIOUS
<1>3. a[m + 1] = b[1]
  BY DEF Leads
<1>4. /\ \A i \in 1 .. (m + 1) : c[i] = a[i]
      /\ \A i \in (m + 1) .. (m + n + 1) : c[i] = b[i - m]
  BY <1>1, <1>3
<1>5. c[1] = p
  <2>1. 1 \in 1 .. (m + 1)
    BY <1>1
  <2> QED
    BY <1>4, <2>1 DEF Leads
<1>6. c[m + n + 1] = r
  <2>1. m + n + 1 \in (m + 1) .. (m + n + 1) /\ (m + n + 1) - m = n + 1
    BY <1>1
  <2> QED
    BY <1>4, <2>1 DEF Leads
<1>7. ASSUME NEW i \in 1 .. (m + n) PROVE Arrow(c[i], t[i], c[i + 1])
  <2>1. CASE i <= m
    <3>1. i \in 1 .. m /\ i \in 1 .. (m + 1) /\ i + 1 \in 1 .. (m + 1)
      BY <1>1, <2>1
    <3>2. Arrow(a[i], s[i], a[i + 1])
      BY <3>1 DEF Leads
    <3> QED
      BY <1>2, <1>4, <3>1, <3>2
  <2>2. CASE ~ (i <= m)
    <3> PICK j : j = i - m
      OBVIOUS
    <3>1. /\ j \in 1 .. n /\ i \in (m + 1) .. (m + n) /\ i \in (m + 1) .. (m + n + 1)
          /\ i + 1 \in (m + 1) .. (m + n + 1) /\ (i + 1) - m = j + 1
      BY <1>1, <2>2
    <3>2. Arrow(b[j], u[j], b[j + 1])
      BY <3>1 DEF Leads
    <3> QED
      BY <1>2, <1>4, <3>1, <3>2
  <2> QED
    BY <2>1, <2>2
<1>8. Leads(c, t, p, r)
  BY <1>2, <1>5, <1>6, <1>7 DEF Leads
<1> QED
  BY <1>2, <1>8 DEF Path

\* A text of symbols that lead from a place to itself.
LEMMA PathStays ==
  ASSUME NEW v \in Seq(Symbols), NEW p, \A i \in DOMAIN v : Arrow(p, v[i], p)
  PROVE  Path(v, p, p)
<1> PICK a : a = [i \in 1 .. (Len(v) + 1) |-> p]
  OBVIOUS
<1>1. DOMAIN v = 1 .. Len(v) /\ Len(v) \in Nat
  OBVIOUS
<1>2. \A i \in 1 .. (Len(v) + 1) : a[i] = p
  OBVIOUS
<1>3. 1 \in 1 .. (Len(v) + 1) /\ Len(v) + 1 \in 1 .. (Len(v) + 1)
      /\ \A i \in 1 .. Len(v) : i \in 1 .. (Len(v) + 1) /\ i + 1 \in 1 .. (Len(v) + 1)
  BY <1>1
<1>4. Leads(a, v, p, p)
  BY <1>1, <1>2, <1>3 DEF Leads
<1> QED
  BY <1>4 DEF Path

\* Sequences over a set are sequences over a larger one.
LEMMA LargerSet ==
  ASSUME NEW S, NEW T, S \subseteq T, NEW v \in Seq(S)
  PROVE  v \in Seq(T)
OBVIOUS

\* Sequences of one element.
LEMMA OneElement ==
  ASSUME NEW S, NEW x \in S
  PROVE  <<x>> \in Seq(S) /\ Len(<<x>>) = 1 /\ <<x>>[1] = x
OBVIOUS

\* One symbol.
LEMMA PathOfOne ==
  ASSUME NEW char \in Symbols, NEW p, NEW q, Arrow(p, char, q)
  PROVE  Path(<<char>>, p, q)
<1> PICK a : a = [i \in 1 .. 2 |-> IF i = 1 THEN p ELSE q]
  OBVIOUS
<1>1. <<char>> \in Seq(Symbols) /\ Len(<<char>>) = 1 /\ <<char>>[1] = char
  BY OneElement
<1>2. a[1] = p /\ a[2] = q
  OBVIOUS
<1>3. Leads(a, <<char>>, p, q)
  <2>1. \A i \in 1 .. Len(<<char>>) : i = 1
    BY <1>1
  <2> QED
    <3> PICK v : v = <<char>>
      OBVIOUS
    <3>1. Len(v) = 1 /\ v[1] = char /\ Len(v) + 1 = 2 /\ 1 + 1 = 2
      BY <1>1
    <3>2. \A i \in 1 .. Len(v) : Arrow(a[i], v[i], a[i + 1])
      BY <1>2, <2>1, <3>1
    <3>3. a[1] = p /\ a[Len(v) + 1] = q
      BY <1>2, <3>1
    <3>4. Leads(a, v, p, q)
      BY <3>2, <3>3 DEF Leads
    <3> QED
      BY <3>4
<1> QED
  BY <1>1, <1>3 DEF Path

\* The symbols that a rendered draft is put together from, apart from the values.
LEMMA SymbolPaths ==
  /\ Path(<<"rule">>, "H1", "H2") /\ Path(<<"sp">>, "H2", "H3") /\ Path(<<"id">>, "H3", "H4")
  /\ Path(<<"sp">>, "H4", "H5") /\ Path(<<"open">>, "H5", "H6") /\ Path(<<"nl">>, "H6", "L")
  /\ Path(<<"id">>, "L", "N") /\ Path(<<"sp">>, "N", "V")
  /\ Path(<<"quote">>, "V", "text") /\ Path(<<"quote">>, "text", "E")
  /\ Path(<<"open">>, "V", "hex") /\ Path(<<"sp">>, "hex", "hex")
  /\ Path(<<"close">>, "hex", "E") /\ Path(<<"nl">>, "E", "L")
  /\ Path(<<"id">>, "V", "C") /\ Path(<<"nl">>, "C", "D") /\ Path(<<"close">>, "D", "Z")
<1>1. /\ Arrow("H1", "rule", "H2") /\ Arrow("H2", "sp", "H3") /\ Arrow("H3", "id", "H4")
      /\ Arrow("H4", "sp", "H5") /\ Arrow("H5", "open", "H6") /\ Arrow("H6", "nl", "L")
      /\ Arrow("L", "id", "N") /\ Arrow("N", "sp", "V")
      /\ Arrow("V", "quote", "text") /\ Arrow("text", "quote", "E")
      /\ Arrow("V", "open", "hex") /\ Arrow("hex", "sp", "hex")
      /\ Arrow("hex", "close", "E") /\ Arrow("E", "nl", "L")
      /\ Arrow("V", "id", "C") /\ Arrow("C", "nl", "D") /\ Arrow("D", "close", "Z")
  BY DEF Arrow
<1>2. /\ "rule" \in Symbols /\ "sp" \in Symbols /\ "id" \in Symbols /\ "open" \in Symbols
      /\ "nl" \in Symbols /\ "quote" \in Symbols /\ "close" \in Symbols
  BY DEF Symbols
<1> QED
  BY <1>1, <1>2, PathOfOne

\* A rendered line leads from line to line.
LEMMA LinePath ==
  ASSUME NEW o \in Observables, CheckedObservable(o)
  PROVE  Path(Rendered(o), "L", "L")
<1> PICK v : v = o.value
  OBVIOUS
<1>1. v \in Seq(Symbols)
  <2>1. v \in Seq(STRING)
    BY ScannerAssumption DEF Observables
  <2>2. STRING \subseteq Symbols
    BY DEF Symbols
  <2> QED
    BY <2>1, <2>2, LargerSet
<1>2. CASE o.kind = "api_import"
  <2>1. \A i \in DOMAIN v : Arrow("text", v[i], "text")
    BY <1>2 DEF CheckedObservable, CheckApiImport, Arrow
  <2>2. Path(v, "text", "text")
    BY <1>1, <2>1, PathStays
  <2>3. Path(<<"id", "sp", "quote">>, "L", "text")
    <3>1. Path(<<"id">>, "L", "N") /\ Path(<<"sp">>, "N", "V") /\ Path(<<"quote">>, "V", "text")
      BY SymbolPaths
    <3>2. <<"id", "sp", "quote">> = (<<"id">> \o <<"sp">>) \o <<"quote">>
      OBVIOUS
    <3> QED
      BY <3>1, <3>2, PathsJoin
  <2>4. Path(<<"quote", "nl">>, "text", "L")
    <3>1. Path(<<"quote">>, "text", "E") /\ Path(<<"nl">>, "E", "L")
      BY SymbolPaths
    <3>2. <<"quote", "nl">> = <<"quote">> \o <<"nl">>
      OBVIOUS
    <3> QED
      BY <3>1, <3>2, PathsJoin
  <2>5. Rendered(o) = (<<"id", "sp", "quote">> \o v) \o <<"quote", "nl">>
    BY <1>2 DEF Rendered
  <2> QED
    BY <2>2, <2>3, <2>4, <2>5, PathsJoin
<1>3. CASE o.kind = "byte_pattern"
  <2>1. \A i \in DOMAIN v : Arrow("hex", v[i], "hex")
    BY <1>3 DEF CheckedObservable, CheckBytePattern, Arrow
  <2>2. Path(v, "hex", "hex")
    BY <1>1, <2>1, PathStays
  <2>3. Path(<<"id", "sp", "open", "sp">>, "L", "hex")
    <3>1. /\ Path(<<"id">>, "L", "N") /\ Path(<<"sp">>, "N", "V")
          /\ Path(<<"open">>, "V", "hex") /\ Path(<<"sp">>, "hex", "hex")
      BY SymbolPaths
    <3>2. <<"id", "sp", "open", "sp">> = ((<<"id">> \o <<"sp">>) \o <<"open">>) \o <<"sp">>
      OBVIOUS
    <3> QED
      BY <3>1, <3>2, PathsJoin
  <2>4. Path(<<"sp", "close", "nl">>, "hex", "L")
    <3>1. /\ Path(<<"sp">>, "hex", "hex") /\ Path(<<"close">>, "hex", "E")
          /\ Path(<<"nl">>, "E", "L")
      BY SymbolPaths
    <3>2. <<"sp", "close", "nl">> = (<<"sp">> \o <<"close">>) \o <<"nl">>
      OBVIOUS
    <3> QED
      BY <3>1, <3>2, PathsJoin
  <2>5. Rendered(o) = (<<"id", "sp", "open", "sp">> \o v) \o <<"sp", "close", "nl">>
    BY <1>3 DEF Rendered
  <2> QED
    BY <2>2, <2>3, <2>4, <2>5, PathsJoin
<1>4. CASE o.kind = "file_sha256"
  <2>1. Rendered(o) = <<>>
    BY <1>4 DEF Rendered
  <2>2. Path(<<>>, "L", "L")
    <3>1. <<>> \in Seq(Symbols) /\ DOMAIN <<>> = {}
      OBVIOUS
    <3>2. \A i \in DOMAIN <<>> : Arrow("L", <<>>[i], "L")
      BY <3>1
    <3> QED
      BY <3>1, <3>2, PathStays
  <2> QED
    BY <2>1, <2>2
<1> QED
  BY <1>2, <1>3, <1>4 DEF Observables

\* What FlattenSeq puts together, one text at a time.
IsFlattening(g, lines) ==
    g = [i \in 1 .. Len(lines) |-> IF i = 1 THEN lines[i] ELSE g[i - 1] \o lines[i]]

\* The definition of FlattenSeq, expanded.
LEMMA FlattenIsChosen ==
  ASSUME NEW lines
  PROVE  FlattenSeq(lines) =
           IF Len(lines) = 0 THEN lines
           ELSE (CHOOSE g : g = [i \in 1 .. Len(lines) |->
                                   IF i = 1 THEN lines[i] ELSE g[i - 1] \o lines[i]])[Len(lines)]
BY Zenon DEF FlattenSeq

\* There is a flattening of the first n lines, for every n.
LEMMA FlatteningExists ==
  ASSUME NEW lines, Len(lines) \in Nat
  PROVE  \E g : IsFlattening(g, lines)
<1> DEFINE Up(n, g) == g = [i \in 1 .. n |-> IF i = 1 THEN lines[i] ELSE g[i - 1] \o lines[i]]
<1> PICK bad : bad = {n \in Nat : ~ \E g : Up(n, g)}
  OBVIOUS
<1>1. SUFFICES ASSUME bad # {} PROVE FALSE
  BY DEF IsFlattening
<1>2. PICK n \in bad : \A k \in bad : n <= k
  BY <1>1, LeastNumber
<1>3. n # 0
  <2>1. Up(0, [i \in 1 .. 0 |-> lines[i]])
    OBVIOUS
  <2> QED
    BY <2>1
<1>4. PICK m \in Nat : n = m + 1
  <2>1. n - 1 \in Nat /\ n = (n - 1) + 1
    BY <1>3
  <2> QED
    BY <2>1
<1>5. PICK g : Up(m, g)
  <2>1. ~ (n <= m)
    BY <1>4
  <2>2. m \notin bad
    BY <1>2, <2>1
  <2> QED
    BY <2>2
<1>6. PICK h : h = [i \in 1 .. n |-> IF i = n THEN IF i = 1 THEN lines[i] ELSE g[m] \o lines[i]
                                     ELSE g[i]]
  OBVIOUS
<1>7. ASSUME NEW i \in 1 .. n
      PROVE  h[i] = IF i = 1 THEN lines[i] ELSE h[i - 1] \o lines[i]
  <2>1. CASE i = n
    <3>1. i # 1 => h[i - 1] = g[m]
      BY <1>4, <1>6, <2>1
    <3> QED
      BY <1>4, <1>6, <2>1, <3>1
  <2>2. CASE i # n
    <3>1. i \in 1 .. m /\ h[i] = g[i]
      BY <1>4, <1>6, <2>2
    <3>2. g[i] = IF i = 1 THEN lines[i] ELSE g[i - 1] \o lines[i]
      BY <1>5, <3>1
    <3>3. i # 1 => h[i - 1] = g[i - 1]
      BY <1>4, <1>6, <3>1
    <3> QED
      BY <3>1, <3>2, <3>3
  <2> QED
    BY <2>1, <2>2
<1>8. Up(n, h)
  BY <1>6, <1>7
<1> QED
  BY <1>2, <1>8

\* Lines that each lead from line to line do so together.
LEMMA LinesPath ==
  ASSUME NEW lines, lines = [i \in 1 .. Len(lines) |-> lines[i]], Len(lines) \in Nat \ {0},
         \A i \in 1 .. Len(lines) : Path(lines[i], "L", "L")
  PROVE  Path(FlattenSeq(lines), "L", "L")
<1> PICK g : IsFlattening(g, lines) /\ FlattenSeq(lines) = g[Len(lines)]
  <2> DEFINE g0 == CHOOSE g : g = [i \in 1 .. Len(lines) |->
                                    IF i = 1 THEN lines[i] ELSE g[i - 1] \o lines[i]]
  <2>1. IsFlattening(g0, lines)
    BY FlatteningExists DEF IsFlattening
  <2>2. FlattenSeq(lines) = g0[Len(lines)]
    BY FlattenIsChosen
  <2> QED
    BY <2>1, <2>2
<1> PICK bad : bad = {n \in 1 .. Len(lines) : ~ Path(g[n], "L", "L")}
  OBVIOUS
<1>1. ASSUME bad # {} PROVE FALSE
  <2>1. PICK n \in bad : \A k \in bad : n <= k
    <3>1. bad \subseteq Nat
      OBVIOUS
    <3> QED
      BY <1>1, <3>1, LeastNumber
  <2>2. n \in 1 .. Len(lines) /\ ~ Path(g[n], "L", "L") /\ Path(lines[n], "L", "L")
    OBVIOUS
  <2>3. g[n] = IF n = 1 THEN lines[n] ELSE g[n - 1] \o lines[n]
    BY <2>2 DEF IsFlattening
  <2>4. n # 1
    BY <2>2, <2>3
  <2>5. n - 1 \in 1 .. Len(lines) /\ ~ (n <= n - 1)
    BY <2>2, <2>4
  <2>6. Path(g[n - 1], "L", "L")
    BY <2>1, <2>5
  <2>7. Path(g[n - 1] \o lines[n], "L", "L")
    BY <2>2, <2>6, PathsJoin
  <2> QED
    BY <2>2, <2>3, <2>4, <2>7
<1>2. Path(g[Len(lines)], "L", "L")
  BY <1>1
<1> QED
  BY <1>2

\* Every draft of observables that were checked leads from the head of a rule to its end.
LEMMA DraftPath ==
  ASSUME NEW bundle \in Bundles, \A i \in DOMAIN bundle : CheckedObservable(bundle[i])
  PROVE  Path(Draft(bundle), "H1", "Z")
<1>1. PICK n \in 1 .. MaxObservables : bundle \in [1 .. n -> Observables]
  BY DEF Bundles
<1>2. n \in Nat \ {0} /\ DOMAIN bundle = 1 .. n
  BY <1>1, ScannerAssumption
<1> PICK lines : lines = [i \in DOMAIN bundle |-> Rendered(bundle[i])]
  OBVIOUS
<1>3. DOMAIN lines = 1 .. n /\ Len(lines) = n /\ lines = [i \in 1 .. n |-> lines[i]]
  BY <1>2
<1>4. \A i \in 1 .. n : Path(lines[i], "L", "L")
  BY <1>1, <1>2, LinePath
<1>5. Path(FlattenSeq(lines), "L", "L")
  BY <1>2, <1>3, <1>4, LinesPath
<1>6. Path(<<"rule", "sp", "id", "sp", "open", "nl">>, "H1", "L")
  <2>1. <<"rule", "sp", "id", "sp", "open", "nl">>
          = ((((<<"rule">> \o <<"sp">>) \o <<"id">>) \o <<"sp">>) \o <<"open">>) \o <<"nl">>
    OBVIOUS
  <2>2. Path((<<"rule">> \o <<"sp">>) \o <<"id">>, "H1", "H4")
    BY SymbolPaths, PathsJoin
  <2>3. Path((((<<"rule">> \o <<"sp">>) \o <<"id">>) \o <<"sp">>) \o <<"open">>, "H1", "H6")
    BY <2>2, SymbolPaths, PathsJoin
  <2> QED
    BY <2>1, <2>3, SymbolPaths, PathsJoin
<1>7. Path(<<"id", "sp", "id", "nl", "close">>, "L", "Z")
  <2>1. <<"id", "sp", "id", "nl", "close">>
          = (((<<"id">> \o <<"sp">>) \o <<"id">>) \o <<"nl">>) \o <<"close">>
    OBVIOUS
  <2>2. Path((<<"id">> \o <<"sp">>) \o <<"id">>, "L", "C")
    BY SymbolPaths, PathsJoin
  <2> QED
    BY <2>1, <2>2, SymbolPaths, PathsJoin
<1>8. Draft(bundle) = (<<"rule", "sp", "id", "sp", "open", "nl">> \o FlattenSeq(lines))
                        \o <<"id", "sp", "id", "nl", "close">>
  BY DEF Draft, RenderCandidateSource
<1> QED
  BY <1>5, <1>6, <1>7, <1>8, PathsJoin

\* What the scanner has seen of a draft at each of its places.
Mode(p) == IF p = "text" THEN "quoted" ELSE IF p = "hex" THEN "hex" ELSE "normal"
Depth(p) == IF p \in {"H1", "H2", "H3", "H4", "H5", "Z"} THEN 0 ELSE 1
Expecting(p) == IF p \in {"H2", "H3"} THEN TRUE ELSE FALSE
Count(p) == IF p = "H1" THEN 0 ELSE 1
Name(p) == IF p \in {"H1", "H2", "H3"} THEN <<>> ELSE <<"id">>

Scanner(i, mode, depth, expecting, count, name) ==
    [index |-> i, mode |-> mode, class |-> FALSE, depth |-> depth, expecting |-> expecting,
     count |-> count, name |-> name, directive |-> FALSE]

Seen(p, i) == Scanner(i, Mode(p), Depth(p), Expecting(p), Count(p), Name(p))

Fields == {"index", "mode", "class", "depth", "expecting", "count", "name", "directive"}

\* The fields of the scanner.
LEMMA ScannerFields ==
  ASSUME NEW i, NEW m, NEW d, NEW e, NEW c, NEW n, NEW x, x = Scanner(i, m, d, e, c, n)
  PROVE  x.index = i /\ x.mode = m /\ x.depth = d /\ x.expecting = e
BY DEF Scanner

\* The scanner at another place of the source.
LEMMA IndexSet ==
  ASSUME NEW i, NEW j, NEW m, NEW d, NEW e, NEW c, NEW n, NEW x, x = Scanner(i, m, d, e, c, n)
  PROVE  [x EXCEPT !.index = j] = Scanner(j, m, d, e, c, n)
<1> PICK y : y = [x EXCEPT !.index = j]
  OBVIOUS
<1>1. DOMAIN x = Fields /\ y = [f \in Fields |-> y[f]]
  <2>1. DOMAIN x = Fields
    BY DEF Scanner, Fields
  <2> QED
    BY <2>1
<1>2. /\ x.index = i /\ x.mode = m /\ x.class = FALSE /\ x.depth = d
      /\ x.expecting = e /\ x.count = c /\ x.name = n /\ x.directive = FALSE
  BY DEF Scanner
<1>3. /\ y.index = j /\ y.mode = m /\ y.class = FALSE /\ y.depth = d
      /\ y.expecting = e /\ y.count = c /\ y.name = n /\ y.directive = FALSE
  BY <1>1, <1>2 DEF Fields
<1>4. y = Scanner(j, m, d, e, c, n)
  BY <1>1, <1>3 DEF Scanner, Fields
<1> QED
  BY <1>4

\* The scanner in another mode.
LEMMA ModeSet ==
  ASSUME NEW i, NEW j, NEW m, NEW d, NEW e, NEW c, NEW n, NEW x, x = Scanner(i, m, d, e, c, n)
  PROVE  [x EXCEPT !.mode = j] = Scanner(i, j, d, e, c, n)
<1> PICK y : y = [x EXCEPT !.mode = j]
  OBVIOUS
<1>1. DOMAIN x = Fields /\ y = [f \in Fields |-> y[f]]
  <2>1. DOMAIN x = Fields
    BY DEF Scanner, Fields
  <2> QED
    BY <2>1
<1>2. /\ x.index = i /\ x.mode = m /\ x.class = FALSE /\ x.depth = d
      /\ x.expecting = e /\ x.count = c /\ x.name = n /\ x.directive = FALSE
  BY DEF Scanner
<1>3. /\ y.index = i /\ y.mode = j /\ y.class = FALSE /\ y.depth = d
      /\ y.expecting = e /\ y.count = c /\ y.name = n /\ y.directive = FALSE
  BY <1>1, <1>2 DEF Fields
<1>4. y = Scanner(i, j, d, e, c, n)
  BY <1>1, <1>3 DEF Scanner, Fields
<1> QED
  BY <1>4

\* The scanner that enters or leaves a body.
LEMMA DepthSet ==
  ASSUME NEW i, NEW j, NEW m, NEW d, NEW e, NEW c, NEW n, NEW x, x = Scanner(i, m, d, e, c, n)
  PROVE  [x EXCEPT !.depth = j] = Scanner(i, m, j, e, c, n)
<1> PICK y : y = [x EXCEPT !.depth = j]
  OBVIOUS
<1>1. DOMAIN x = Fields /\ y = [f \in Fields |-> y[f]]
  <2>1. DOMAIN x = Fields
    BY DEF Scanner, Fields
  <2> QED
    BY <2>1
<1>2. /\ x.index = i /\ x.mode = m /\ x.class = FALSE /\ x.depth = d
      /\ x.expecting = e /\ x.count = c /\ x.name = n /\ x.directive = FALSE
  BY DEF Scanner
<1>3. /\ y.index = i /\ y.mode = m /\ y.class = FALSE /\ y.depth = j
      /\ y.expecting = e /\ y.count = c /\ y.name = n /\ y.directive = FALSE
  BY <1>1, <1>2 DEF Fields
<1>4. y = Scanner(i, m, j, e, c, n)
  BY <1>1, <1>3 DEF Scanner, Fields
<1> QED
  BY <1>4

\* Sequences of one element are told apart by it.
LEMMA OneElementOnly ==
  ASSUME NEW S, NEW w \in Seq(S), NEW u \in Seq(S), Len(w) = 1, Len(u) = 1, w[1] = u[1]
  PROVE  w = u
<1>1. w = [k \in 1 .. 1 |-> w[k]] /\ u = [k \in 1 .. 1 |-> u[k]]
  OBVIOUS
<1>2. \A k \in 1 .. 1 : k = 1
  OBVIOUS
<1> QED
  BY <1>1, <1>2

\* The part of a sequence that is one element.
LEMMA OneOf ==
  ASSUME NEW S, NEW v \in Seq(S), NEW i \in 1 .. Len(v)
  PROVE  SubSeq(v, i, i) = <<v[i]>>
<1> PICK w, u : w = SubSeq(v, i, i) /\ u = <<v[i]>>
  OBVIOUS
<1>1. u \in Seq(S) /\ Len(u) = 1 /\ u[1] = v[i]
  BY OneElement
<1>2. w \in Seq(S) /\ Len(w) = 1 /\ w[1] = v[i]
  OBVIOUS
<1> QED
  BY <1>1, <1>2, OneElementOnly

\* An identifier of one piece ends where it starts.
LEMMA OnePiece ==
  ASSUME NEW s, NEW i \in 1 .. Len(source), s.index = i, source \in Seq(Symbols),
         source[i] \in IdentifierChars, i < Len(source), source[i + 1] \notin IdentifierChars
  PROVE  TokenEnd(s) = i /\ SubSeq(source, s.index, TokenEnd(s)) = <<source[i]>>
<1>1. Len(source) \in Nat /\ i \in Nat /\ i \in i .. Len(source)
  OBVIOUS
<1> DEFINE Ends(e) == /\ \A k \in i .. e : source[k] \in IdentifierChars
                      /\ e < Len(source) => source[e + 1] \notin IdentifierChars
<1>2. Ends(i)
  <2>1. \A k \in i .. i : k = i
    BY <1>1
  <2> QED
    BY <2>1
<1>3. ASSUME NEW e \in i .. Len(source), Ends(e) PROVE e = i
  <2>1. ASSUME e # i PROVE FALSE
    <3>1. i + 1 \in i .. e
      BY <1>1, <2>1
    <3> QED
      BY <1>3, <3>1
  <2> QED
    BY <2>1
<1>4. TokenEnd(s) = CHOOSE e \in i .. Len(source) : Ends(e)
  BY DEF TokenEnd
<1> HIDE DEF Ends
<1>5. TokenEnd(s) = i
  BY <1>1, <1>2, <1>3, <1>4
<1>6. SubSeq(source, i, i) = <<source[i]>>
  BY OneOf
<1> QED
  BY <1>5, <1>6

\* One step of the scanner leads it from place to place.
LEMMA SeenMoves ==
  ASSUME NEW at, source \in Seq(Symbols), Leads(at, source, "H1", "Z"),
         NEW i \in 1 .. Len(source), scan = Seen(at[i], i), ScanStep
  PROVE  scan' = Seen(at[i + 1], i + 1)
<1> PICK p, q, char : p = at[i] /\ q = at[i + 1] /\ char = source[i]
  OBVIOUS
<1>1. Arrow(p, char, q)
  BY DEF Leads
<1> PICK m, d, e, c, n :
      /\ m = Mode(p) /\ d = Depth(p) /\ e = Expecting(p) /\ c = Count(p) /\ n = Name(p)
  OBVIOUS
<1>2. scan = Scanner(i, m, d, e, c, n)
  BY DEF Seen
<1>3. scan.index = i /\ scan.mode = m /\ scan.depth = d /\ scan.expecting = e
  BY <1>2, ScannerFields
<1>4. q # "Z" => Arrow(q, source[i + 1], at[i + 2]) /\ i < Len(source)
  <2>1. Len(source) \in Nat /\ i \in Nat /\ i <= Len(source)
    OBVIOUS
  <2>2. i = Len(source) => q = "Z"
    BY DEF Leads
  <2>3. q # "Z" => i < Len(source) /\ i + 1 \in 1 .. Len(source) /\ (i + 1) + 1 = i + 2
    BY <2>1, <2>2
  <2> QED
    BY <2>3 DEF Leads
\* What is left to show of a step: the state before the index moves on.
<1>5. ASSUME NEW r, r = IF scan.mode = "normal" THEN StepNormal(scan) ELSE StepRegion(scan),
             r = Scanner(i, Mode(q), Depth(q), Expecting(q), Count(q), Name(q))
      PROVE  scan' = Seen(q, i + 1)
  <2>1. scan' = [r EXCEPT !.index = @ + 1]
    BY <1>5 DEF ScanStep
  <2> PICK mm, dd, ee, cc, nn :
        /\ mm = Mode(q) /\ dd = Depth(q) /\ ee = Expecting(q) /\ cc = Count(q) /\ nn = Name(q)
    OBVIOUS
  <2>2. r = Scanner(i, mm, dd, ee, cc, nn)
    BY <1>5
  <2>3. r.index = i
    BY <2>2, ScannerFields
  <2>4. scan' = [r EXCEPT !.index = i + 1]
    BY <2>1, <2>3
  <2>5. [r EXCEPT !.index = i + 1] = Scanner(i + 1, mm, dd, ee, cc, nn)
    BY <2>2, IndexSet
  <2> QED
    BY <2>4, <2>5 DEF Seen
<1>6. CASE p \in {"H2", "H4", "H6", "N", "E", "C"}
  <2>1. m = "normal" /\ char \in {"sp", "nl"}
    BY <1>1, <1>6 DEF Arrow, Mode
  <2>2. StepNormal(scan) = scan
    BY <1>3, <2>1 DEF StepNormal, IdentifierStart
  <2>3. m = Mode(q) /\ d = Depth(q) /\ e = Expecting(q) /\ c = Count(q) /\ n = Name(q)
    BY <1>1, <1>6 DEF Arrow, Mode, Depth, Expecting, Count, Name
  <2> QED
    BY <1>2, <1>3, <1>5, <2>1, <2>2, <2>3
<1>7. CASE p = "H5"
  <2>1. m = "normal" /\ d = 0 /\ char = "open" /\ q = "H6"
    BY <1>1, <1>7 DEF Arrow, Mode, Depth
  <2>2. StepNormal(scan) = Scanner(i, m, 1, e, c, n)
    <3>1. StepNormal(scan) = [scan EXCEPT !.depth = 1]
      BY <1>3, <2>1 DEF StepNormal
    <3> QED
      BY <1>2, <3>1, DepthSet
  <2>3. m = Mode(q) /\ 1 = Depth(q) /\ e = Expecting(q) /\ c = Count(q) /\ n = Name(q)
    BY <1>7, <2>1 DEF Mode, Depth, Expecting, Count, Name
  <2> QED
    BY <1>3, <1>5, <2>1, <2>2, <2>3
<1>8. CASE p = "D"
  <2>1. m = "normal" /\ d = 1 /\ char = "close" /\ q = "Z"
    BY <1>1, <1>8 DEF Arrow, Mode, Depth
  <2>2. StepNormal(scan) = Scanner(i, m, 0, e, c, n)
    <3>1. StepNormal(scan) = [scan EXCEPT !.depth = 0]
      BY <1>3, <2>1 DEF StepNormal
    <3> QED
      BY <1>2, <3>1, DepthSet
  <2>3. m = Mode(q) /\ 0 = Depth(q) /\ e = Expecting(q) /\ c = Count(q) /\ n = Name(q)
    BY <1>8, <2>1 DEF Mode, Depth, Expecting, Count, Name
  <2> QED
    BY <1>3, <1>5, <2>1, <2>2, <2>3
<1>9. CASE p = "V" /\ q \in {"text", "hex"}
  <2>1. m = "normal" /\ d = 1 /\ char = (IF q = "text" THEN "quote" ELSE "open")
    BY <1>1, <1>9 DEF Arrow, Mode, Depth
  <2>2. StepNormal(scan) = Scanner(i, Mode(q), d, e, c, n)
    <3>1. CASE q = "text"
      <4>1. StepNormal(scan) = [scan EXCEPT !.mode = "quoted"]
        BY <1>3, <2>1, <3>1 DEF StepNormal
      <4> QED
        BY <1>2, <3>1, <4>1, ModeSet DEF Mode
    <3>2. CASE q = "hex"
      <4>1. StepNormal(scan) = [scan EXCEPT !.mode = "hex"]
        BY <1>3, <2>1, <3>2 DEF StepNormal
      <4> QED
        BY <1>2, <3>2, <4>1, ModeSet DEF Mode
    <3> QED
      BY <1>9, <3>1, <3>2
  <2>3. d = Depth(q) /\ e = Expecting(q) /\ c = Count(q) /\ n = Name(q)
    BY <1>9 DEF Depth, Expecting, Count, Name
  <2> QED
    BY <1>3, <1>5, <2>1, <2>2, <2>3
<1>10. CASE p \in {"text", "hex"} /\ q = p
  <2>1. /\ m = (IF p = "text" THEN "quoted" ELSE "hex")
        /\ char \notin {"esc", "quote"} /\ (p = "hex" => char # "close")
    BY <1>1, <1>10 DEF Arrow, Mode, IdentifierChars, IdentifierStart
  <2>2. StepRegion(scan) = scan
    BY <1>3, <1>10, <2>1 DEF StepRegion
  <2>3. m = Mode(q) /\ d = Depth(q) /\ e = Expecting(q) /\ c = Count(q) /\ n = Name(q)
    BY <1>10
  <2>4. scan.mode # "normal"
    BY <1>3, <2>1
  <2> QED
    BY <1>2, <1>5, <2>2, <2>3, <2>4
<1>11. CASE p \in {"text", "hex"} /\ q = "E"
  <2>1. /\ m = (IF p = "text" THEN "quoted" ELSE "hex")
        /\ char = (IF p = "text" THEN "quote" ELSE "close")
    BY <1>1, <1>11 DEF Arrow, Mode
  <2>2. StepRegion(scan) = Scanner(i, "normal", d, e, c, n)
    <3>1. StepRegion(scan) = [scan EXCEPT !.mode = "normal"]
      BY <1>3, <1>11, <2>1 DEF StepRegion
    <3> QED
      BY <1>2, <3>1, ModeSet
  <2>3. "normal" = Mode(q) /\ d = Depth(q) /\ e = Expecting(q) /\ c = Count(q) /\ n = Name(q)
    BY <1>11 DEF Mode, Depth, Expecting, Count, Name
  <2> QED
    BY <1>3, <1>5, <1>11, <2>1, <2>2, <2>3
<1>12. ASSUME p \in {"H1", "H3", "L"} \/ (p = "V" /\ q = "C")
       PROVE  /\ m = "normal" /\ q \in {"H2", "H4", "N", "C"}
              /\ char = (IF p = "H1" THEN "rule" ELSE "id")
              /\ TokenEnd(scan) = i /\ SubSeq(source, scan.index, TokenEnd(scan)) = <<char>>
              /\ StepNormal(scan) = ReadIdentifier(scan)
              /\ [scan EXCEPT !.index = TokenEnd(scan)] = scan
  <2>1. /\ m = "normal" /\ char = (IF p = "H1" THEN "rule" ELSE "id")
        /\ q \in {"H2", "H4", "N", "C"}
    BY <1>1, <1>12 DEF Arrow, Mode
  <2>2. source[i + 1] \in {"sp", "nl"}
    BY <1>4, <2>1 DEF Arrow
  <2>3. source[i] \in IdentifierChars /\ source[i + 1] \notin IdentifierChars
    BY <2>1, <2>2 DEF IdentifierChars, IdentifierStart
  <2>4. TokenEnd(scan) = i /\ SubSeq(source, scan.index, TokenEnd(scan)) = <<source[i]>>
    <3>1. i < Len(source) /\ scan.index = i
      BY <1>3, <1>4, <2>1
    <3> QED
      BY <2>3, <3>1, OnePiece
  <2>5. StepNormal(scan) = ReadIdentifier(scan)
    BY <1>3, <2>1 DEF StepNormal, IdentifierStart
  <2>6. [scan EXCEPT !.index = i] = scan
    BY <1>2, IndexSet
  <2> QED
    BY <2>1, <2>4, <2>5, <2>6
<1>13. CASE p = "L" \/ (p = "V" /\ q = "C")
  <2>1. d # 0
    BY <1>13 DEF Depth
  <2>2. StepNormal(scan) = scan
    BY <1>3, <1>12, <1>13, <2>1 DEF ReadIdentifier
  <2>3. m = Mode(q) /\ d = Depth(q) /\ e = Expecting(q) /\ c = Count(q) /\ n = Name(q)
    BY <1>1, <1>13 DEF Arrow, Mode, Depth, Expecting, Count, Name
  <2> QED
    BY <1>2, <1>3, <1>5, <1>12, <1>13, <2>2, <2>3
<1>14. CASE p = "H1"
  <2>1. d = 0 /\ <<char>> # <<"import">> /\ <<char>> = <<"rule">>
    BY <1>12, <1>14 DEF Depth
  <2>2. StepNormal(scan) = Scanner(i, m, d, TRUE, c + 1, n)
    <3>1. SubSeq(source, scan.index, TokenEnd(scan)) = <<char>>
          /\ StepNormal(scan) = ReadIdentifier(scan)
          /\ [scan EXCEPT !.index = TokenEnd(scan)] = scan
      BY <1>12, <1>14
    <3>2. ReadIdentifier(scan) = [scan EXCEPT !.count = @ + 1, !.expecting = TRUE]
      BY <1>3, <2>1, <3>1 DEF ReadIdentifier
    <3> PICK y : y = [scan EXCEPT !.count = @ + 1, !.expecting = TRUE]
      OBVIOUS
    <3>3. DOMAIN scan = Fields /\ y = [f \in Fields |-> y[f]]
      <4>1. DOMAIN scan = Fields
        BY <1>2 DEF Scanner, Fields
      <4> QED
        BY <4>1
    <3>4. /\ scan.index = i /\ scan.mode = m /\ scan.class = FALSE /\ scan.depth = d
          /\ scan.expecting = e /\ scan.count = c /\ scan.name = n /\ scan.directive = FALSE
      BY <1>2 DEF Scanner
    <3>5. /\ y.index = i /\ y.mode = m /\ y.class = FALSE /\ y.depth = d
          /\ y.expecting = TRUE /\ y.count = c + 1 /\ y.name = n /\ y.directive = FALSE
      BY <3>3, <3>4 DEF Fields
    <3>6. y = Scanner(i, m, d, TRUE, c + 1, n)
      BY <3>3, <3>5 DEF Scanner, Fields
    <3> QED
      BY <3>1, <3>2, <3>6
  <2>3. q = "H2"
    BY <1>1, <1>14 DEF Arrow
  <2>4. /\ m = Mode(q) /\ d = Depth(q) /\ TRUE = Expecting(q) /\ c + 1 = Count(q)
        /\ n = Name(q)
    BY <1>14, <2>3 DEF Mode, Depth, Expecting, Count, Name
  <2> QED
    BY <1>3, <1>5, <1>12, <1>14, <2>2, <2>4
<1>15. CASE p = "H3"
  <2>1. d = 0 /\ scan.expecting /\ <<char>> = <<"id">>
    BY <1>3, <1>12, <1>15 DEF Depth, Expecting
  <2>2. <<char>> # <<"import">> /\ <<char>> # <<"rule">>
    BY <1>12, <1>15
  <2>3. StepNormal(scan) = Scanner(i, m, d, FALSE, c, <<"id">>)
    <3> PICK token : token = SubSeq(source, scan.index, TokenEnd(scan))
      OBVIOUS
    <3>1. token = <<"id">> /\ token # <<"import">> /\ token # <<"rule">>
      BY <1>12, <1>15, <2>1, <2>2
    <3>2. StepNormal(scan) = ReadIdentifier(scan)
          /\ [scan EXCEPT !.index = TokenEnd(scan)] = scan
      BY <1>12, <1>15
    <3>3. ReadIdentifier(scan) = [scan EXCEPT !.name = token, !.expecting = FALSE]
      BY <1>3, <2>1, <3>1, <3>2 DEF ReadIdentifier
    <3> PICK y : y = [scan EXCEPT !.name = token, !.expecting = FALSE]
      OBVIOUS
    <3>4. DOMAIN scan = Fields /\ y = [f \in Fields |-> y[f]]
      <4>1. DOMAIN scan = Fields
        BY <1>2 DEF Scanner, Fields
      <4> QED
        BY <4>1
    <3>5. /\ scan.index = i /\ scan.mode = m /\ scan.class = FALSE /\ scan.depth = d
          /\ scan.expecting = e /\ scan.count = c /\ scan.name = n /\ scan.directive = FALSE
      BY <1>2 DEF Scanner
    <3>6. /\ y.index = i /\ y.mode = m /\ y.class = FALSE /\ y.depth = d
          /\ y.expecting = FALSE /\ y.count = c /\ y.name = token /\ y.directive = FALSE
      BY <3>4, <3>5 DEF Fields
    <3>7. y = Scanner(i, m, d, FALSE, c, token)
      BY <3>4, <3>6 DEF Scanner, Fields
    <3> QED
      BY <3>1, <3>2, <3>3, <3>7
  <2>4. q = "H4"
    BY <1>1, <1>15 DEF Arrow
  <2>5. /\ m = Mode(q) /\ d = Depth(q) /\ FALSE = Expecting(q) /\ c = Count(q)
        /\ <<"id">> = Name(q)
    BY <1>15, <2>4 DEF Mode, Depth, Expecting, Count, Name
  <2> QED
    BY <1>3, <1>5, <1>12, <1>15, <2>3, <2>5
<1>16. \/ p \in {"H2", "H4", "H6", "N", "E", "C"} \/ p = "H5" \/ p = "D"
       \/ p = "V" /\ q \in {"text", "hex", "C"}
       \/ p \in {"text", "hex"} /\ (q = p \/ q = "E")
       \/ p \in {"L", "H1", "H3"}
  BY <1>1 DEF Arrow
<1> QED
  BY <1>6, <1>7, <1>8, <1>9, <1>10, <1>11, <1>13, <1>14, <1>15, <1>16

\* The invariant of the scanner over drafts: the scanner stands at a place of the rendered
\* source and has seen what comes before it, or the draft was never scanned.
DraftInv ==
    observables # <<>> =>
        \/ pc = "error"
        \/ /\ source \in Seq(Symbols) /\ Len(source) \in Nat
           /\ scan.index \in 1 .. (Len(source) + 1)
           /\ \E at : Leads(at, source, "H1", "Z") /\ scan = Seen(at[scan.index], scan.index)

\* A draft starts at the head of the rule.
LEMMA DraftStarts == ScannerInit => DraftInv
<1> SUFFICES ASSUME ScannerInit, observables # <<>>, pc # "error" PROVE DraftInv
  BY DEF DraftInv
<1>1. /\ observables \in Bundles /\ source = Draft(observables)
      /\ \A i \in DOMAIN observables : CheckedObservable(observables[i])
  BY DEF ScannerInit
<1>2. Path(source, "H1", "Z")
  BY <1>1, DraftPath
<1>3. PICK at : Leads(at, source, "H1", "Z")
  BY <1>2 DEF Path
<1>4. at[1] = "H1"
  BY <1>3 DEF Leads
<1>5. scan = Seen("H1", 1)
  BY DEF ScannerInit, ScanStart, Seen, Scanner, Mode, Depth, Expecting, Count, Name
<1>6. scan.index = 1
  BY <1>5, ScannerFields DEF Seen
<1>7. source \in Seq(Symbols) /\ Len(source) \in Nat /\ 1 \in 1 .. (Len(source) + 1)
  <2>1. source \in Seq(Symbols)
    BY <1>2 DEF Path
  <2> QED
    BY <2>1
<1> QED
  BY <1>3, <1>4, <1>5, <1>6, <1>7 DEF DraftInv

\* The scanner moves from place to place; nothing else touches the source or the scanner.
LEMMA DraftMoves == DraftInv /\ [ScannerNext]_scannerVars => DraftInv'
<1> SUFFICES ASSUME DraftInv, [ScannerNext]_scannerVars, observables # <<>> PROVE DraftInv'
  <2>1. [ScannerNext]_scannerVars => observables' = observables
    BY DEF ScannerNext, scannerVars, ScanStep, ScanEnds, CompilesClean, ScannerEnds
  <2> QED
    BY <2>1 DEF DraftInv
<1>1. CASE ScanStep
  <2>1. /\ pc = "scan" /\ pc' = "scan" /\ scan.index <= Len(source)
        /\ source' = source /\ observables' = observables
    BY <1>1 DEF ScanStep
  <2>2. /\ source \in Seq(Symbols) /\ Len(source) \in Nat
        /\ scan.index \in 1 .. (Len(source) + 1)
    BY <2>1 DEF DraftInv
  <2>3. PICK at : Leads(at, source, "H1", "Z") /\ scan = Seen(at[scan.index], scan.index)
    BY <2>1 DEF DraftInv
  <2> PICK i : i = scan.index
    OBVIOUS
  <2>4. i \in 1 .. Len(source) /\ i + 1 \in 1 .. (Len(source) + 1)
    BY <2>1, <2>2
  <2>5. scan' = Seen(at[i + 1], i + 1)
    <3>1. scan = Seen(at[i], i)
      BY <2>3
    <3> QED
      BY <1>1, <2>2, <2>3, <2>4, <3>1, SeenMoves
  <2>6. scan'.index = i + 1
    BY <2>5, ScannerFields DEF Seen
  <2>7. Leads(at, source', "H1", "Z") /\ scan' = Seen(at[scan'.index], scan'.index)
    BY <2>1, <2>3, <2>5, <2>6
  <2>8. /\ source' \in Seq(Symbols) /\ Len(source') \in Nat
        /\ scan'.index \in 1 .. (Len(source') + 1)
    BY <2>1, <2>2, <2>4, <2>6
  <2> QED
    BY <2>7, <2>8 DEF DraftInv
<1>2. CASE ScanEnds \/ CompilesClean
  <2>1. /\ source' = source /\ observables' = observables /\ scan' = scan /\ pc # "error"
    BY <1>2 DEF ScanEnds, CompilesClean
  <2> QED
    BY <2>1 DEF DraftInv, Leads
<1>3. CASE ScannerEnds \/ UNCHANGED scannerVars
  <2>1. /\ source' = source /\ observables' = observables /\ scan' = scan /\ pc' = pc
    BY <1>3 DEF ScannerEnds, scannerVars
  <2> QED
    BY <2>1 DEF DraftInv, Leads
<1> QED
  BY <1>1, <1>2, <1>3 DEF ScannerNext

\* Behind the last symbol the scanner has seen one named rule.
LEMMA DraftIsNamed == DraftInv => DraftPassesScan
<1> SUFFICES ASSUME DraftInv, observables # <<>>, pc # "error", scan.index > Len(source)
             PROVE  OneNamedRule(scan)
  <2>1. \A x : x \in {"scan", "compile", "refused"} => x # "error"
    OBVIOUS
  <2> QED
    BY <2>1 DEF DraftPassesScan
<1>1. PICK at : Leads(at, source, "H1", "Z") /\ scan = Seen(at[scan.index], scan.index)
  BY DEF DraftInv
<1>2. scan.index = Len(source) + 1
  BY DEF DraftInv
<1>3. at[scan.index] = "Z"
  BY <1>1, <1>2 DEF Leads
<1> PICK i : i = scan.index
  OBVIOUS
<1>4. scan = Seen("Z", i)
  BY <1>1, <1>3
<1>5. /\ scan.mode = "normal" /\ scan.depth = 0 /\ scan.directive = FALSE /\ scan.count = 1
      /\ scan.name = <<"id">>
  BY <1>4 DEF Seen, Scanner, Mode, Depth, Count, Name
<1>6. Len(scan.name) = 1 /\ 1 \in 1 .. MaxName
  <2>1. MaxName \in Nat /\ MaxName > 0
    BY ScannerAssumption
  <2> QED
    BY <1>5, <2>1
<1> QED
  BY <1>5, <1>6 DEF OneNamedRule, Terminated

\* Theorem: the invariant of the scanner over drafts.
THEOREM DraftInvariant == ScannerSpec => []DraftInv
<1>1. ScannerInit => DraftInv
  BY DraftStarts
<1>2. DraftInv /\ [ScannerNext]_scannerVars => DraftInv'
  BY DraftMoves
<1> QED
  BY <1>1, <1>2, PTL DEF ScannerSpec

\* Theorem (DraftPassesScan): whatever words, digits and dots the values of the observables
\* are made of, and however many of them derive_semantic_draft renders, the scan of the
\* rendered source finds one named rule, no directive and nothing left open.
THEOREM DraftsPassTheScan == ScannerSpec => []DraftPassesScan
<1>1. DraftInv => DraftPassesScan
  BY DraftIsNamed
<1> QED
  BY <1>1, DraftInvariant, PTL
=============================================================================
