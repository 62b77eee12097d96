------------------------ MODULE ConfidenceMetrics ------------------------
(***************************************************************************)
(* evaluate_confidence (jaeger/confidence_calibration.py): one pass over   *)
(* the benchmark cases that builds a confusion matrix, a squared error and *)
(* the calibration bins, then a report of rounded numbers and the checks   *)
(* of the development gate.  Confidences are integers 0..Full; the code's  *)
(* 10_000 basis points, bin width and limits are constants here.           *)
(***************************************************************************)
EXTENDS Integers, Sequences, FiniteSets, FiniteSetsExt

CONSTANTS
    Full,          \* 10_000 basis points
    BinWidth,      \* CALIBRATION_BIN_WIDTH_BPS
    BinCount,      \* CALIBRATION_BIN_COUNT
    Threshold,     \* SUBMISSION_THRESHOLD_BPS
    MinCases, MaxCases, MinClassCases,
    MinPrecision, MinRecall,   \* in parts of Full
    MaxBrier, BrierUnit,       \* the limit, and the squared units one part of it holds
    MaxEce,
    Confidences    \* the confidences a prediction may carry

ASSUME MetricsAssumption ==
    /\ {Full, BinWidth, BinCount, BrierUnit, MinCases, MinPrecision} \subseteq Nat \ {0}
    /\ {Threshold, MinClassCases, MinRecall, MaxBrier, MaxEce} \subseteq Nat
    /\ Full = BinWidth * BinCount
    /\ Confidences \subseteq 0..Full
    /\ MaxCases \in Nat

VARIABLES
    cases,      \* the cases zipped with their predictions: [acceptable, bps]
    next,       \* the case the loop reads next
    matrix,     \* [tp, fp, tn, fn]
    squared,    \* squared_error_sum
    bins,       \* bin index -> [count, positive, sum]
    report      \* what evaluate_confidence returns

metricVars == <<cases, next, matrix, squared, bins, report>>

None == -1
NoReport == [gatePass |-> FALSE, built |-> FALSE]
Acceptable == {i \in DOMAIN cases : cases[i].acceptable}

(***************************************************************************)
(* The corpora parse_corpus accepts: bounded, and with enough cases of     *)
(* each class.                                                             *)
(***************************************************************************)
Covered(cs) ==
    LET good == Cardinality({i \in DOMAIN cs : cs[i].acceptable})
    IN good >= MinClassCases /\ Len(cs) - good >= MinClassCases

Corpora ==
    {cs \in UNION {[1..n -> [acceptable : BOOLEAN, bps : Confidences]] : n \in MinCases..MaxCases} :
        Covered(cs)}

MetricsInit ==
    /\ cases \in Corpora
    /\ next = 1
    /\ matrix = [tp |-> 0, fp |-> 0, tn |-> 0, fn |-> 0]
    /\ squared = 0
    /\ bins = [b \in 0..(BinCount - 1) |-> [count |-> 0, positive |-> 0, sum |-> 0]]
    /\ report = NoReport

Target(acceptable) == IF acceptable THEN Full ELSE 0
AbsoluteValue(n) == IF n < 0 THEN -n ELSE n

\* The cell of the matrix one case falls into.
Cell(acceptable, bps) ==
    IF bps >= Threshold THEN (IF acceptable THEN "tp" ELSE "fp")
                        ELSE (IF acceptable THEN "fn" ELSE "tn")

\* Mutant: the bin is the nearest multiple of the width, not the one below.
BinIndexNearest(bps) ==
    LET nearest == (bps + BinWidth \div 2) \div BinWidth
    IN IF nearest < BinCount THEN nearest ELSE BinCount - 1

BinIndex(bps) ==
    IF bps \div BinWidth < BinCount THEN bps \div BinWidth ELSE BinCount - 1

(* One iteration of the loop over the zipped cases.                        *)
ScoreCase ==
    /\ next <= Len(cases)
    /\ LET c == cases[next]
       IN /\ matrix' = [matrix EXCEPT ![Cell(c.acceptable, c.bps)] = @ + 1]
          /\ squared' = squared + (c.bps - Target(c.acceptable)) * (c.bps - Target(c.acceptable))
          /\ bins' = [bins EXCEPT ![BinIndex(c.bps)] =
                [count |-> @.count + 1,
                 positive |-> @.positive + (IF c.acceptable THEN 1 ELSE 0),
                 sum |-> @.sum + c.bps]]
    /\ next' = next + 1
    /\ UNCHANGED <<cases, report>>

(***************************************************************************)
(* The report: ratios rounded half up, and checks made on exact products.  *)
(***************************************************************************)
RoundRatio(numerator, denominator) == (2 * numerator + denominator) \div (2 * denominator)

RatioBps(numerator, denominator) ==
    IF denominator = 0 THEN None ELSE RoundRatio(numerator * Full, denominator)

Reaches(numerator, denominator, minimum) ==
    denominator > 0 /\ numerator * Full >= minimum * denominator

Precise(m) == Reaches(m.tp, m.tp + m.fp, MinPrecision)

BinGap(b) == AbsoluteValue(b.sum - b.positive * Full)

GapSum == SumFunction([b \in DOMAIN bins |-> BinGap(bins[b])])

\* _build_calibration_bins: the published bounds and means of bin b.
PublishedBin(b) ==
    [lower |-> b * BinWidth,
     upper |-> IF b = BinCount - 1 THEN Full ELSE b * BinWidth + BinWidth - 1,
     count |-> bins[b].count,
     mean |-> IF bins[b].count = 0 THEN None ELSE RoundRatio(bins[b].sum, bins[b].count),
     observed |-> RatioBps(bins[b].positive, bins[b].count)]

Checks ==
    LET m == matrix
        n == Len(cases)
    IN [minimum_sample_count |-> n >= MinCases,
        minimum_class_count |-> m.tp + m.fn >= MinClassCases /\ m.tn + m.fp >= MinClassCases,
        minimum_precision |-> Precise(m),
        minimum_recall |-> Reaches(m.tp, m.tp + m.fn, MinRecall),
        maximum_brier_score |-> squared <= MaxBrier * (n * BrierUnit),
        maximum_expected_calibration_error |-> GapSum <= MaxEce * n]

Evaluation ==
    [built |-> TRUE,
     precision |-> RatioBps(matrix.tp, matrix.tp + matrix.fp),
     recall |-> RatioBps(matrix.tp, matrix.tp + matrix.fn),
     brier |-> RoundRatio(squared, Len(cases) * BrierUnit),
     gap |-> GapSum,
     ece |-> RoundRatio(GapSum, Len(cases)),
     bins |-> [b \in DOMAIN bins |-> PublishedBin(b)],
     checks |-> Checks,
     gatePass |-> \A c \in DOMAIN Checks : Checks[c]]

BuildReport ==
    /\ next > Len(cases)
    /\ report = NoReport
    /\ report' = Evaluation
    /\ UNCHANGED <<cases, next, matrix, squared, bins>>

Reported == report.built /\ UNCHANGED metricVars

MetricsNext == ScoreCase \/ BuildReport \/ Reported

MetricsSpec == MetricsInit /\ [][MetricsNext]_metricVars

(***************************************************************************)
(* Properties.                                                             *)
(***************************************************************************)
CaseBps == [i \in DOMAIN cases |-> cases[i].bps]

(* The loop counts what the report says it counts: every case in exactly   *)
(* one bin, the one whose published bounds hold its confidence (the top    *)
(* confidence included), and in the cell of its label and of the threshold *)
(* (evaluate_confidence, _build_calibration_bins).                         *)
CountsAreTheCases ==
    report.built =>
        /\ \A b \in DOMAIN report.bins :
              LET held == {i \in DOMAIN cases :
                             cases[i].bps \in report.bins[b].lower..report.bins[b].upper}
              IN /\ report.bins[b].count = Cardinality(held)
                 /\ bins[b].sum = SumFunctionOnSet(CaseBps, held)
                 /\ bins[b].positive = Cardinality(held \intersect Acceptable)
        /\ matrix.tp = Cardinality({i \in Acceptable : cases[i].bps >= Threshold})
        /\ matrix.tp + matrix.fn = Cardinality(Acceptable)
        /\ matrix.tp + matrix.fp = Cardinality({i \in DOMAIN cases : cases[i].bps >= Threshold})
        /\ matrix.tp + matrix.fn + matrix.fp + matrix.tn = Len(cases)

(* The gate decides on exact products and publishes rounded numbers: a     *)
(* report that passes never shows a number on the wrong side of its limit, *)
(* nor an undefined ratio.                                                 *)
PassIsPublished ==
    report.gatePass =>
        /\ report.precision >= MinPrecision
        /\ report.recall >= MinRecall
        /\ report.brier <= MaxBrier
        /\ report.ece <= MaxEce
        /\ matrix.tp > 0

(* The two calibration measures cannot contradict each other: the sum of   *)
(* the gaps is at least the gap of the whole sample, and its square is at  *)
(* most the sample size times the squared error, whatever the binning.     *)
GapWithinError ==
    report.built =>
        /\ report.gap * report.gap <= Len(cases) * squared
        /\ report.gap >= AbsoluteValue(SumFunction(CaseBps) - Cardinality(Acceptable) * Full)

(* Counters, gate and calibration measures of a report agree.              *)
ReportIsConsistent == CountsAreTheCases /\ PassIsPublished /\ GapWithinError
=============================================================================
