------------------------- MODULE SemanticQuality -------------------------
(***************************************************************************)
(* jaeger/yara_semantic_quality.py: synthetic payloads derived from        *)
(* recipes of segments, one pinned rule that scans them, and a report.   *)
(* evaluate_quality takes parsed objects its caller may have rebuilt, so   *)
(* it derives every payload and the canonical corpus again before it       *)
(* scans.  verify_fixture_set hashes its own source file, then lets      *)
(* evaluate_quality hash it again; the file may be replaced in between.    *)
(*                                                                         *)
(* Bytes are small integers.  A corpus digest is the recipe itself.      *)
(***************************************************************************)
EXTENDS Integers, Sequences, FiniteSets, SequencesExt

CONSTANTS
    Bytes, Printable,
    Magics,         \* _FORBIDDEN_PAYLOAD_MAGICS, as byte sequences
    Patterns,       \* the strings of the pinned rule
    Walk,           \* seed -> the bytes of its digest walk, MaxPayload of them
    MaxPayload, MaxText, MaxSegments,
    NumRecipes, MinExpected,
    RawSegments,    \* segments a corpus document may hold, ill-formed ones included
    Versions        \* contents of the evaluator's source file

ASSUME QualityAssumption ==
    /\ Printable \subseteq Bytes /\ Bytes \subseteq Nat
    /\ {MaxPayload, MaxText, MaxSegments, NumRecipes} \subseteq Nat \ {0}
    /\ MinExpected \in Nat
    /\ Magics \union Patterns \subseteq Seq(Bytes) \ {<<>>}
    /\ RawSegments \subseteq [kind : STRING, value : Seq(Int), count : Nat]

VARIABLES
    stage,          \* where the run stands
    recipe,         \* the corpus document: cases [expected, segments], identified by position
    corpus,         \* the parsed corpus: [cases, digest], a case with its payload
    scanned,        \* the payloads given to the scanner, in order
    cells,          \* the confusion matrix: [tp, fp, tn, fn]
    evaluator,      \* the evaluator's source file now
    pin,            \* what manifest and expected report name: [implementation, expected]
    qualityReport   \* what evaluate_quality returns

qualityVars == <<stage, recipe, corpus, scanned, cells, evaluator, pin, qualityReport>>

Recipes ==
    [1..NumRecipes -> [expected : BOOLEAN, segments : SeqOf(RawSegments, MaxSegments)]]
NoCorpus == [cases |-> <<>>, digest |-> <<>>]
NoQualityReport == [built |-> FALSE]

QualityInit ==
    /\ stage = "raw"
    /\ recipe \in Recipes
    /\ corpus = NoCorpus
    /\ scanned = <<>>
    /\ cells = [tp |-> 0, fp |-> 0, tn |-> 0, fn |-> 0]
    /\ evaluator \in Versions
    /\ pin \in [implementation : Versions, expected : Versions]
    /\ qualityReport = NoQualityReport

(***************************************************************************)
(* Segments and the payload they derive.  A raw segment carries its count  *)
(* only where the schema has one (0 stands for none); text and hex         *)
(* segments have it computed.                                              *)
(***************************************************************************)
Counted == {"fill", "digest_walk"}

ValueValid(s) ==
    CASE s.kind = "fill" -> Len(s.value) = 1 /\ s.value[1] \in Bytes
      [] s.kind = "ascii" -> Len(s.value) \in 1..MaxText /\ Range(s.value) \subseteq Printable
      [] s.kind = "hex" -> Len(s.value) \in 1..MaxText /\ Range(s.value) \subseteq Bytes
      [] s.kind = "digest_walk" -> Len(s.value) = 1 /\ s.value[1] \in DOMAIN Walk
      [] OTHER -> FALSE

ParsesSegment(s) ==
    ValueValid(s) /\ IF s.kind \in Counted THEN s.count \in 1..MaxPayload ELSE s.count = 0

ParseSegment(s) == IF s.kind \in Counted THEN s ELSE [s EXCEPT !.count = Len(s.value)]

RevalidateSegment(s) ==
    /\ ValueValid(s)
    /\ IF s.kind \in Counted THEN s.count \in 1..MaxPayload ELSE s.count = Len(s.value)

CanonicalSegment(s) == IF s.kind \in Counted THEN s ELSE [s EXCEPT !.count = 0]

SegmentBytes(s) ==
    CASE s.kind = "fill" -> [i \in 1..s.count |-> s.value[1]]
      [] s.kind = "digest_walk" -> SubSeq(Walk[s.value[1]], 1, s.count)
      [] OTHER -> s.value

Payload(segments) == FlattenSeq([i \in DOMAIN segments |-> SegmentBytes(segments[i])])

DerivesPayload(segments) ==
    /\ Len(Payload(segments)) \in 1..MaxPayload
    /\ \A m \in Magics : ~IsPrefix(m, Payload(segments))

(***************************************************************************)
(* parse_corpus.                                                           *)
(***************************************************************************)
BothExpected(cases) ==
    LET matching == Cardinality({i \in DOMAIN cases : cases[i].expected})
    IN matching >= MinExpected /\ Len(cases) - matching >= MinExpected

ParsesCase(c) ==
    /\ Len(c.segments) \in 1..MaxSegments
    /\ \A i \in DOMAIN c.segments : ParsesSegment(c.segments[i])
    /\ DerivesPayload([i \in DOMAIN c.segments |-> ParseSegment(c.segments[i])])

ParseCase(c) ==
    LET segments == [i \in DOMAIN c.segments |-> ParseSegment(c.segments[i])]
    IN [expected |-> c.expected, segments |-> segments, payload |-> Payload(segments)]

ParseQualityCorpus ==
    /\ stage = "raw"
    /\ IF BothExpected(recipe) /\ \A i \in DOMAIN recipe : ParsesCase(recipe[i])
       THEN /\ stage' = "parsed"
            /\ corpus' = [cases |-> [i \in DOMAIN recipe |-> ParseCase(recipe[i])],
                          digest |-> recipe]
       ELSE stage' = "rejected" /\ UNCHANGED corpus
    /\ UNCHANGED <<recipe, scanned, cells, evaluator, pin, qualityReport>>

(***************************************************************************)
(* A caller of evaluate_quality: the frozen objects are rebuilt with other *)
(* fields, the digest kept.                                                *)
(***************************************************************************)
Rebuild(i, changed) ==
    /\ stage = "parsed"
    /\ stage' = "rebuilt"
    /\ changed # corpus.cases[i]
    /\ corpus' = [corpus EXCEPT !.cases[i] = changed]
    /\ UNCHANGED <<recipe, scanned, cells, evaluator, pin, qualityReport>>

RebuildLabel(i) == Rebuild(i, [corpus.cases[i] EXCEPT !.expected = ~@])

RebuildPayload(i, p) == Rebuild(i, [corpus.cases[i] EXCEPT !.payload = p])

RebuildSegment(i, s) ==
    Rebuild(i, [corpus.cases[i] EXCEPT
                   !.segments[1] = s,
                   !.payload = IF RevalidateSegment(s)
                               THEN Payload([corpus.cases[i].segments EXCEPT ![1] = s]) ELSE @])

(***************************************************************************)
(* evaluate_quality: revalidation, one scan per case, the report.        *)
(***************************************************************************)
CanonicalCorpus(cases) ==
    [i \in DOMAIN cases |->
        [expected |-> cases[i].expected,
         segments |-> [j \in DOMAIN cases[i].segments |-> CanonicalSegment(cases[i].segments[j])]]]

\* Mutant: the canonical corpus is not derived again.
DigestHoldsAsGiven(c) == TRUE

DigestHolds(c) == CanonicalCorpus(c.cases) = c.digest

QualityInputs(c) ==
    /\ \A i \in DOMAIN c.cases :
         /\ Len(c.cases[i].segments) \in 1..MaxSegments
         /\ \A j \in DOMAIN c.cases[i].segments : RevalidateSegment(c.cases[i].segments[j])
         /\ DerivesPayload(c.cases[i].segments)
         /\ c.cases[i].payload = Payload(c.cases[i].segments)
    /\ BothExpected(c.cases)
    /\ DigestHolds(c)

(* The API call, and the first hash of the source file in the other path.*)
EvaluateQuality ==
    /\ stage \in {"parsed", "rebuilt", "verifying"}
    /\ IF QualityInputs(corpus)
       THEN /\ stage' = IF stage = "verifying" THEN "scanning-verified" ELSE "scanning"
            /\ qualityReport' = [built |-> FALSE, implementation |-> evaluator]
       ELSE stage' = "rejected" /\ UNCHANGED qualityReport
    /\ UNCHANGED <<recipe, corpus, scanned, cells, evaluator, pin>>

VerifyQualityFixtures ==
    /\ stage = "parsed"
    /\ stage' = IF pin.implementation = evaluator THEN "verifying" ELSE "rejected"
    /\ UNCHANGED <<recipe, corpus, scanned, cells, evaluator, pin, qualityReport>>

ScanningCases == stage \in {"scanning", "scanning-verified"}

Matches(payload) ==
    \E p \in Patterns : \E i \in 1..Len(payload) : IsPrefix(p, SubSeq(payload, i, Len(payload)))

ScanInMemory ==
    /\ ScanningCases /\ Len(scanned) < NumRecipes
    /\ LET c == corpus.cases[Len(scanned) + 1]
           cell == IF Matches(c.payload) THEN (IF c.expected THEN "tp" ELSE "fp")
                                         ELSE (IF c.expected THEN "fn" ELSE "tn")
       IN /\ cells' = [cells EXCEPT ![cell] = @ + 1]
          /\ scanned' = Append(scanned, c.payload)
    /\ UNCHANGED <<stage, recipe, corpus, evaluator, pin, qualityReport>>

\* All three minimums of the pinned policy are 10_000 basis points.
Perfect(ratio) == ratio.over > 0 /\ ratio.of * 10000 >= 10000 * ratio.over

GatePass(m) ==
    /\ m.tp + m.fn >= MinExpected /\ m.tn + m.fp >= MinExpected
    /\ Perfect([of |-> m.tp, over |-> m.tp + m.fp])
    /\ Perfect([of |-> m.tp, over |-> m.tp + m.fn])
    /\ Perfect([of |-> m.tn, over |-> m.tn + m.fp])

QualityReproduced(implementation) == pin.expected = implementation

Emit ==
    /\ ScanningCases /\ Len(scanned) = NumRecipes
    /\ IF stage = "scanning-verified" => QualityReproduced(qualityReport.implementation)
       THEN /\ stage' = IF stage = "scanning" THEN "evaluated" ELSE "verified"
            /\ qualityReport' = [built |-> TRUE, implementation |-> qualityReport.implementation,
                          corpus |-> corpus.digest, gatePass |-> GatePass(cells)]
       ELSE stage' = "rejected" /\ UNCHANGED qualityReport
    /\ UNCHANGED <<recipe, corpus, scanned, cells, evaluator, pin>>

\* The source file is replaced, by an upgrade of the checkout.
ReplaceSource ==
    /\ stage \in {"parsed", "verifying"}
    /\ evaluator' \in Versions \ {evaluator}
    /\ UNCHANGED <<stage, recipe, corpus, scanned, cells, pin, qualityReport>>

QualityEnds == stage \in {"rejected", "evaluated", "verified"} /\ UNCHANGED qualityVars

QualityNext ==
    \/ ParseQualityCorpus
    \/ \E i \in DOMAIN corpus.cases :
          \/ RebuildLabel(i)
          \/ \E p \in Patterns \union Magics : RebuildPayload(i, p)
          \/ \E s \in RawSegments : RebuildSegment(i, s)
    \/ EvaluateQuality \/ VerifyQualityFixtures \/ ScanInMemory \/ Emit
    \/ ReplaceSource \/ QualityEnds

QualitySpec == QualityInit /\ [][QualityNext]_qualityVars

(***************************************************************************)
(* Properties.                                                             *)
(***************************************************************************)
(* A report is about the corpus whose digest it shows: parsing that very *)
(* document yields the labels and the payloads that were scanned, even   *)
(* when the caller rebuilt the parsed objects (_validate_evaluation_inputs *)
(* against _parse_case).                                                   *)
ReportBindsCases ==
    qualityReport.built =>
        \A i \in 1..NumRecipes :
            /\ ParsesCase(qualityReport.corpus[i])
            /\ ParseCase(qualityReport.corpus[i]).payload = scanned[i]
            /\ ParseCase(qualityReport.corpus[i]).expected = corpus.cases[i].expected

(* No buffer that begins like an executable reaches the scanner, however   *)
(* the recipe composes it from segments and whatever the caller rebuilt    *)
(* (_derive_payload).                                                      *)
NoMagicIsScanned ==
    \A i \in DOMAIN scanned, m \in Magics : ~IsPrefix(m, scanned[i])

(* Revalidation never refuses what the parser made: a corpus that parses   *)
(* and that nobody rebuilt is evaluated (the canonical bytes derived from  *)
(* the objects are the bytes that were parsed).                            *)
ParsedIsEvaluated ==
    [][(stage \in {"parsed", "verifying"} /\ EvaluateQuality) => stage' # "rejected"]_qualityVars

(* With a manifest and an expected report that agree, a verified report  *)
(* names the implementation they pin, although the source file is hashed *)
(* twice and may change in between (verify_fixture_set).                   *)
VerifiedIsPinned ==
    (stage = "verified" /\ pin.expected = pin.implementation) =>
        qualityReport.implementation = pin.implementation

(* The three together: what is reported was parsed, scanned and pinned.    *)
QualityIsBound == ReportBindsCases /\ NoMagicIsScanned /\ VerifiedIsPinned
=============================================================================
