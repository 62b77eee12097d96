------------------------ MODULE ConfidenceEvidence ------------------------
(***************************************************************************)
(* The documents of the confidence evaluation and the two programs that    *)
(* handle them: jaeger/model_evidence.py asks a local model about every    *)
(* case of a corpus file and writes the predictions; the command of        *)
(* jaeger/confidence_calibration.py reads the files one after the other    *)
(* and evaluates them, either as the committed fixture set or as a local   *)
(* candidate.  The owner edits the files while both programs run.          *)
(*                                                                         *)
(* A document is what its bytes decode to; its SHA-256 is the document     *)
(* itself.  "sound" stands for the format checks: canonical JSON, exact    *)
(* key order, sorted unique identifiers, class coverage and sizes.         *)
(***************************************************************************)
EXTENDS Integers, Sequences, FiniteSets

CONSTANTS
    Texts,          \* the contents a corpus file may have, all with the same case ids
    NumCases,       \* cases 1..NumCases of every corpus
    FullScore,           \* 10_000
    ModelAnswers,        \* the confidences the model may return, invalid ones included
    ServerPrompt,   \* YARA_CONFIDENCE_PROMPT_SHA256
    PinnedPrompt,   \* PINNED_LOCAL_MODEL_PROMPT_SHA256
    Digests,        \* digests of a model directory
    MaxEdits        \* bound on the owner's edits

ASSUME EvidenceAssumption ==
    /\ {NumCases, FullScore} \subseteq Nat \ {0}
    /\ ModelAnswers \subseteq Int
    /\ MaxEdits \in Nat
    /\ ServerPrompt = PinnedPrompt      \* tests/test_llm_server.py

CorpusFiles == [text : Texts, sound : BOOLEAN]
Absent == [what |-> "absent"]

VARIABLES
    files,      \* path -> document
    modelDir,   \* the digest of the model directory now
    edits,      \* edits made so far
    cap,        \* the capture program
    answered,   \* <<text, case, confidence>>: what the model ever answered within 0..FullScore
    ev          \* the evaluation program

evidenceVars == <<files, modelDir, edits, cap, answered, ev>>

Paths == {"corpus", "predictions", "policy", "report", "manifest", "captured", "provenance"}
Stopped == [pc |-> "stopped"]

(***************************************************************************)
(* What the parsers and the evaluator accept and return.                   *)
(***************************************************************************)
ParseCorpus(c) == c.sound

\* Mutant: predictions are matched with the corpus by their case ids only.
BoundToCorpusByIds(p, c) == TRUE

BoundToCorpus(p, c) == p.corpus = c

ParsePredictions(p, c) ==
    /\ p.mode \in {"synthetic_ci", "local_model_candidate"}
    /\ BoundToCorpus(p, c)
    /\ \A i \in 1..NumCases : p.rows[i].id = i /\ p.rows[i].bps \in 0..FullScore

\* Only the one development policy parses.
ParsePolicy(q) == q.exact

Report(c, p, q) == [corpus |-> c, predictions |-> p, policy |-> q, mode |-> p.mode]
Manifest(c, p, q, r) == [corpus |-> c, predictions |-> p, policy |-> q, report |-> r]

SyntheticPredictions(c, bps) ==
    [mode |-> "synthetic_ci", corpus |-> c, subject |-> [digest |-> "synthetic"],
     prompt |-> "synthetic", rows |-> [i \in 1..NumCases |-> [id |-> i, bps |-> bps]]]

(* evaluate_confidence checks its parsed inputs once more.                 *)
EvaluationInputs(c, p, q) ==
    /\ BoundToCorpus(p, c)
    /\ p.mode \in {"synthetic_ci", "local_model_candidate"}
    /\ Len(p.rows) = NumCases
    /\ \A i \in 1..NumCases : p.rows[i].id = i /\ p.rows[i].bps \in 0..FullScore
    /\ q.exact

EvaluateCandidateSet(c, p, q) ==
    /\ ParseCorpus(c) /\ ParsePredictions(p, c)
    /\ p.mode = "local_model_candidate"
    /\ p.prompt = PinnedPrompt
    /\ ParsePolicy(q)
    /\ EvaluationInputs(c, p, q)

PinnedBy(m, c, p, q, r) ==
    m.corpus = c /\ m.predictions = p /\ m.policy = q /\ m.report = r

Reproduced(c, p, q, r) == r = Report(c, p, q)

VerifyFixtureSet(c, p, q, r, m) ==
    /\ ParseCorpus(c) /\ ParsePredictions(p, c) /\ ParsePolicy(q)
    /\ PinnedBy(m, c, p, q, r)
    /\ EvaluationInputs(c, p, q)
    /\ Reproduced(c, p, q, r)

(* The committed fixture set of tests/vectors, nothing captured yet.       *)
EvidenceInit ==
    /\ \E t \in Texts, bps \in ModelAnswers \intersect (0..FullScore) :
         LET c == [text |-> t, sound |-> TRUE]
             p == SyntheticPredictions(c, bps)
             q == [exact |-> TRUE]
             r == Report(c, p, q)
         IN files = [path \in Paths |->
                CASE path = "corpus" -> c [] path = "predictions" -> p
                  [] path = "policy" -> q [] path = "report" -> r
                  [] path = "manifest" -> Manifest(c, p, q, r)
                  [] OTHER -> Absent]
    /\ modelDir \in Digests
    /\ edits = 0
    /\ cap = Stopped
    /\ answered = {}
    /\ ev = Stopped

(***************************************************************************)
(* model_evidence: capture_local_model_predictions and its command.        *)
(***************************************************************************)
(* The model artifact is either a digest the caller supplies or that of a  *)
(* provenance manifest which the directory still matches.                  *)
ArtifactOf(supplied) ==
    IF supplied # Absent THEN {supplied}
    ELSE IF files["provenance"] = [digest |-> modelDir] THEN {[digest |-> modelDir]} ELSE {}

(* The command up to the first question: artifact, output path, corpus.    *)
StartCapture(supplied) ==
    /\ cap = Stopped
    /\ ArtifactOf(supplied) # {}
    /\ files["captured"] = Absent
    /\ ParseCorpus(files["corpus"])
    /\ cap' = [pc |-> "asking", corpus |-> files["corpus"],
               subject |-> CHOOSE a \in ArtifactOf(supplied) : TRUE, rows |-> <<>>]
    /\ UNCHANGED <<files, modelDir, edits, answered, ev>>

(* One awaited call of the assessor and the checks of its answer.          *)
Assess(bps) ==
    /\ cap.pc = "asking" /\ Len(cap.rows) < NumCases
    /\ LET i == Len(cap.rows) + 1
       IN IF bps \in 0..FullScore
          THEN /\ cap' = [cap EXCEPT !.rows = Append(@, [id |-> i, bps |-> bps])]
               /\ answered' = answered \union {<<cap.corpus.text, i, bps>>}
          ELSE cap' = Stopped /\ UNCHANGED answered
    /\ UNCHANGED <<files, modelDir, edits, ev>>

AssessFails ==
    /\ cap.pc = "asking" /\ Len(cap.rows) < NumCases
    /\ cap' = Stopped
    /\ UNCHANGED <<files, modelDir, edits, answered, ev>>

CapturedDocument ==
    [mode |-> "local_model_candidate", corpus |-> cap.corpus, subject |-> cap.subject,
     prompt |-> ServerPrompt, rows |-> cap.rows]

(* The document is parsed back before it is released, and written only to  *)
(* a path that is still free.                                              *)
Release ==
    /\ cap.pc = "asking" /\ Len(cap.rows) = NumCases
    /\ files' = IF ParsePredictions(CapturedDocument, cap.corpus) /\ files["captured"] = Absent
                THEN [files EXCEPT !["captured"] = CapturedDocument]
                ELSE files
    /\ cap' = Stopped
    /\ UNCHANGED <<modelDir, edits, answered, ev>>

(***************************************************************************)
(* The evaluation command: the files in the order of its reads.            *)
(***************************************************************************)
ReadOrder(candidate) ==
    IF candidate THEN <<"corpus", "captured", "policy">>
    ELSE <<"corpus", "predictions", "policy", "report", "manifest">>

StartEvaluation(candidate) ==
    /\ ev = Stopped
    /\ ev' = [pc |-> "reading", candidate |-> candidate, read |-> <<>>]
    /\ UNCHANGED <<files, modelDir, edits, cap, answered>>

(* _read_bounded of the next file; a missing one ends the command.         *)
ReadBounded ==
    /\ ev.pc = "reading" /\ Len(ev.read) < Len(ReadOrder(ev.candidate))
    /\ LET document == files[ReadOrder(ev.candidate)[Len(ev.read) + 1]]
       IN ev' = IF document = Absent THEN Stopped
                ELSE [ev EXCEPT !.read = Append(@, document)]
    /\ UNCHANGED <<files, modelDir, edits, cap, answered>>

Evaluate ==
    /\ ev.pc = "reading" /\ Len(ev.read) = Len(ReadOrder(ev.candidate))
    /\ LET r == ev.read
           accepted == IF ev.candidate THEN EvaluateCandidateSet(r[1], r[2], r[3])
                       ELSE VerifyFixtureSet(r[1], r[2], r[3], r[4], r[5])
       IN ev' = IF accepted
                THEN [pc |-> "emitted", candidate |-> ev.candidate, read |-> r,
                      report |-> Report(r[1], r[2], r[3])]
                ELSE [pc |-> "failed", candidate |-> ev.candidate, read |-> r]
    /\ UNCHANGED <<files, modelDir, edits, cap, answered>>

EvaluationEnds ==
    /\ ev.pc \in {"emitted", "failed"}
    /\ ev' = Stopped
    /\ UNCHANGED <<files, modelDir, edits, cap, answered>>

(***************************************************************************)
(* The owner: edits of single files, in any order.                         *)
(***************************************************************************)
Put(path, document) ==
    /\ edits < MaxEdits
    /\ edits' = edits + 1
    /\ files' = [files EXCEPT ![path] = document]
    /\ UNCHANGED <<modelDir, cap, answered, ev>>

PutCorpus == \E c \in CorpusFiles : Put("corpus", c)
PutPolicy == \E exact \in BOOLEAN : Put("policy", [exact |-> exact])
PutProvenance == Put("provenance", [digest |-> modelDir])
RemoveCaptured == files["captured"] # Absent /\ Put("captured", Absent)

PutPredictions ==
    \E bps \in ModelAnswers : Put("predictions", SyntheticPredictions(files["corpus"], bps))

PutReport ==
    Put("report", Report(files["corpus"], files["predictions"], files["policy"]))

PutManifest ==
    Put("manifest", Manifest(files["corpus"], files["predictions"], files["policy"], files["report"]))

ReplaceModel ==
    /\ edits < MaxEdits
    /\ edits' = edits + 1
    /\ modelDir' \in Digests \ {modelDir}
    /\ UNCHANGED <<files, cap, answered, ev>>

EvidenceNext ==
    \/ \E supplied \in {Absent} \union [digest : Digests] : StartCapture(supplied)
    \/ \E bps \in ModelAnswers : Assess(bps)
    \/ AssessFails \/ Release
    \/ \E candidate \in BOOLEAN : StartEvaluation(candidate)
    \/ ReadBounded \/ Evaluate \/ EvaluationEnds
    \/ PutCorpus \/ PutPolicy \/ PutProvenance \/ RemoveCaptured
    \/ PutPredictions \/ PutReport \/ PutManifest \/ ReplaceModel

EvidenceSpec == EvidenceInit /\ [][EvidenceNext]_evidenceVars

(***************************************************************************)
(* Properties.                                                             *)
(***************************************************************************)
(* A candidate report scores the model's answers on the corpus it was      *)
(* asked about: whatever the owner did to the corpus file between the      *)
(* capture and the evaluation, each confidence in an emitted report is one *)
(* the model gave for that case of that corpus (parse_predictions).        *)
AnswersFitCorpus ==
    (ev.pc = "emitted" /\ ev.candidate) =>
        \A i \in 1..NumCases :
            <<ev.report.corpus.text, i, ev.report.predictions.rows[i].bps>> \in answered

(* What the capture releases, the candidate evaluation takes: with the     *)
(* corpus it was captured from and the development policy, the evaluation  *)
(* of released predictions never fails.                                    *)
CaptureIsEvaluable ==
    (ev.pc = "failed" /\ ev.candidate) =>
        ev.read[2].corpus # ev.read[1] \/ ~ev.read[3].exact

(* A verified fixture run emits exactly the report that is committed, and  *)
(* the report is about the documents read, although they were read one     *)
(* after the other (verify_fixture_set).                                   *)
VerifiedIsCommitted ==
    (ev.pc = "emitted" /\ ~ev.candidate) =>
        /\ ev.report = ev.read[4]
        /\ ev.read[5] = Manifest(ev.report.corpus, ev.report.predictions, ev.report.policy, ev.report)

(* Captured or committed, an emitted report is about the documents it was  *)
(* made from.                                                              *)
EvidenceFits == AnswersFitCorpus /\ CaptureIsEvaluable /\ VerifiedIsCommitted
=============================================================================
