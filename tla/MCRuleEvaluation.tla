-------------------------- MODULE MCRuleEvaluation --------------------------
(* How the rules of a Guardian are read and evaluated: the YARA scanner, the  *)
(* metrics and the evidence of the confidence evaluation, and the semantic    *)
(* quality of the pinned rule.  The four share no state, so a behaviour       *)
(* follows one of them while the others rest in one of their initial states.  *)
EXTENDS YaraScanner, ConfidenceMetrics, ConfidenceEvidence, SemanticQuality

VARIABLE part    \* the component this behaviour follows

---------------------------------------------------------------------------
(* Items: the words, punctuation that means nothing at top level, comments, *)
(* strings and regular expressions around the symbols that could end or     *)
(* open something else, rule bodies around those, and open ones.            *)

Item(what, text) == [what |-> what, text |-> text]
Words == {Item("word", <<w>>) : w \in {"rule", "import", "id", "digit"}}
Around(what, before, inside, after) ==
    {Item(what, before \o <<x>> \o after) : x \in inside}
Regions ==
    {Item("region", <<"sp">>)}
    \union Around("region", <<"slash", "slash">>, {"import", "quote", "open", "slash"}, <<"nl">>)
    \union Around("region", <<"slash", "star">>, {"rule", "star", "quote"}, <<"star", "slash">>)
    \union Around("region", <<"quote">>, {"rule", "open", "slash"}, <<"quote">>)
    \union Around("region", <<"quote", "esc">>, {"quote", "esc"}, <<"quote">>)
    \union Around("region", <<"slash">>, {"import", "quote"}, <<"slash">>)
    \union Around("region", <<"slash", "lbr">>, {"slash"}, <<"rbr", "slash">>)
    \union Around("region", <<"slash", "esc">>, {"slash"}, <<"slash">>)
Hex == {<<"open", "digit", "close">>, <<"open", "id", "close">>}
Bodies ==
    {Item("body", <<"open">> \o t \o <<"close">>) :
        t \in {<<"rule">>, <<"import">>, <<"quote", "close", "quote">>,
               <<"slash", "star", "close", "star", "slash">>, <<"slash", "close", "slash">>}
             \union Hex}
(* A comment inside a hex string, with a brace or a quote in it.            *)
CommentedBodies ==
    {Item("commented", <<"open", "open">> \o t \o <<"digit", "close", "close">>) :
        t \in {<<"slash", "star", "close", "quote", "star", "slash">>,
               <<"slash", "slash", "quote", "nl">>}}
Opens ==
    {Item("open", t) : t \in {<<"quote", "id">>, <<"slash", "id">>, <<"slash", "star", "id">>,
                              <<"open", "id">>, <<"open", "open", "id">>}}
(* An open item ends its document: what follows would stand inside it.     *)
ItemsValue == Words \union Regions \union Bodies \union CommentedBodies
MCItems == ItemsValue \union Opens
MCDocuments == {d \in Documents : \A i \in 1..(Len(d) - 1) : d[i].what # "open"}
Symbols == {"rule", "import", "id", "digit", "dot", "quote", "close", "esc", "wild"}
MCValues == UNION {[1..n -> Symbols] : n \in 1..2}

---------------------------------------------------------------------------
\* Bytes 1 and 2 are the letters of the magic, 3 the pattern, 0 is not printable.
MCMagics == {<<1, 2>>}
MCPatterns == {<<3>>}
MCWalk == [seed \in {7} |-> <<2, 3, 0>>]

Seg(k, v, n) == [kind |-> k, value |-> v, count |-> n]

\* Every kind, the letters of the magic apart, and ill-formed segments.
MCRawSegments ==
    {Seg("fill", <<1>>, 1), Seg("fill", <<2>>, 3), Seg("fill", <<9>>, 1),
     Seg("ascii", <<2, 3>>, 0), Seg("hex", <<0>>, 0), Seg("hex", <<1, 2>>, 0),
     Seg("digest_walk", <<7>>, 2), Seg("hex", <<0>>, 1)}

---------------------------------------------------------------------------
(* A component at rest: one of its initial states.  Which text, digest or   *)
(* version a resting component holds is never read, so that the three sets  *)
(* may be permuted.                                                         *)

Symmetric == Permutations(Texts) \union Permutations(Digests) \union Permutations(Versions)

Sha(value) == << [kind |-> "file_sha256", value |-> value] >>
ScannerRests ==
    /\ document = <<>> /\ source = <<>> /\ pc = "error" /\ scan = ScanStart
    /\ observables = Sha(<<"dot">>)
MetricsRests ==
    /\ cases = <<>> /\ next = 1 /\ squared = 0 /\ report = NoReport
    /\ matrix = [tp |-> 0, fp |-> 0, tn |-> 0, fn |-> 0]
    /\ bins = [b \in 0..(BinCount - 1) |-> [count |-> 0, positive |-> 0, sum |-> 0]]
EvidenceRests ==
    /\ EvidenceInit
    /\ modelDir = (CHOOSE d \in Digests : TRUE)
    /\ files["corpus"].text = (CHOOSE t \in Texts : TRUE)
    /\ files["predictions"].rows[1].bps = 0
QualityRests ==
    /\ stage = "rejected" /\ recipe = <<>> /\ corpus = NoCorpus /\ scanned = <<>>
    /\ cells = [tp |-> 0, fp |-> 0, tn |-> 0, fn |-> 0]
    /\ evaluator = (CHOOSE v \in Versions : TRUE)
    /\ pin = [implementation |-> evaluator, expected |-> evaluator]
    /\ qualityReport = NoQualityReport

EvaluationInit ==
    \/ part = "scanner" /\ ScannerInit /\ document \in MCDocuments \union {<<>>}
       /\ MetricsRests /\ EvidenceRests /\ QualityRests
    \/ part = "metrics" /\ MetricsInit
       /\ ScannerRests /\ EvidenceRests /\ QualityRests
    \/ part = "evidence" /\ EvidenceInit
       /\ ScannerRests /\ MetricsRests /\ QualityRests
    \/ part = "quality" /\ QualityInit
       /\ ScannerRests /\ MetricsRests /\ EvidenceRests

EvaluationNext ==
    \/ part = "scanner" /\ ScannerNext
       /\ UNCHANGED <<part, metricVars, evidenceVars, qualityVars>>
    \/ part = "metrics" /\ MetricsNext
       /\ UNCHANGED <<part, scannerVars, evidenceVars, qualityVars>>
    \/ part = "evidence" /\ EvidenceNext
       /\ UNCHANGED <<part, scannerVars, metricVars, qualityVars>>
    \/ part = "quality" /\ QualityNext
       /\ UNCHANGED <<part, scannerVars, metricVars, evidenceVars>>

EvaluationVars ==
    <<part, scannerVars, metricVars, evidenceVars, qualityVars>>

EvaluationSpec == EvaluationInit /\ [][EvaluationNext]_EvaluationVars
=============================================================================
