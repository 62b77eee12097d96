----------------------------- MODULE YaraScanner -----------------------------
(***************************************************************************)
(* The structural boundary in front of the YARA-X compiler: the one-pass   *)
(* scanner of yara_validation.py, and observable_semantic_draft.py, which  *)
(* renders an observable bundle into one candidate source and sends it     *)
(* through that boundary.                                                  *)
(*                                                                         *)
(* A source is a sequence of symbols.  The punctuation the scanner looks   *)
(* at is one symbol each; a piece of an identifier is "rule", "import",    *)
(* "id" or "digit", and pieces that stand together are one token, as they  *)
(* are for the scanner.  "include" is scanned as "import" is.  The         *)
(* compiler is external: it accepts or refuses what passed the scan.       *)
(***************************************************************************)
EXTENDS Integers, Sequences, FiniteSets, SequencesExt

CONSTANTS
    Items,            \* lexemes of the reference grammar, see Item
    MaxItems,         \* bound: items of a document
    Values,           \* values an observable may carry, sequences of symbols
    MaxObservables,   \* bound: observables of a bundle
    MaxSource,        \* MAX_YARA_SOURCE_BYTES
    MaxName,          \* MAX_YARA_RULE_NAME_LENGTH
    MaxImport,        \* _MAX_API_IMPORT_LEN
    MinTokens, MaxTokens  \* _MIN_BYTE_PATTERN_TOKENS, _MAX_BYTE_PATTERN_TOKENS

ASSUME ScannerAssumption ==
    /\ \A n \in {MaxItems, MaxObservables, MaxSource, MaxName, MaxImport, MinTokens, MaxTokens} :
         n \in Nat
    /\ MaxName > 0
    /\ \A i \in Items : i.text \in Seq(STRING)
    /\ Values \subseteq Seq(STRING)

IdentifierStart == {"rule", "import", "id"}
IdentifierChars == IdentifierStart \union {"digit"}

VARIABLES
    pc,           \* "scan", "compile", "accepted", "refused", "error"
    document,     \* the items the source was put together from, <<>> for a draft
    observables,  \* the observables a draft is derived from, <<>> for a document
    source,       \* the candidate source
    scan          \* the scanner's state

scannerVars == <<pc, document, observables, source, scan>>

ScanStart ==
    [index |-> 1, mode |-> "normal", class |-> FALSE, depth |-> 0, expecting |-> FALSE,
     count |-> 0, name |-> <<>>, directive |-> FALSE]

---------------------------------------------------------------------------
(* The scanner: one operator for each method of _TopLevelScanner. *)

Following(s) == IF s.index < Len(source) THEN source[s.index + 1] ELSE "end"

Skip(s, mode) == [s EXCEPT !.mode = mode, !.index = @ + 1]

StepRegex(s, char) ==
    IF char = "esc" THEN Skip(s, "regex")
    ELSE IF char = "lbr" THEN [s EXCEPT !.class = TRUE]
    ELSE IF char = "rbr" THEN [s EXCEPT !.class = FALSE]
    ELSE IF char = "slash" /\ ~s.class THEN [s EXCEPT !.mode = "normal"]
    ELSE s

\* Mutant: an escaped quote ends the string.
StepRegionNoEscape(s) ==
    LET char == source[s.index]
    IN CASE s.mode = "line" -> IF char = "nl" THEN [s EXCEPT !.mode = "normal"] ELSE s
         [] s.mode = "block" ->
              IF char = "star" /\ Following(s) = "slash" THEN Skip(s, "normal") ELSE s
         [] s.mode = "quoted" -> IF char = "quote" THEN [s EXCEPT !.mode = "normal"] ELSE s
         [] s.mode = "regex" -> StepRegex(s, char)
         [] s.mode = "hex" -> IF char = "close" THEN [s EXCEPT !.mode = "normal"] ELSE s

StepRegion(s) ==
    LET char == source[s.index]
    IN CASE s.mode = "line" -> IF char = "nl" THEN [s EXCEPT !.mode = "normal"] ELSE s
         [] s.mode = "block" ->
              IF char = "star" /\ Following(s) = "slash" THEN Skip(s, "normal") ELSE s
         [] s.mode = "quoted" ->
              IF char = "esc" THEN Skip(s, "quoted")
              ELSE IF char = "quote" THEN [s EXCEPT !.mode = "normal"] ELSE s
         [] s.mode = "regex" -> StepRegex(s, char)
         [] s.mode = "hex" -> IF char = "close" THEN [s EXCEPT !.mode = "normal"] ELSE s

(* The pieces of the identifier that starts at the index.                  *)
TokenEnd(s) ==
    CHOOSE e \in s.index..Len(source) :
        /\ \A i \in s.index..e : source[i] \in IdentifierChars
        /\ e < Len(source) => source[e + 1] \notin IdentifierChars

ReadIdentifier(s) ==
    LET token == SubSeq(source, s.index, TokenEnd(s))
        read == [s EXCEPT !.index = TokenEnd(s)]
    IN IF s.depth # 0 THEN read
       ELSE IF token = <<"import">> THEN [read EXCEPT !.directive = TRUE]
       ELSE IF token = <<"rule">> THEN [read EXCEPT !.count = @ + 1, !.expecting = TRUE]
       ELSE IF s.expecting THEN [read EXCEPT !.name = token, !.expecting = FALSE]
       ELSE read

StepNormal(s) ==
    LET char == source[s.index]
        next == Following(s)
    IN IF char = "slash" /\ next = "slash" THEN Skip(s, "line")
       ELSE IF char = "slash" /\ next = "star" THEN Skip(s, "block")
       ELSE IF char = "quote" THEN [s EXCEPT !.mode = "quoted"]
       ELSE IF char = "slash" THEN [s EXCEPT !.mode = "regex", !.class = FALSE]
       ELSE IF s.depth = 0 /\ char = "open" THEN [s EXCEPT !.depth = 1]
       ELSE IF s.depth = 1 /\ char = "open" THEN [s EXCEPT !.mode = "hex"]
       ELSE IF s.depth = 1 /\ char = "close" THEN [s EXCEPT !.depth = 0]
       ELSE IF char \in IdentifierStart THEN ReadIdentifier(s)
       ELSE s

Terminated(s) == s.mode \in {"normal", "line"} /\ s.depth = 0

---------------------------------------------------------------------------
(* validate_candidate_rule_source. *)

(* The checks before the scan.                                             *)
Scannable(text) ==
    /\ Len(text) \in 1..MaxSource
    /\ \A i \in DOMAIN text : text[i] \notin {"nonascii", "nul"}

(* The checks after it.                                                    *)
OneNamedRule(s) ==
    /\ Terminated(s)
    /\ ~s.directive
    /\ s.count = 1
    /\ Len(s.name) \in 1..MaxName

ScanStep ==
    /\ pc = "scan"
    /\ scan.index <= Len(source)
    /\ LET s == IF scan.mode = "normal" THEN StepNormal(scan) ELSE StepRegion(scan)
       IN scan' = [s EXCEPT !.index = @ + 1]
    /\ UNCHANGED <<pc, document, observables, source>>

ScanEnds ==
    /\ pc = "scan"
    /\ scan.index > Len(source)
    /\ pc' = IF OneNamedRule(scan) THEN "compile" ELSE "refused"
    /\ UNCHANGED <<document, observables, source, scan>>

(* _compiles_clean: includes off, no error, no warning.                    *)
CompilesClean ==
    /\ pc = "compile"
    /\ pc' \in {"accepted", "refused"}
    /\ UNCHANGED <<document, observables, source, scan>>

---------------------------------------------------------------------------
(* derive_semantic_draft. *)

CheckApiImport(v) ==
    /\ Len(v) \in 1..MaxImport
    /\ v[1] \in IdentifierStart
    /\ \A i \in DOMAIN v : v[i] \in IdentifierChars \union {"dot"}

(* A byte pattern here is its tokens: two hexadecimal digits or a wildcard.*)
CheckBytePattern(v) ==
    /\ Len(v) \in MinTokens..MaxTokens
    /\ \A i \in DOMAIN v : v[i] \in {"digit", "wild"}
    /\ Cardinality({i \in DOMAIN v : v[i] = "digit"}) >= MinTokens

(* _checked_observable; the digest of a file is never rendered.            *)
CheckedObservable(o) ==
    \/ o.kind = "file_sha256"
    \/ o.kind = "api_import" /\ CheckApiImport(o.value)
    \/ o.kind = "byte_pattern" /\ CheckBytePattern(o.value)

Rendered(o) ==
    IF o.kind = "api_import"
    THEN <<"id", "sp", "quote">> \o o.value \o <<"quote", "nl">>
    ELSE IF o.kind = "byte_pattern"
    THEN <<"id", "sp", "open", "sp">> \o o.value \o <<"sp", "close", "nl">>
    ELSE <<>>

(* _render_candidate_source: the strings, the condition.                   *)
RenderCandidateSource(lines) ==
    <<"rule", "sp", "id", "sp", "open", "nl">>
      \o FlattenSeq(lines)
      \o <<"id", "sp", "id", "nl", "close">>

Draft(bundle) == RenderCandidateSource([i \in DOMAIN bundle |-> Rendered(bundle[i])])

---------------------------------------------------------------------------
(* Documents of the reference grammar, and the behaviours. *)

(* An item is a record: its text, what it is ("word", "region", "body",    *)
(* "commented": a body with a comment inside a hex string, "open": a       *)
(* region or a body without its end).                                      *)
Documents == UNION {[1..n -> Items] : n \in 1..MaxItems}

Observables == [kind : {"file_sha256", "api_import", "byte_pattern"}, value : Values]
Bundles == UNION {[1..n -> Observables] : n \in 1..MaxObservables}

Text(d) == FlattenSeq([i \in DOMAIN d |-> d[i].text])

ScannerInit ==
    /\ scan = ScanStart
    /\ \/ /\ document \in Documents
          /\ observables = <<>>
          /\ source = Text(document)
          /\ pc = IF Scannable(source) THEN "scan" ELSE "refused"
       \/ /\ document = <<>>
          /\ observables \in Bundles
          /\ LET checked == \A i \in DOMAIN observables : CheckedObservable(observables[i])
             IN /\ source = IF checked THEN Draft(observables) ELSE <<>>
                /\ pc = IF checked /\ Scannable(source) THEN "scan" ELSE "error"

ScannerEnds == pc \in {"accepted", "refused", "error"} /\ UNCHANGED scannerVars

ScannerNext == ScanStep \/ ScanEnds \/ CompilesClean \/ ScannerEnds

ScannerSpec == ScannerInit /\ [][ScannerNext]_scannerVars

---------------------------------------------------------------------------
(* The reference: what a document says, read from its items. *)

(* The tokens at top level: words that stand together are one, digits      *)
(* before its first piece left out.                                        *)
Wordy(d, i) == i \in DOMAIN d /\ d[i].what = "word"
WordStarts(d) ==
    {i \in DOMAIN d : Wordy(d, i) /\ d[i].text[1] \in IdentifierStart
        /\ \A j \in 1..(i - 1) :
             (\A k \in j..i : Wordy(d, k)) => \A k \in j..(i - 1) : d[k].text = <<"digit">>}
Token(d, i) ==
    LET end == CHOOSE e \in i..Len(d) :
                 (\A k \in i..e : Wordy(d, k)) /\ ~Wordy(d, e + 1)
    IN Text(SubSeq(d, i, end))

RulesOf(d) == {i \in WordStarts(d) : Token(d, i) = <<"rule">>}
DirectivesOf(d) == {i \in WordStarts(d) : Token(d, i) = <<"import">>}
(* A name is the first other token after a rule word.                      *)
NamesOf(d) ==
    {i \in WordStarts(d) \ (RulesOf(d) \union DirectivesOf(d)) :
        \E r \in RulesOf(d) :
            /\ r < i
            /\ \A j \in WordStarts(d) : r < j /\ j < i => j \in RulesOf(d) \union DirectivesOf(d)}
Closed(d) == \A i \in DOMAIN d : d[i].what # "open"
Commented(d) == \E i \in DOMAIN d : d[i].what = "commented"

Scanned == document # <<>> /\ pc \in {"scan", "compile", "refused"} /\ scan.index > Len(source)

(* The scanner's result says of a document what the grammar says.          *)
ReadAsGrammar(d) ==
    /\ Terminated(scan) <=> Closed(d)
    /\ Closed(d) =>
         /\ scan.count = Cardinality(RulesOf(d))
         /\ scan.directive <=> DirectivesOf(d) # {}
         /\ (scan.name = <<>>) <=> (NamesOf(d) = {})
         /\ \A i \in NamesOf(d) :
              (\A j \in NamesOf(d) : j <= i) => scan.name = Token(d, i)

---------------------------------------------------------------------------
(* Properties. *)

(* The scanner reads what the grammar says: for every document of words,
   comments, strings, regular expressions and rule bodies whose hex strings
   hold no comment, it counts the top-level rule words, sees the top-level
   directives and nothing that stands inside a region or a body, takes the
   name, and knows when a region or a body was left open.                  *)
ScanReadsGrammar ==
    Scanned /\ ~Commented(document) => ReadAsGrammar(document)

(* The same without the exception, which does not hold: a hex string ends at
   the first closing brace for the scanner, a comment's included, and what
   follows in the comment is then read as if it stood in the body.  One rule
   can so end inside a string or a regular expression that a later one closes,
   and the rule between them is not counted.                               *)
ScanReadsHexComments == Scanned => ReadAsGrammar(document)

(* A draft is never refused by the scan: whatever words, digits and dots
   the observables' values are made of, the rendered source is one named
   rule without a directive, so a verdict "does not compile" is always the
   compiler's.                                                             *)
DraftPassesScan ==
    observables # <<>> /\ pc \in {"scan", "compile", "refused"}
      /\ scan.index > Len(source) => OneNamedRule(scan)

(* The scan is right about documents and about rendered drafts.            *)
ScanIsRight == ScanReadsGrammar /\ DraftPassesScan
=============================================================================
