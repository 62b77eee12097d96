----------------------------- MODULE MCThreatHintV2 -----------------------------
(* The intake of v2 reports, and one report under the readers that see it.  The    *)
(* two share no state, so a behaviour follows one of them while the other rests.   *)
EXTENDS ThreatHintV2Intake, ThreatHintV2Binding, TLC

VARIABLE part    \* what this behaviour follows

PinsValue == [protocol |-> "v2", relation |-> "r", domain |-> "d", proof_system |-> "g16",
           encoding |-> "split", purpose |-> "analysis",
           sizes |-> [source |-> 2, proving |-> 2, verifying |-> 2]]

MCObservables ==
    [kind : {"file_sha256", "api_import", "byte_pattern"}, valid : {TRUE}, id : {1}]

RankValue == [o \in MCObservables |->
               CASE o.kind = "api_import" -> 1 [] o.kind = "byte_pattern" -> 2 [] OTHER -> 3]

Obs(kind) == [kind |-> kind, valid |-> TRUE, id |-> 1]

Bundle(kind, format) ==
    [schema |-> 1, disclosure |-> "review_required_v1",
     scope |-> [platform |-> "linux", format |-> format],
     observables |-> << Obs(kind) >>]

MCManifest(size) ==
    Encode([schema |-> 2, protocol |-> "v2", relation |-> "r", domain |-> "d",
            proof_system |-> "g16", encoding |-> "split", input_count |-> 2,
            network |-> "net",
            sizes |-> [source |-> size, proving |-> 1, verifying |-> 1],
            anchors |-> [source |-> "s", proving |-> "p", verifying |-> "v"]])

ManifestsValue == {MCManifest(1), MCManifest(2)}

PolicyValue == [network |-> "net", approver |-> "key", scope |-> "here",
             anchor |-> Sha256(MCManifest(1))]

PromotionValue == [platform |-> "linux", format |-> "elf",
                kinds |-> {"file_sha256"}, max |-> 1]

Statement(bundle, net, nonce, observed) ==
    [schema |-> 2, confidence |-> 1, observed |-> observed, network |-> net,
     disclosure |-> "review_required_v1", nonce |-> nonce,
     commitment |-> Commitment(bundle, net, nonce)]

Envelope(s, digest) ==
    Encode([schema |-> 2, protocol |-> "v2", relation |-> "r",
            statement |-> Encode(s), digest |-> digest])
Sound(s) == Envelope(s, StatementDigest(s))

Approval(bundle, nonce, approval_nonce, key, from, until) ==
    LET body == [schema |-> 1, purpose |-> "analysis", approver |-> key,
                 scope |-> "here", network |-> "net", not_before |-> from,
                 expires_at |-> until, approval_nonce |-> approval_nonce,
                 commitment |-> Commitment(bundle, "net", nonce),
                 signature |-> <<>>]
    IN  [body EXCEPT !.signature = Signature(key, body)]

Payload(bundle, nonce, approval_nonce, observed, from, until) ==
    Encode([nonce |-> nonce,
            envelope |-> Sound(Statement(bundle, "net", nonce, observed)),
            bundle |-> Encode(bundle),
            approval |-> Encode(Approval(bundle, nonce, approval_nonce, "key", from, until))])

\* r1 is sound until time 2; r3 is r1's bundle under a new approval, sound from
\* time 3; r5's kind is not promoted; r6 is approved by the key of the next
\* authority epoch; r7 begins at time 3 and its proof does not verify.  r2 is sound
\* and shares nothing with r1; only RejectedAsReplay needs it.
ContentValue ==
    LET elf == Bundle("file_sha256", "elf")
    IN  [r1 |-> Payload(elf, "n1", "x1", 1, 1, 2),
         r2 |-> Payload(elf, "n2", "x2", 1, 1, 3),
         r3 |-> Payload(elf, "n1", "x3", 2, 3, 4),
         r5 |-> Payload(Bundle("byte_pattern", "elf"), "n1", "x5", 1, 1, 3),
         r6 |-> [Payload(elf, "n2", "x6", 2, 1, 3) EXCEPT !.value.approval =
                     Encode(Approval(elf, "n2", "x6", "key2", 1, 3))],
         r7 |-> Payload(elf, "n1", "x7", 2, 3, 4)]

ApprovalValue(a) == Content[a].value.approval.value

SignerOfValue == [a \in Approvals |-> <<ApprovalValue(a).approver, ApprovalValue(a).scope>>]
NonceOfValue == [a \in Approvals |-> <<ApprovalValue(a).approver, ApprovalValue(a).approval_nonce>>]
CommitmentOfValue == [a \in Approvals |-> ApprovalValue(a).commitment]
StatementOfValue == [a \in Approvals |-> Content[a].value.envelope.value.digest]
NotBeforeValue == [a \in Approvals |-> ApprovalValue(a).not_before]
ExpiresAtValue == [a \in Approvals |-> ApprovalValue(a).expires_at]
IdOrderValue == [a \in Approvals |-> CASE a = "r1" -> 1 [] a = "r2" -> 2 [] a = "r3" -> 3
                                    [] a = "r5" -> 4 [] a = "r6" -> 5 [] OTHER -> 6]

MCNetwork == [g \in Bindings |-> "net"]
MCIdentity == [g \in Bindings |-> IF g = "g1" THEN <<"key", "here">> ELSE <<"key2", "here">>]
MCEpoch == [g \in Bindings |-> IF g = "g1" THEN 1 ELSE 2]
MCFrom == [g \in Bindings |-> 1]
MCUntil == [g \in Bindings |-> 4]
MCMaxPending == [g \in Bindings |-> 2]
MCMaxRetention == [g \in Bindings |-> 2]
\* TLC evaluates a definition once, what a constant is replaced by at every use.
MCPins == PinsValue
MCRank == RankValue
MCManifests == ManifestsValue
MCPolicy == PolicyValue
MCPromotion == PromotionValue
MCContent == ContentValue
MCSignerOf == SignerOfValue
MCNonceOf == NonceOfValue
MCCommitmentOf == CommitmentOfValue
MCStatementOf == StatementOfValue
MCNotBefore == NotBeforeValue
MCExpiresAt == ExpiresAtValue
MCIdOrder == IdOrderValue
MCNoReport == "none"

-----------------------------------------------------------------------------
(* Reports put together from wires of several: of two bundles and their mis-    *)
(* spellings, of envelopes for another nonce, network or digest, and of         *)
(* approvals for another bundle, by another key, or for too long.               *)

Listing(disclosure, obs) == [Bundle("api_import", "elf") EXCEPT !.disclosure = disclosure,
                                                                !.observables = obs]
B1 == Listing("review_required_v1", << Obs("api_import"), Obs("file_sha256") >>)
B2 == Listing("review_required_v1", << Obs("byte_pattern") >>)
Respelled(w) == [w EXCEPT !.enc = "respelled"]

BundleWires ==
    {Encode(B1), Encode(B2), Respelled(Encode(B1)),
     Encode(Listing("public_auto_v1", << Obs("byte_pattern") >>)),
     Encode(Listing("review_required_v1", << Obs("file_sha256"), Obs("api_import") >>)),
     Encode(Listing("review_required_v1",
                    << Obs("api_import"), Obs("api_import"), Obs("file_sha256") >>))}

S1 == Statement(B1, "net", "n1", 1)
S2 == Statement(B2, "net", "n1", 1)
S3 == Statement(B1, "net", "n2", 1)
S4 == Statement(B1, "other", "n1", 1)

EnvelopeWires ==
    {Sound(S1), Sound(S2), Sound(S3), Sound(S4),
     Envelope(S1, StatementDigest(S2)), Respelled(Sound(S1))}

ApprovalWires ==
    {Encode(Approval(B1, "n1", "x", "key", 2, 3)), Encode(Approval(B2, "n1", "x", "key", 2, 3)),
     Encode(Approval(B1, "n1", "x", "key2", 2, 3)), Encode(Approval(B1, "n1", "x", "key", 2, 4)),
     Encode(Approval(B1, "n1", "x", "key", 2, 5))}

ReportsValue == [nonce : {"n1", "n2"}, envelope : EnvelopeWires, bundle : BundleWires,
                 approval : ApprovalWires]
TamperedValue == [envelopes |-> {Sound(S1), Sound(S3), Envelope(S1, StatementDigest(S2))},
                  manifests |-> ManifestsValue]
MCReports == ReportsValue
MCTampered == TamperedValue

-----------------------------------------------------------------------------
(* At rest: no server and no session; a report nobody has read. *)

IntakeRests == IntakeInit /\ sessions = {} /\ manifest = MCManifest(1)
BindingRests ==
    /\ report = LET w == Respelled(Encode(B2)) IN
                [nonce |-> "n1", envelope |-> w, bundle |-> w, approval |-> w]
    /\ manifest_file = MCManifest(1) /\ now = 0 /\ binding = None /\ read = None

ConnSymmetry == Permutations(Conns)

V2Init ==
    \/ part = "intake" /\ IntakeInit /\ BindingRests
    \/ part = "binding" /\ BindingInit /\ IntakeRests

V2Next ==
    \/ part = "intake" /\ IntakeNext /\ UNCHANGED <<part, bindingVars>>
    \/ part = "binding" /\ BindingNext /\ UNCHANGED <<part, intakeVars>>

V2Spec == V2Init /\ [][V2Next]_<<part, intakeVars, bindingVars>>
=============================================================================
