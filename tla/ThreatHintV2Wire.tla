---------------------------- MODULE ThreatHintV2Wire ----------------------------
(***************************************************************************)
(* The wires of a ThreatHint v2 report and what each reader asks of them:  *)
(* threat_observable.py, threat_hint_v2_statement.py,                      *)
(* threat_hint_v2_proof_envelope.py, relation_manifest_v2.py,              *)
(* threat_hint_v2_proof_binding.py, threat_hint_v2_transport.py,           *)
(* observable_approval.py and threat_hint_v2_preflight.py.                 *)
(*                                                                         *)
(* A wire is a value with the spelling it arrived in; only a value's       *)
(* canonical spelling is what Encode returns.  A hash is the tuple of what *)
(* it was computed from with its domain, so equal hashes have equal        *)
(* preimages.  A field that is no string of its type makes the wire        *)
(* "garbled".                                                              *)
(***************************************************************************)
EXTENDS Integers, FiniteSets, Sequences

CONSTANTS
    ConfidenceMax,      \* CONFIDENCE_BPS_MAX
    U64Max,             \* U64_MAX
    LifetimeMax,        \* MAX_APPROVAL_LIFETIME_SECONDS
    ObservablesMax,     \* MAX_OBSERVABLES
    Rank,               \* order of observables: (kind, value) bytes
    Policy,             \* preflight policy: network, approver, scope, anchor
    Manifests,          \* what the relation manifest file may hold
    Pins                \* [schema, protocol, relation, domain, ...]: pinned strings

ASSUME WireAssumption ==
    /\ ConfidenceMax \in Nat \ {0}
    /\ U64Max \in Nat \ {0}
    /\ LifetimeMax \in Nat \ {0}
    /\ ObservablesMax \in Nat \ {0}

-----------------------------------------------------------------------------
(* Encoding *)

Encode(v) == [enc |-> "canonical", value |-> v]

\* json.loads with unique keys, within the size limit and of exactly the
\* expected fields; "respelled" is any other spelling of the same value.
Decodes(w) == w.enc \in {"canonical", "respelled"}

Sha256(w) == <<"sha256", w>>

\* An object made by parsing: the bytes it was parsed from, and its fields,
\* which object.__setattr__ can still change.
Parsed(w) == [at_parse |-> w, value |-> w.value]

ReviewRequired == "review_required_v1"

PublicAuto == "public_auto_v1"

Disclosures == {PublicAuto, ReviewRequired}

-----------------------------------------------------------------------------
(* ObservableBundle *)

\* _validate_observable; a value of the wrong form for its kind is not valid.
ObservableValid(o) == o.kind \in {"file_sha256", "api_import", "byte_pattern"} /\ o.valid

\* _parse_observables: no byte pattern in public, none twice, none below the last.
ObservablesValid(disclosure, obs) ==
    /\ Len(obs) \in 1 .. ObservablesMax
    /\ \A i \in DOMAIN obs :
           /\ ObservableValid(obs[i])
           /\ disclosure = PublicAuto => obs[i].kind # "byte_pattern"
    /\ \A i, j \in DOMAIN obs : i # j => obs[i] # obs[j]
    /\ \A i \in 2 .. Len(obs) : Rank[obs[i - 1]] <= Rank[obs[i]]

\* _validate_state and _validate_observable_state.
BundleFields(b) ==
    /\ b.schema = 1
    /\ b.disclosure \in Disclosures
    /\ b.scope.platform \in {"windows", "linux", "macos", "any"}
    /\ b.scope.format \in {"pe", "elf", "macho", "script", "document", "unknown"}
    /\ ObservablesValid(b.disclosure, b.observables)

ParsesBundle(w) == Decodes(w) /\ BundleFields(w.value) /\ Encode(w.value) = w

\* commitment(network_id, report_nonce).
Commitment(b, net, nonce) == <<"bundle", net, nonce, b>>

CommitmentMatches(expected, net, nonce, w) ==
    ParsesBundle(w) /\ expected = Commitment(w.value, net, nonce)

-----------------------------------------------------------------------------
(* ThreatHintV2Statement *)

\* _parse_object and _validate_state.
StatementFields(s) ==
    /\ s.schema = 2
    /\ s.confidence \in 1 .. ConfidenceMax
    /\ s.observed \in 1 .. U64Max
    /\ s.disclosure \in Disclosures

\* canonical_bytes of an object: its fields still spell what was parsed.
StatementIntact(o) == StatementFields(o.value) /\ Encode(o.value) = o.at_parse

ParsesStatement(w, net) ==
    /\ Decodes(w)
    /\ StatementFields(w.value)
    /\ w.value.network = net
    /\ StatementIntact(Parsed(w))

StatementDigest(s) == <<Pins.domain, s>>

-----------------------------------------------------------------------------
(* ThreatHintV2ProofEnvelope *)

EnvelopeFields(e) ==
    /\ e.schema = 2
    /\ e.protocol = Pins.protocol
    /\ e.relation = Pins.relation
    /\ e.digest = StatementDigest(e.statement.value)

\* An envelope object holds the statement object parsed with it.
ParsedEnvelope(w) ==
    [at_parse |-> w, value |-> w.value, statement |-> Parsed(w.value.statement)]

\* canonical_bytes with _validate_state.
EnvelopeIntact(o) ==
    /\ EnvelopeFields(o.value)
    /\ StatementIntact(o.statement)
    /\ Encode(o.statement.value) = o.value.statement
    /\ StatementDigest(o.statement.value) = o.value.digest
    /\ Encode(o.value) = o.at_parse

\* parse_canonical with _parse_object, which parses the embedded statement.
ParsesEnvelope(w, net) ==
    /\ Decodes(w)
    /\ EnvelopeFields(w.value)
    /\ ParsesStatement(w.value.statement, net)
    /\ EnvelopeIntact(ParsedEnvelope(w))

-----------------------------------------------------------------------------
(* RelationManifestV2 *)

\* The nineteen fields: pinned strings and numbers, non-zero anchors, sizes.
ManifestFields(m) ==
    /\ m.schema = 2
    /\ m.protocol = Pins.protocol
    /\ m.relation = Pins.relation
    /\ m.domain = Pins.domain
    /\ m.proof_system = Pins.proof_system
    /\ m.encoding = Pins.encoding
    /\ m.input_count = 2
    /\ \A part \in {"source", "proving", "verifying"} :
           m.sizes[part] \in 1 .. Pins.sizes[part] /\ m.anchors[part] # "zero"

ManifestIntact(o) == ManifestFields(o.value) /\ Encode(o.value) = o.at_parse

ParsesManifest(w, net) ==
    /\ Decodes(w)
    /\ ManifestFields(w.value)
    /\ w.value.network = net
    /\ ManifestIntact(Parsed(w))

-----------------------------------------------------------------------------
(* ThreatHintV2ProofBinding *)

\* _statement_digest_hex: the domain the manifest declares, over the statement.
DeclaredDigest(m, s) == <<m.domain, s>>

\* bind_canonical: the anchor is compared before the manifest is parsed.
Binds(envelope, manifest, net, anchor) ==
    /\ Sha256(manifest) = anchor
    /\ ParsesManifest(manifest, net)
    /\ ParsesEnvelope(envelope, net)
    /\ envelope.value.protocol = manifest.value.protocol
    /\ envelope.value.relation = manifest.value.relation
    /\ DeclaredDigest(manifest.value, envelope.value.statement.value) = envelope.value.digest
    /\ manifest.value.encoding = Pins.encoding /\ manifest.value.input_count = 2

\* The snapshot a binding keeps outside the object.
Snapshot(envelope, manifest, net) ==
    [envelope |-> envelope, manifest |-> manifest, network |-> net,
     manifest_sha256 |-> Sha256(manifest),
     digest |-> DeclaredDigest(manifest.value, envelope.value.statement.value)]

\* Mutant: the objects are valid in themselves.
BindingSelfConsistent(b) ==
    /\ EnvelopeIntact(b.envelope)
    /\ ManifestIntact(b.manifest)
    /\ DeclaredDigest(b.manifest.value, b.envelope.statement.value) = b.envelope.value.digest

\* _validate_state, made before every read of a derived value.
BindingIntact(b) ==
    /\ EnvelopeIntact(b.envelope)
    /\ ManifestIntact(b.manifest)
    /\ Encode(b.manifest.value) = b.snapshot.manifest
    /\ Encode(b.envelope.value) = b.snapshot.envelope
    /\ Sha256(Encode(b.manifest.value)) = b.snapshot.manifest_sha256
    /\ b.envelope.value.protocol = b.manifest.value.protocol
    /\ b.envelope.value.relation = b.manifest.value.relation
    /\ b.manifest.value.network = b.snapshot.network
    /\ b.envelope.statement.value.network = b.snapshot.network
    /\ LET recomputed == DeclaredDigest(b.manifest.value, b.envelope.statement.value)
       IN  recomputed = b.snapshot.digest /\ recomputed = b.envelope.value.digest

-----------------------------------------------------------------------------
(* Observable approvals *)

\* What the approver signs: every field but the signature.
SigningBody(a) ==
    <<a.schema, a.commitment, a.approver, a.purpose, a.scope, a.network,
      a.not_before, a.expires_at, a.approval_nonce>>

Signature(key, a) == <<"schnorr", key, SigningBody(a)>>

ApprovalLifetime(a) ==
    /\ a.not_before \in 1 .. U64Max
    /\ a.expires_at \in 1 .. U64Max
    /\ a.expires_at - a.not_before \in 1 .. LifetimeMax

\* _validate_approval_shape: what can be said without a context.
ApprovalShape(w) ==
    /\ Decodes(w)
    /\ Encode(w.value) = w
    /\ w.value.schema = 1
    /\ w.value.purpose = Pins.purpose
    /\ ApprovalLifetime(w.value)

\* ObservableApprovalContext.
Context(nonce, policy, now) ==
    [nonce |-> nonce, approver |-> policy.approver, scope |-> policy.scope,
     network |-> policy.network, now |-> now]

\* _verify_observable_approval.
VerifiesApproval(w, bundle, ctx) ==
    /\ Decodes(w)
    /\ Encode(w.value) = w
    /\ w.value.schema = 1
    /\ w.value.purpose = Pins.purpose
    /\ w.value.network = ctx.network
    /\ ApprovalLifetime(w.value)
    /\ ctx.now \in w.value.not_before .. w.value.expires_at
    /\ w.value.approver = ctx.approver /\ w.value.scope = ctx.scope
    /\ ParsesBundle(bundle) /\ bundle.value.disclosure = ReviewRequired
    /\ w.value.commitment = Commitment(bundle.value, ctx.network, ctx.nonce)
    /\ w.value.signature = Signature(w.value.approver, w.value)

ApprovalId(w) == <<"approval", w>>

-----------------------------------------------------------------------------
(* ThreatHintV2TransportPayload *)

\* parse_canonical: magic, version, three lengths and their total are the
\* frame's own spelling; the nonce of the header is the statement's.
ParsesTransport(p, net) ==
    /\ Decodes(p)
    /\ p.enc = "canonical"
    /\ ParsesEnvelope(p.value.envelope, net)
    /\ p.value.envelope.value.statement.value.nonce = p.value.nonce
    /\ ParsesBundle(p.value.bundle)
    /\ ApprovalShape(p.value.approval)

-----------------------------------------------------------------------------
(* ThreatHintV2PreflightService *)

\* _preflight, steps 1 to 9.
Preflights(p, manifest, policy, nonce, now) ==
    LET statement == p.envelope.value.statement.value
        bundle    == p.bundle.value
    IN  /\ now \in 1 .. U64Max
        /\ Binds(p.envelope, manifest, policy.network, policy.anchor)
        /\ statement.disclosure = ReviewRequired
        /\ statement.nonce = nonce
        /\ ParsesBundle(p.bundle) /\ bundle.disclosure = ReviewRequired
        /\ Commitment(bundle, policy.network, nonce) = statement.commitment
        /\ VerifiesApproval(p.approval, p.bundle, Context(nonce, policy, now))
        /\ StatementDigest(statement) = DeclaredDigest(manifest.value, statement)
=============================================================================
