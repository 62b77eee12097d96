-------------------------- MODULE ThreatHintV2Binding --------------------------
(***************************************************************************)
(* One report of ThreatHintV2Wire under the readers that see it: the       *)
(* transport parser and the data-only preflight, which are functions of    *)
(* the report, and a proof binding whose objects are changed between the   *)
(* reads of its derived values, as object.__setattr__ allows.              *)
(***************************************************************************)
EXTENDS ThreatHintV2Wire

CONSTANTS
    Reports,          \* candidate reports: nonce, envelope, bundle, approval
    SessionNonce,     \* the trusted report nonce
    ClockValues,      \* trusted times
    Tampered,         \* envelopes and manifests an object may be changed to
    None

\* The (kind, value) bytes tell two observables apart; what a bundle wire decodes
\* to has exactly its four fields.
ASSUME BindingAssumption ==
    /\ \A o, p \in DOMAIN Rank : Rank[o] \in Nat /\ (Rank[o] = Rank[p] => o = p)
    /\ \A r \in Reports :
           LET b == r.bundle.value IN
           /\ b = [schema |-> b.schema, disclosure |-> b.disclosure, scope |-> b.scope,
                   observables |-> b.observables]
           /\ b.observables \in Seq(DOMAIN Rank)

VARIABLES
    report,           \* the report under examination
    manifest_file,    \* the manifest file
    now,              \* the trusted time
    binding,          \* None or a ThreatHintV2ProofBinding
    read              \* None or the last values read, with what the objects held

Bundles == {r.bundle : r \in Reports}

bindingVars == <<report, manifest_file, now, binding, read>>

BindingInit ==
    /\ report \in Reports
    /\ manifest_file \in Manifests
    /\ now \in ClockValues
    /\ binding = None
    /\ read = None

\* bind_canonical.
Bind ==
    /\ binding = None
    /\ Binds(report.envelope, manifest_file, Policy.network, Policy.anchor)
    /\ binding' = [envelope |-> ParsedEnvelope(report.envelope),
                   manifest |-> Parsed(manifest_file),
                   snapshot |-> Snapshot(report.envelope, manifest_file, Policy.network)]
    /\ UNCHANGED <<report, manifest_file, now, read>>

\* A nested object is replaced, or its fields are.
Tamper ==
    /\ binding # None
    /\ \/ \E e \in Tampered.envelopes :
              \/ binding' = [binding EXCEPT !.envelope = ParsedEnvelope(e)]
              \/ binding' = [binding EXCEPT !.envelope.value = e.value]
              \/ binding' = [binding EXCEPT !.envelope.statement.value = e.value.statement.value]
       \/ \E m \in Tampered.manifests :
              \/ binding' = [binding EXCEPT !.manifest = Parsed(m)]
              \/ binding' = [binding EXCEPT !.manifest.value = m.value]
    /\ UNCHANGED <<report, manifest_file, now, read>>

\* statement_digest_hex, raw_manifest_sha256_hex and the public-input halves.
ReadDerived ==
    /\ binding # None
    /\ BindingIntact(binding)
    /\ read' = [got |-> binding.snapshot,
                envelope |-> Encode(binding.envelope.value),
                statement |-> binding.envelope.statement.value,
                manifest |-> Encode(binding.manifest.value)]
    /\ UNCHANGED <<report, manifest_file, now, binding>>

BindingNext == Bind \/ Tamper \/ ReadDerived

BindingSpec == BindingInit /\ [][BindingNext]_bindingVars

-----------------------------------------------------------------------------
(* Properties *)

\* Every wire of a report that passes preflight speaks of the same network, nonce,
\* bundle and statement, and its approval is the approver's own, for that bundle,
\* at that time: mixing wires of two reports never passes.
PreflightAgrees ==
    Preflights(report, manifest_file, Policy, SessionNonce, now) =>
        LET statement == report.envelope.value.statement.value
            approval  == report.approval.value
            bundle    == report.bundle.value
        IN  /\ report.envelope = Encode(report.envelope.value)
            /\ manifest_file.value.network = statement.network
            /\ approval.network = statement.network
            /\ statement.nonce = SessionNonce
            /\ report.envelope.value.digest = <<manifest_file.value.domain, statement>>
            /\ statement.commitment = approval.commitment
            /\ approval.commitment = <<"bundle", statement.network, SessionNonce, bundle>>
            /\ statement.disclosure = bundle.disclosure
            /\ approval.signature = Signature(Policy.approver, approval)
            /\ approval.not_before <= now /\ now <= approval.expires_at

\* _validate_approval_shape repeats a part of the approval verifier: the transport
\* turns away nothing that the preflight behind it would let pass.
TransportLetsThrough ==
    /\ Preflights(report, manifest_file, Policy, SessionNonce, now)
    /\ report.nonce = SessionNonce
    => ParsesTransport(Encode(report), Policy.network)

Listed(b) == {b.observables[i] : i \in DOMAIN b.observables}

\* Commitments identify observables: two bundle wires that both parse, with the
\* same scope, disclosure and set of observables, are the same wire.
BundleHasOneSpelling ==
    ParsesBundle(report.bundle) =>
        \A b \in Bundles :
            LET a == report.bundle
                alike == /\ a.value.disclosure = b.value.disclosure
                         /\ a.value.scope = b.value.scope
                         /\ Listed(a.value) = Listed(b.value)
            IN  alike /\ ParsesBundle(b) => a = b

\* The class comment: "mutation or a forged same-shape instance fails closed on
\* every derived read".  What a read returns is what was bound, and the objects
\* beside it still hold it.
ReadIsBound ==
    read # None =>
        /\ read.got.envelope = report.envelope /\ read.envelope = report.envelope
        /\ read.got.manifest = manifest_file /\ read.manifest = manifest_file
        /\ read.statement = report.envelope.value.statement.value
        /\ read.got.digest = <<manifest_file.value.domain, read.statement>>

\* What the transport, the preflight and the binding take for one report is one
\* report: its wires agree, no reader turns away what a later one takes, a bundle
\* has one spelling, and what is read later is what was bound.
ReportIsOne ==
    PreflightAgrees /\ TransportLetsThrough /\ BundleHasOneSpelling /\ ReadIsBound
=============================================================================
